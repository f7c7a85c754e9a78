---------------------------- MODULE AiTeamsProofs ----------------------------
(***************************************************************************)
(* Theorems about AiTeams, for any number of teams, tasks, roles, runs,    *)
(* slots, failing saves and restarts.                                      *)
(***************************************************************************)
EXTENDS AiTeams, SumLemmas, TLAPS

-----------------------------------------------------------------------------
(* Records.  What every record of a team says, whoever holds a copy of it:  *)
(* the one on disk, what the holder of the lock has read, what the run loop *)
(* and completeReview are about to save.                                    *)

(* DependenciesRespected, of one record. *)
GraphOK(t, r) ==
    \A n \in Plan(t) :
        /\ r.node[n] \in {"running", "paused", "completed", "failed"} =>
              \A d \in DependsOn[n] : r.node[d] = "completed"
        /\ r.node[n] = "blocked" <=>
              \E d \in DependsOn[n] : r.node[d] \in {"failed", "blocked"}

(* A team that got as far as its combined review has done every task. *)
Finished == {"merging", "review", "conflict", "completed"}

Sound(t, r) ==
    /\ r \in Records(t)
    /\ IsFiniteSet(r.reserved)
    /\ GraphOK(t, r)
    /\ \A n \in Plan(t) : r.node[n] = "completed" <=> n \in r.handoffs
    /\ r.state \in Finished => AllCompleted(r)
    /\ Committed(r) <= TokenLimit

(* The fields of a record. *)
LEMMA RecordShape ==
    ASSUME NEW t \in Teams, NEW r \in Records(t)
    PROVE  /\ r.state \in TeamStates
           /\ r.node \in [Plan(t) -> NodeStates]
           /\ DOMAIN r.node = Plan(t)
           /\ \A n \in Plan(t) : r.node[n] \in NodeStates
           /\ r.handoffs \subseteq Plan(t)
           /\ r.reserved \subseteq Reservations(t)
           /\ r.used \in Nat /\ r.base \in BOOLEAN
           /\ \A n \in Plan(t) : n \in Nodes /\ DependsOn[n] \subseteq Plan(t)
<1>1. \A n \in Plan(t) : n \in Nodes /\ DependsOn[n] \subseteq Plan(t)
  BY DependsOnAssumption DEF Plan
<1> QED
  BY <1>1 DEF Records

(* What one reservation holds.                                              *)
LEMMA ReservationShape ==
    ASSUME NEW t \in Teams, NEW q \in Reservations(t)
    PROVE  /\ q.agent \in Plan(t) \X (1..MaxRuns)
           /\ q.tokens \in Nat /\ q.tokens > 0 /\ q.tokens \in Sizes
           /\ q.id \in Nat
<1>1. q.tokens \in Sizes
  BY DEF Reservations
<1>2. q.tokens \in Nat \ {0}
  BY <1>1, LimitAssumption
<1> QED
  BY <1>1, <1>2 DEF Reservations

(* What is set aside is a natural number, ...                               *)
LEMMA TokensType ==
    ASSUME NEW t \in Teams, NEW S, S \subseteq Reservations(t), IsFiniteSet(S)
    PROVE  Tokens(S) \in Nat
<1> DEFINE f == [q \in S |-> q.tokens]
<1>1. \A q \in S : f[q] \in Int /\ f[q] >= 0
  BY ReservationShape
<1>2. /\ SumFunctionOnSet(f, S) \in Int
      /\ SumFunctionOnSet(f, S) >= 0
  BY <1>1, SumType, Zenon
<1> QED
  BY <1>2 DEF Tokens

(* ... grows by what is added to it, ...                                    *)
LEMMA TokensAdd ==
    ASSUME NEW t \in Teams, NEW S, S \subseteq Reservations(t), IsFiniteSet(S),
           NEW q \in Reservations(t), q \notin S
    PROVE  /\ IsFiniteSet(S \cup {q})
           /\ Tokens(S \cup {q}) = Tokens(S) + q.tokens
<1> DEFINE f == [p \in S |-> p.tokens]
           g == [p \in S \cup {q} |-> p.tokens]
<1>1. \A p \in S \cup {q} : g[p] \in Int
  BY ReservationShape
<1>2. SumFunctionOnSet(g, S \cup {q}) = SumFunctionOnSet(g, S) + g[q]
  BY <1>1, SumAdd, Zenon
<1>3. \A p \in S : f[p] = g[p]
  OBVIOUS
<1>4. SumFunctionOnSet(f, S) = SumFunctionOnSet(g, S)
  <2> HIDE DEF f, g
  <2> QED
    BY <1>3, SumEqual
<1>5. g[q] = q.tokens
  OBVIOUS
<1>6. IsFiniteSet(S \cup {q})
  BY FS_AddElement
<1> QED
  BY <1>2, <1>4, <1>5, <1>6 DEF Tokens

(* ... and is the sum of its parts.                                         *)
LEMMA TokensSplit ==
    ASSUME NEW t \in Teams, NEW S, S \subseteq Reservations(t), IsFiniteSet(S),
           NEW R, R \subseteq S
    PROVE  /\ IsFiniteSet(R) /\ IsFiniteSet(S \ R)
           /\ Tokens(S) = Tokens(R) + Tokens(S \ R)
<1> DEFINE f == [p \in S |-> p.tokens]
           g == [p \in R |-> p.tokens]
           h == [p \in S \ R |-> p.tokens]
<1>1. \A p \in S : f[p] \in Int
  BY ReservationShape
<1>2. SumFunctionOnSet(f, S) = SumFunctionOnSet(f, R) + SumFunctionOnSet(f, S \ R)
  <2> HIDE DEF f
  <2> QED
    BY <1>1, SumSplits
<1>3. IsFiniteSet(R) /\ IsFiniteSet(S \ R)
  BY FS_Subset
<1>4. (\A p \in R : f[p] = g[p]) /\ (\A p \in S \ R : f[p] = h[p])
  OBVIOUS
<1>5. /\ SumFunctionOnSet(f, R) = SumFunctionOnSet(g, R)
      /\ SumFunctionOnSet(f, S \ R) = SumFunctionOnSet(h, S \ R)
  <2> HIDE DEF f, g, h
  <2> QED
    BY <1>3, <1>4, SumEqual
<1> QED
  BY <1>2, <1>3, <1>5 DEF Tokens

(* What is used and what is set aside are natural numbers. *)
LEMMA CommittedType ==
    ASSUME NEW t \in Teams, NEW r, Sound(t, r)
    PROVE  /\ r.used \in Nat /\ Outstanding(r) \in Nat /\ Committed(r) \in Nat
           /\ Committed(r) = r.used + Tokens(r.reserved)
<1>1. r.used \in Nat /\ r.reserved \subseteq Reservations(t)
  BY RecordShape DEF Sound
<1>2. Tokens(r.reserved) \in Nat
  BY <1>1, TokensType DEF Sound
<1> QED
  BY <1>1, <1>2 DEF Committed, Outstanding

(* Changes that leave tasks and handoffs alone.                             *)
LEMMA SameGraph ==
    ASSUME NEW t \in Teams, NEW r, Sound(t, r), NEW s, s \in Records(t),
           s.node = r.node, s.handoffs = r.handoffs, IsFiniteSet(s.reserved),
           Committed(s) <= TokenLimit, s.state \in Finished => AllCompleted(r)
    PROVE  Sound(t, s)
  BY DEF Sound, GraphOK, AllCompleted

(* The moves of the whole record's state. *)
LEMMA ToSound ==
    ASSUME NEW t \in Teams, NEW r, Sound(t, r), NEW state \in TeamStates,
           state \in Finished => AllCompleted(r)
    PROVE  /\ Sound(t, To(r, state))
           /\ To(r, state).state = state
           /\ To(r, state).node = r.node /\ To(r, state).handoffs = r.handoffs
           /\ To(r, state).reserved = r.reserved /\ To(r, state).used = r.used
           /\ Committed(To(r, state)) = Committed(r)
<1> DEFINE s == To(r, state)
<1>1. /\ s \in Records(t) /\ s.state = state
      /\ s.node = r.node /\ s.handoffs = r.handoffs
      /\ s.reserved = r.reserved /\ s.used = r.used
  BY DEF To, Sound, Records
<1>2. Committed(s) = Committed(r)
  BY <1>1 DEF Committed, Outstanding
<1> HIDE DEF s
<1>3. Sound(t, s)
  BY <1>1, <1>2, SameGraph DEF Sound
<1> QED
  BY <1>1, <1>2, <1>3 DEF s

(* Capturing a base, and giving it up. *)
LEMMA BaseSound ==
    ASSUME NEW t \in Teams, NEW r, Sound(t, r), NEW base \in BOOLEAN
    PROVE  LET s == [r EXCEPT !.base = base] IN
           /\ Sound(t, s)
           /\ s.state = r.state /\ s.node = r.node /\ s.handoffs = r.handoffs
           /\ s.reserved = r.reserved /\ s.used = r.used
           /\ Committed(s) = Committed(r)
<1> DEFINE s == [r EXCEPT !.base = base]
<1>1. /\ s \in Records(t) /\ s.state = r.state
      /\ s.node = r.node /\ s.handoffs = r.handoffs
      /\ s.reserved = r.reserved /\ s.used = r.used
  BY DEF Sound, Records
<1>2. Committed(s) = Committed(r)
  BY <1>1 DEF Committed, Outstanding
<1> HIDE DEF s
<1>3. Sound(t, s)
  BY <1>1, <1>2, SameGraph DEF Sound
<1> QED
  BY <1>1, <1>2, <1>3 DEF s

(* A record nobody has worked on. *)
LEMMA ConfiguredSound ==
    ASSUME NEW t \in Teams, NEW state \in {"configured", "removed"}
    PROVE  LET s == [Configured(t) EXCEPT !.state = state] IN
           /\ Sound(t, Configured(t)) /\ Sound(t, s)
           /\ s.state = state /\ Configured(t).state = "configured"
           /\ Configured(t).reserved = {} /\ s.reserved = {}
           /\ Configured(t).handoffs = {} /\ Configured(t).used = 0
           /\ Committed(Configured(t)) = 0
<1> DEFINE c == Configured(t)
           s == [c EXCEPT !.state = state]
<1>1. /\ c \in Records(t) /\ c.state = "configured"
      /\ c.node = [n \in Plan(t) |-> "pending"] /\ c.handoffs = {}
      /\ c.reserved = {} /\ c.used = 0
  BY DEF Configured, Records, TeamStates, NodeStates
<1>2. \A n \in Plan(t) : c.node[n] = "pending" /\ DependsOn[n] \subseteq Plan(t)
  BY <1>1, RecordShape
<1>3. Tokens({}) = 0
  BY SumEmpty DEF Tokens
<1>4. Committed(c) = 0
  BY <1>1, <1>3 DEF Committed, Outstanding
<1>5. IsFiniteSet(c.reserved)
  BY <1>1, FS_EmptySet
<1>6. GraphOK(t, c)
  <2> HIDE DEF c
  <2> QED
    BY <1>2 DEF GraphOK
<1>7. Sound(t, c)
  <2> HIDE DEF c
  <2> QED
    BY <1>1, <1>2, <1>4, <1>5, <1>6, LimitAssumption DEF Sound, Finished
<1>8. s = To(c, state)
  BY DEF To
<1>9. Sound(t, s) /\ s.state = state /\ s.reserved = {}
  <2> HIDE DEF c
  <2>1. state \in TeamStates /\ state \notin Finished
    BY DEF TeamStates, Finished
  <2> QED
    BY <1>1, <1>7, <1>8, <2>1, ToSound
<1> QED
  BY <1>1, <1>4, <1>7, <1>9

-----------------------------------------------------------------------------
(* What an operation never takes back: handoffs and what was used; what was *)
(* set aside and is not used is still set aside; nothing is to be done anew. *)
Follows(t, r, s) ==
    /\ r.handoffs \subseteq s.handoffs
    /\ r.used <= s.used
    /\ s.reserved \subseteq r.reserved
    /\ Committed(s) = Committed(r)
    /\ \A n \in Plan(t) : s.node[n] = "pending" => r.node[n] = "pending"

(* A change that leaves the ledger and the handoffs alone takes nothing back. *)
LEMMA SameFollows ==
    ASSUME NEW t \in Teams, NEW r, Sound(t, r), NEW s,
           s.handoffs = r.handoffs, s.used = r.used, s.reserved = r.reserved,
           \A n \in Plan(t) : s.node[n] = "pending" => r.node[n] = "pending"
    PROVE  Follows(t, r, s)
<1>1. Committed(s) = Committed(r)
  BY DEF Committed, Outstanding
<1>2. r.used \in Nat
  BY RecordShape DEF Sound
<1> QED
  BY <1>1, <1>2 DEF Follows

(* Changes of tasks only: what the graph has to say of them. *)
LEMMA NodesChanged ==
    ASSUME NEW t \in Teams, NEW r, Sound(t, r), NEW s, s \in Records(t),
           s.handoffs = r.handoffs, s.used = r.used, s.reserved = r.reserved,
           s.state = r.state, r.state \notin Finished,
           GraphOK(t, s),
           \A n \in Plan(t) : s.node[n] = "completed" <=> r.node[n] = "completed",
           \A n \in Plan(t) : s.node[n] = "pending" => r.node[n] = "pending"
    PROVE  Sound(t, s) /\ Follows(t, r, s)
<1>1. Committed(s) = Committed(r)
  BY DEF Committed, Outstanding
<1>2. Sound(t, s)
  BY <1>1 DEF Sound
<1> QED
  BY <1>2, SameFollows

(* startTeamNode, of a task that is ready. *)
LEMMA StartNodeSound ==
    ASSUME NEW t \in Teams, NEW r, Sound(t, r), r.state = "running", NEW n \in Ready(r)
    PROVE  /\ n \in Plan(t) /\ r.node[n] = "pending"
           /\ Sound(t, StartNode(r, n)) /\ Follows(t, r, StartNode(r, n))
           /\ StartNode(r, n).state = "running" /\ StartNode(r, n).node[n] = "running"
<1> DEFINE s == StartNode(r, n)
<1>1. /\ n \in Plan(t) /\ r.node[n] = "pending"
      /\ \A d \in DependsOn[n] : r.node[d] = "completed"
  BY RecordShape DEF Ready, Sound
<1>2. /\ s \in Records(t) /\ s.handoffs = r.handoffs /\ s.used = r.used
      /\ s.reserved = r.reserved /\ s.state = "running"
      /\ s.node = [r.node EXCEPT ![n] = "running"]
  BY <1>1 DEF StartNode, Sound, Records, NodeStates
<1> HIDE DEF s
<1>3. \A m \in Plan(t) : s.node[m] = IF m = n THEN "running" ELSE r.node[m]
  BY <1>2, RecordShape DEF Sound
<1>4. \A m \in Plan(t) : DependsOn[m] \subseteq Plan(t)
  BY RecordShape DEF Sound
<1>5. GraphOK(t, s)
  BY <1>1, <1>3, <1>4 DEF GraphOK, Sound
<1>6. Sound(t, s) /\ Follows(t, r, s)
  BY <1>1, <1>2, <1>3, <1>5, NodesChanged DEF Finished
<1> QED
  BY <1>1, <1>2, <1>3, <1>6 DEF s

(* completeTeamNode, of a task that runs. *)
LEMMA CompleteNodeSound ==
    ASSUME NEW t \in Teams, NEW r, Sound(t, r), r.state = "running",
           NEW n \in Plan(t), r.node[n] = "running"
    PROVE  /\ Sound(t, CompleteNode(r, n)) /\ Follows(t, r, CompleteNode(r, n))
           /\ CompleteNode(r, n).state = "running"
           /\ \A m \in Plan(t) : CompleteNode(r, n).node[m] = "running" => r.node[m] = "running"
<1> DEFINE s == CompleteNode(r, n)
<1>1. /\ s \in Records(t) /\ s.handoffs = r.handoffs \cup {n} /\ s.used = r.used
      /\ s.reserved = r.reserved /\ s.state = "running"
      /\ s.node = [r.node EXCEPT ![n] = "completed"]
  BY DEF CompleteNode, Sound, Records, NodeStates
<1> HIDE DEF s
<1>2. \A m \in Plan(t) : s.node[m] = IF m = n THEN "completed" ELSE r.node[m]
  BY <1>1, RecordShape DEF Sound
<1>3. \A m \in Plan(t) : DependsOn[m] \subseteq Plan(t)
  BY RecordShape DEF Sound
<1>4. GraphOK(t, s)
  BY <1>2, <1>3 DEF GraphOK, Sound
<1>5. Committed(s) = Committed(r)
  BY <1>1 DEF Committed, Outstanding
<1>6. Sound(t, s)
  BY <1>1, <1>2, <1>4, <1>5 DEF Sound, Finished
<1>7. r.used \in Nat
  BY RecordShape DEF Sound
<1>8. Follows(t, r, s)
  BY <1>1, <1>2, <1>5, <1>7 DEF Follows
<1> QED
  BY <1>1, <1>2, <1>6, <1>8 DEF s

(* pauseRunningTeamNodes. *)
LEMMA PauseRunningSound ==
    ASSUME NEW t \in Teams, NEW r, Sound(t, r), r.state \notin Finished
    PROVE  /\ Sound(t, PauseRunning(r)) /\ Follows(t, r, PauseRunning(r))
           /\ PauseRunning(r).state = r.state
           /\ \A m \in Plan(t) : PauseRunning(r).node[m] # "running"
<1> DEFINE s == PauseRunning(r)
<1>1. /\ s.handoffs = r.handoffs /\ s.used = r.used
      /\ s.reserved = r.reserved /\ s.state = r.state
      /\ s.node = [n \in DOMAIN r.node |->
            IF r.node[n] = "running" THEN "paused" ELSE r.node[n]]
  BY DEF PauseRunning, Sound, Records
<1>2. \A m \in Plan(t) : s.node[m] = IF r.node[m] = "running" THEN "paused" ELSE r.node[m]
  BY <1>1, RecordShape DEF Sound
<1>3. s \in Records(t)
  <2>1. s.node \in [Plan(t) -> NodeStates]
    BY <1>1, <1>2, RecordShape DEF Sound, NodeStates
  <2> QED
    BY <2>1 DEF PauseRunning, Sound, Records
<1> HIDE DEF s
<1>4. \A m \in Plan(t) : DependsOn[m] \subseteq Plan(t)
  BY RecordShape DEF Sound
<1>5. GraphOK(t, s)
  BY <1>2, <1>4 DEF GraphOK, Sound
<1>6. Sound(t, s) /\ Follows(t, r, s)
  BY <1>1, <1>2, <1>3, <1>5, NodesChanged
<1> QED
  BY <1>1, <1>2, <1>6 DEF s

(* aiTeamService.pause. *)
LEMMA PausingSound ==
    ASSUME NEW t \in Teams, NEW r, Sound(t, r)
    PROVE  /\ Sound(t, Pausing(r)) /\ Follows(t, r, Pausing(r))
           /\ Pausing(r).state = "paused" /\ Pausing(r).reserved = r.reserved
           /\ \A m \in Plan(t) : Pausing(r).node[m] # "running"
<1>1. "paused" \in TeamStates /\ "paused" \notin Finished
  BY DEF TeamStates, Finished
<1> DEFINE s == To(r, "paused")
<1>2. /\ Sound(t, s) /\ s.state = "paused" /\ s.node = r.node
      /\ s.handoffs = r.handoffs /\ s.used = r.used /\ s.reserved = r.reserved
      /\ Committed(s) = Committed(r)
  BY <1>1, ToSound
<1> HIDE DEF s
<1>3. /\ Sound(t, PauseRunning(s)) /\ Follows(t, s, PauseRunning(s))
      /\ PauseRunning(s).state = "paused"
      /\ \A m \in Plan(t) : PauseRunning(s).node[m] # "running"
  BY <1>1, <1>2, PauseRunningSound
<1>4. PauseRunning(s).reserved = r.reserved
  BY <1>2 DEF PauseRunning, Sound, Records
<1> QED
  BY <1>2, <1>3, <1>4 DEF Pausing, Follows, s

(* resume: paused tasks are to be done again. *)
LEMMA ResumedSound ==
    ASSUME NEW t \in Teams, NEW r, Sound(t, r)
    PROVE  /\ Sound(t, Resumed(r))
           /\ Resumed(r).state = "running" /\ Resumed(r).reserved = r.reserved
           /\ Resumed(r).handoffs = r.handoffs /\ Resumed(r).used = r.used
           /\ Committed(Resumed(r)) = Committed(r)
           /\ \A m \in Plan(t) : ResumePaused(r).node[m] =
                 IF r.node[m] = "paused" THEN "pending" ELSE r.node[m]
<1> DEFINE s == Resumed(r)
<1>1. /\ s.handoffs = r.handoffs /\ s.used = r.used
      /\ s.reserved = r.reserved /\ s.state = "running"
      /\ s.node = [n \in DOMAIN r.node |->
            IF r.node[n] = "paused" THEN "pending" ELSE r.node[n]]
      /\ ResumePaused(r).node = s.node
  BY DEF Resumed, ResumePaused, To, Sound, Records
<1>2. \A m \in Plan(t) : s.node[m] = IF r.node[m] = "paused" THEN "pending" ELSE r.node[m]
  BY <1>1, RecordShape DEF Sound
<1>3. s \in Records(t)
  <2>1. s.node \in [Plan(t) -> NodeStates]
    BY <1>1, <1>2, RecordShape DEF Sound, NodeStates
  <2> QED
    BY <2>1 DEF Resumed, ResumePaused, To, Sound, Records, TeamStates
<1> HIDE DEF s
<1>4. \A m \in Plan(t) : DependsOn[m] \subseteq Plan(t)
  BY RecordShape DEF Sound
<1>5. GraphOK(t, s)
  BY <1>2, <1>4 DEF GraphOK, Sound
<1>6. Committed(s) = Committed(r)
  BY <1>1 DEF Committed, Outstanding
<1>7. Sound(t, s)
  BY <1>1, <1>2, <1>3, <1>5, <1>6 DEF Sound, Finished
<1> QED
  BY <1>1, <1>2, <1>6, <1>7 DEF s

-----------------------------------------------------------------------------
(* failTeamNode, which blocks what waits for the failed task: the recursion *)
(* of BlockedBy, round by round.                                            *)

Dead(f) == {n \in DOMAIN f : f[n] \in {"failed", "blocked"}}

BlockOnce(f) == [n \in DOMAIN f |->
                    IF f[n] = "pending" /\ DependsOn[n] \cap Dead(f) # {}
                    THEN "blocked" ELSE f[n]]

Rounds(f, n, g) == g = [i \in 0..n |-> IF i = 0 THEN f ELSE BlockOnce(g[i - 1])]

(* Any number of rounds can be made.                                        *)
LEMMA RoundsExist ==
    ASSUME NEW f, NEW N \in Nat
    PROVE  \E g : Rounds(f, N, g)
<1> DEFINE T == {n \in Nat : ~ \E g : Rounds(f, n, g)}
<1>1. SUFFICES ASSUME T # {} PROVE FALSE
  OBVIOUS
<1>2. PICK n \in T : \A m \in T : n <= m
  <2>1. T \subseteq Nat
    OBVIOUS
  <2> HIDE DEF T
  <2> QED
    BY <1>1, <2>1, SmallestNumber
<1>3. n # 0
  <2> DEFINE g == [i \in 0..0 |-> f]
  <2>1. Rounds(f, 0, g)
    BY DEF Rounds
  <2> HIDE DEF g
  <2> QED
    BY <2>1
<1>4. PICK g : Rounds(f, n - 1, g)
  <2>1. n - 1 \in Nat /\ ~(n <= n - 1)
    BY <1>3
  <2> QED
    BY <1>2, <2>1
<1> DEFINE last == BlockOnce(g[n - 1])
           h == [i \in 0..n |-> IF i = n THEN last ELSE g[i]]
<1>5. Rounds(f, n, h)
  <2>1. \A i \in 0..n : h[i] = IF i = n THEN last ELSE g[i]
    OBVIOUS
  <2>2. \A i \in 0..n - 1 : g[i] = IF i = 0 THEN f ELSE BlockOnce(g[i - 1])
    BY <1>4 DEF Rounds
  <2>3. \A i \in 0..n : h[i] = IF i = 0 THEN f ELSE BlockOnce(h[i - 1])
    <3> TAKE i \in 0..n
    <3>1. CASE i = n
      <4>1. h[n - 1] = g[n - 1] /\ h[n] = last
        BY <1>3, <2>1
      <4> HIDE DEF h
      <4> QED
        BY <1>3, <3>1, <4>1
    <3>2. CASE i # n
      <4>1. h[i] = g[i] /\ (i # 0 => h[i - 1] = g[i - 1])
        BY <2>1, <3>2
      <4> HIDE DEF h, last
      <4> QED
        BY <2>2, <3>2, <4>1
    <3> QED
      BY <3>1, <3>2
  <2>4. h = [i \in 0..n |-> h[i]]
    OBVIOUS
  <2> HIDE DEF h
  <2> QED
    BY <2>3, <2>4 DEF Rounds
<1> HIDE DEF h
<1> QED
  BY <1>5

(* There are enough rounds: as long as one of them blocks a task, fewer are *)
(* left, and a round that blocks none is the last that matters.             *)
LEMMA BlockedByBlocks ==
    ASSUME NEW P, IsFiniteSet(P), NEW f \in [P -> NodeStates]
    PROVE  LET b == BlockedBy(f) IN
           /\ b \in [P -> NodeStates]
           /\ \A n \in P : f[n] # "pending" => b[n] = f[n]
           /\ \A n \in P : f[n] = "pending" => b[n] \in {"pending", "blocked"}
           /\ \A n \in P : f[n] = "pending" /\ b[n] = "blocked"
                              => DependsOn[n] \cap Dead(b) # {}
           /\ \A n \in P : b[n] = "pending" => DependsOn[n] \cap Dead(b) = {}
<1> DEFINE N == Cardinality(P)
           g == CHOOSE g : Rounds(f, N, g)
           Left(b) == {n \in P : b[n] = "pending"}
           Closed(b) == \A n \in P : b[n] = "pending" => DependsOn[n] \cap Dead(b) = {}
           Kept(b) == /\ b \in [P -> NodeStates]
                      /\ \A n \in P : f[n] # "pending" => b[n] = f[n]
                      /\ \A n \in P : f[n] = "pending" => b[n] \in {"pending", "blocked"}
                      /\ \A n \in P : f[n] = "pending" /\ b[n] = "blocked"
                                         => DependsOn[n] \cap Dead(b) # {}
           Right(i) == /\ Kept(g[i])
                       /\ Closed(g[i]) \/ Cardinality(Left(g[i])) <= N - i
           T == {i \in 0..N : ~Right(i)}
<1>1. N \in Nat
  BY FS_CardinalityType
<1>2. Rounds(f, N, g)
  BY <1>1, RoundsExist
<1>3. BlockedBy(f) = g[N]
  BY DEF BlockedBy, Rounds, BlockOnce, Dead
<1> HIDE DEF g, N
<1>4. ASSUME NEW i \in 0..N
      PROVE  g[i] = IF i = 0 THEN f ELSE BlockOnce(g[i - 1])
  BY <1>2 DEF Rounds
<1>5. ASSUME NEW b, Kept(b)
      PROVE  /\ Kept(BlockOnce(b))
             /\ Closed(b) => BlockOnce(b) = b
             /\ ~Closed(b) => Cardinality(Left(BlockOnce(b))) < Cardinality(Left(b))
  <2> DEFINE c == BlockOnce(b)
  <2>1. /\ b \in [P -> NodeStates] /\ DOMAIN b = P
        /\ \A n \in P : b[n] \in NodeStates
    BY <1>5
  <2>2. /\ DOMAIN c = P /\ c = [n \in P |-> c[n]]
        /\ \A n \in P : c[n] = IF b[n] = "pending" /\ DependsOn[n] \cap Dead(b) # {}
                               THEN "blocked" ELSE b[n]
    BY <2>1 DEF BlockOnce
  <2>3. b = [n \in P |-> b[n]]
    BY <2>1
  <2> HIDE DEF c
  <2>4. Dead(b) \subseteq Dead(c)
    BY <2>1, <2>2 DEF Dead
  <2>5. c \in [P -> NodeStates]
    BY <2>1, <2>2 DEF NodeStates
  <2>6. \A n \in P : f[n] # "pending" => c[n] = f[n]
    BY <1>5, <2>2
  <2>7. \A n \in P : f[n] = "pending" => c[n] \in {"pending", "blocked"}
    BY <1>5, <2>2
  <2>8. \A n \in P : f[n] = "pending" /\ c[n] = "blocked" => DependsOn[n] \cap Dead(c) # {}
    BY <1>5, <2>2, <2>4
  <2>9. Kept(c)
    BY <2>5, <2>6, <2>7, <2>8
  <2>10. Closed(b) => c = b
    BY <2>2, <2>3
  <2>11. ASSUME ~Closed(b)
         PROVE  Cardinality(Left(c)) < Cardinality(Left(b))
    <3>1. PICK n \in P : b[n] = "pending" /\ DependsOn[n] \cap Dead(b) # {}
      BY <2>11
    <3>2. n \in Left(b) /\ n \notin Left(c) /\ Left(c) \subseteq Left(b)
      BY <2>2, <3>1
    <3>3. IsFiniteSet(Left(b))
      BY FS_Subset
    <3> HIDE DEF Left
    <3>4. /\ Left(c) # Left(b)
          /\ Cardinality(Left(c)) <= Cardinality(Left(b))
          /\ Cardinality(Left(c)) = Cardinality(Left(b)) => Left(c) = Left(b)
      BY <3>2, <3>3, FS_Subset
    <3>5. Cardinality(Left(c)) \in Nat /\ Cardinality(Left(b)) \in Nat
      BY <3>2, <3>3, FS_Subset, FS_CardinalityType
    <3> QED
      BY <3>4, <3>5
  <2> QED
    BY <2>9, <2>10, <2>11 DEF c
<1>6. \A i \in 0..N : Right(i)
  <2>1. SUFFICES ASSUME T # {} PROVE FALSE
    OBVIOUS
  <2>2. PICK n \in T : \A m \in T : n <= m
    <3>1. T \subseteq Nat
      BY <1>1
    <3> HIDE DEF T
    <3> QED
      BY <2>1, <3>1, SmallestNumber
  <2>3. n \in 0..N /\ ~Right(n)
    OBVIOUS
  <2>4. n # 0
    <3>1. g[0] = f
      BY <1>1, <1>4
    <3>2. Left(f) \subseteq P
      OBVIOUS
    <3>3. Cardinality(Left(f)) <= N
      <4> HIDE DEF Left
      <4> QED
        BY <3>2, FS_Subset DEF N
    <3>4. Kept(f)
      OBVIOUS
    <3> HIDE DEF Left, Kept, Closed
    <3>5. N - 0 = N
      BY <1>1
    <3>6. Right(0)
      BY <3>1, <3>3, <3>4, <3>5
    <3> QED
      BY <2>3, <3>6
  <2>5. Right(n - 1)
    <3>1. n - 1 \in 0..N /\ ~(n <= n - 1)
      BY <1>1, <2>3, <2>4
    <3> QED
      BY <2>2, <3>1
  <2> DEFINE b == g[n - 1]
  <2>6. g[n] = BlockOnce(b)
    BY <1>4, <2>3, <2>4
  <2>7. Kept(b) /\ (Closed(b) \/ Cardinality(Left(b)) <= N - (n - 1))
    BY <2>5
  <2> HIDE DEF b
  <2>8. /\ Kept(BlockOnce(b))
        /\ Closed(b) => BlockOnce(b) = b
        /\ ~Closed(b) => Cardinality(Left(BlockOnce(b))) < Cardinality(Left(b))
    BY <1>5, <2>7
  <2>9. Cardinality(Left(b)) \in Nat /\ Cardinality(Left(BlockOnce(b))) \in Nat
    <3>1. Left(b) \subseteq P /\ Left(BlockOnce(b)) \subseteq P
      OBVIOUS
    <3> HIDE DEF Left
    <3> QED
      BY <3>1, FS_Subset, FS_CardinalityType
  <2>10. n \in Nat
    BY <1>1, <2>3
  <2> HIDE DEF Kept, Closed, Left, T
  <2>11. CASE Closed(b)
    BY <2>3, <2>6, <2>8, <2>11
  <2>12. CASE ~Closed(b)
    <3>1. Cardinality(Left(BlockOnce(b))) <= N - n
      BY <1>1, <2>7, <2>8, <2>9, <2>10, <2>12
    <3> QED
      BY <2>3, <2>6, <2>8, <3>1
  <2> QED
    BY <2>11, <2>12
<1>7. Kept(g[N]) /\ Closed(g[N])
  <2>1. Right(N)
    <3>1. N \in 0..N
      BY <1>1
    <3> HIDE DEF Right
    <3> QED
      BY <1>6, <3>1
  <2> DEFINE b == g[N]
  <2>2. Kept(b) /\ (Closed(b) \/ Cardinality(Left(b)) <= N - N)
    BY <2>1
  <2> HIDE DEF b
  <2>3. Left(b) \subseteq P
    OBVIOUS
  <2>4. CASE ~Closed(b)
    <3> HIDE DEF Left
    <3>1. Cardinality(Left(b)) \in Nat /\ IsFiniteSet(Left(b))
      BY <2>3, FS_Subset, FS_CardinalityType
    <3>2. Cardinality(Left(b)) = 0
      BY <1>1, <2>2, <2>4, <3>1
    <3>3. Left(b) = {}
      BY <3>1, <3>2, FS_EmptySet
    <3> QED
      BY <2>4, <3>3 DEF Left
  <2> QED
    BY <2>2, <2>4 DEF b
<1> QED
  BY <1>3, <1>7

(* A failed task blocks exactly what waits for it, and fails the team only at its end. *)
LEMMA FailNodeSound ==
    ASSUME NEW t \in Teams, NEW r, Sound(t, r), r.state = "running",
           NEW n \in Plan(t), r.node[n] = "running"
    PROVE  /\ Sound(t, FailNode(r, n)) /\ Follows(t, r, FailNode(r, n))
           /\ FailNode(r, n).state = "running"
           /\ \A m \in Plan(t) : FailNode(r, n).node[m] = "running" => r.node[m] = "running"
<1> DEFINE P == Plan(t)
           f == [r.node EXCEPT ![n] = "failed"]
           b == BlockedBy(f)
           s == FailNode(r, n)
<1>1. IsFiniteSet(P)
  BY FiniteAssumption, FS_Subset DEF Plan
<1>2. f \in [P -> NodeStates]
  BY RecordShape DEF Sound, NodeStates
<1>3. \A m \in P : f[m] = IF m = n THEN "failed" ELSE r.node[m]
  BY RecordShape DEF Sound
<1>4. \A m \in P : r.node[m] \in NodeStates /\ DependsOn[m] \subseteq P
  BY RecordShape DEF Sound
<1>5. s = [r EXCEPT !.node = b]
  BY DEF FailNode
<1> HIDE DEF f
<1>6. /\ b \in [P -> NodeStates]
      /\ \A m \in P : f[m] # "pending" => b[m] = f[m]
      /\ \A m \in P : f[m] = "pending" => b[m] \in {"pending", "blocked"}
      /\ \A m \in P : f[m] = "pending" /\ b[m] = "blocked" => DependsOn[m] \cap Dead(b) # {}
      /\ \A m \in P : b[m] = "pending" => DependsOn[m] \cap Dead(b) = {}
  BY <1>1, <1>2, BlockedByBlocks
<1> HIDE DEF b
<1>7. Dead(b) = {m \in P : b[m] \in {"failed", "blocked"}}
  BY <1>6 DEF Dead
<1>8. /\ s \in Records(t) /\ s.handoffs = r.handoffs /\ s.used = r.used
      /\ s.reserved = r.reserved /\ s.state = "running" /\ s.node = b
  BY <1>5, <1>6 DEF Sound, Records
<1> HIDE DEF s
<1>9. ASSUME NEW m \in P
      PROVE  b[m] \in {"running", "paused", "completed", "failed"} =>
                \A d \in DependsOn[m] : b[d] = "completed"
  <2>1. SUFFICES ASSUME b[m] \in {"running", "paused", "completed", "failed"},
                        NEW d \in DependsOn[m]
                 PROVE  b[d] = "completed"
    OBVIOUS
  <2>2. b[m] = f[m] /\ d \in P
    BY <1>4, <1>6, <2>1
  <2>3. r.node[m] \in {"running", "paused", "completed", "failed"}
    BY <1>3, <2>1, <2>2
  <2>4. r.node[d] = "completed"
    BY <2>3 DEF Sound, GraphOK
  <2> QED
    BY <1>3, <1>6, <2>2, <2>4
<1>10. ASSUME NEW m \in P, b[m] = "blocked"
       PROVE  \E d \in DependsOn[m] : b[d] \in {"failed", "blocked"}
  <2>1. CASE f[m] = "pending"
    BY <1>6, <1>7, <1>10, <2>1
  <2>2. CASE f[m] # "pending"
    <3>1. r.node[m] = "blocked"
      BY <1>3, <1>6, <1>10, <2>2
    <3>2. PICK d \in DependsOn[m] : r.node[d] \in {"failed", "blocked"}
      BY <3>1 DEF Sound, GraphOK
    <3>3. d \in P /\ d # n
      BY <1>4, <3>2
    <3> QED
      BY <1>3, <1>6, <3>2, <3>3
  <2> QED
    BY <2>1, <2>2
<1>11. ASSUME NEW m \in P, NEW d \in DependsOn[m], b[d] \in {"failed", "blocked"}
       PROVE  b[m] = "blocked"
  <2>1. b[m] # "pending"
    BY <1>4, <1>6, <1>7, <1>11
  <2>2. b[m] \in NodeStates
    BY <1>6
  <2> QED
    BY <1>9, <1>11, <2>1, <2>2 DEF NodeStates
<1>12. GraphOK(t, s)
  BY <1>8, <1>9, <1>10, <1>11 DEF GraphOK
<1>13. \A m \in P : s.node[m] = "completed" <=> r.node[m] = "completed"
  BY <1>3, <1>6, <1>8
<1>14. \A m \in P : s.node[m] = "pending" => r.node[m] = "pending"
  BY <1>3, <1>6, <1>8
<1>15. \A m \in P : s.node[m] = "running" => r.node[m] = "running"
  BY <1>3, <1>6, <1>8
<1> HIDE DEF P
<1>16. Sound(t, s) /\ Follows(t, r, s)
  BY <1>8, <1>12, <1>13, <1>14, NodesChanged DEF P, Finished
<1> QED
  BY <1>8, <1>15, <1>16 DEF P, s

-----------------------------------------------------------------------------
(* The ledger. *)

(* A reservation with a new id is set aside, if there is budget for it.     *)
LEMMA ReserveSound ==
    ASSUME NEW t \in Teams, NEW r, Sound(t, r), NEW q \in Reservations(t),
           \A p \in r.reserved : p.id # q.id,
           HasBudget(r, q.tokens)
    PROVE  LET s == Reserve(r, q) IN
           /\ Sound(t, s)
           /\ s.state = r.state /\ s.node = r.node /\ s.handoffs = r.handoffs
           /\ s.reserved = r.reserved \cup {q} /\ s.used = r.used
           /\ Committed(s) = Committed(r) + q.tokens
<1> DEFINE s == Reserve(r, q)
<1>1. /\ s \in Records(t) /\ s.state = r.state /\ s.node = r.node
      /\ s.handoffs = r.handoffs /\ s.reserved = r.reserved \cup {q} /\ s.used = r.used
  BY DEF Reserve, Sound, Records
<1> HIDE DEF s
<1>2. r.reserved \subseteq Reservations(t) /\ IsFiniteSet(r.reserved)
  BY RecordShape DEF Sound
<1>3. IsFiniteSet(s.reserved) /\ Tokens(s.reserved) = Tokens(r.reserved) + q.tokens
  BY <1>1, <1>2, TokensAdd
<1>4. /\ r.used \in Nat /\ Tokens(r.reserved) \in Nat
      /\ Committed(r) = r.used + Tokens(r.reserved)
  BY <1>2, TokensType, RecordShape DEF Sound, Committed, Outstanding
<1>5. q.tokens \in Nat
  BY ReservationShape
<1>6. Committed(s) = Committed(r) + q.tokens
  BY <1>1, <1>3, <1>4, <1>5 DEF Committed, Outstanding
<1>7. Committed(s) <= TokenLimit
  BY <1>6 DEF HasBudget
<1>8. Sound(t, s)
  BY <1>1, <1>3, <1>7, SameGraph DEF Sound
<1> QED
  BY <1>1, <1>6, <1>8 DEF s

(* What is settled is used instead of set aside. *)
LEMMA SettleSound ==
    ASSUME NEW t \in Teams, NEW r, Sound(t, r), NEW S, S \subseteq r.reserved
    PROVE  LET s == Settle(r, S) IN
           /\ Sound(t, s) /\ Follows(t, r, s)
           /\ s.state = r.state /\ s.node = r.node
<1> DEFINE s == Settle(r, S)
<1>1. r.reserved \subseteq Reservations(t) /\ IsFiniteSet(r.reserved) /\ r.used \in Nat
  BY RecordShape DEF Sound
<1>2. /\ IsFiniteSet(S) /\ IsFiniteSet(r.reserved \ S)
      /\ Tokens(r.reserved) = Tokens(S) + Tokens(r.reserved \ S)
  BY <1>1, TokensSplit
<1>3. Tokens(S) \in Nat /\ Tokens(r.reserved \ S) \in Nat
  BY <1>1, <1>2, TokensType
<1>4. /\ s \in Records(t) /\ s.state = r.state /\ s.node = r.node
      /\ s.handoffs = r.handoffs /\ s.reserved = r.reserved \ S
      /\ s.used = r.used + Tokens(S)
  <2> DEFINE rest == r.reserved \ S
             used == r.used + Tokens(S)
  <2>1. s = [r EXCEPT !.reserved = rest, !.used = used]
    BY DEF Settle
  <2>2. rest \in SUBSET Reservations(t) /\ used \in Nat
    BY <1>1, <1>3
  <2> HIDE DEF rest, used, s
  <2>3. /\ s \in Records(t) /\ s.state = r.state /\ s.node = r.node
        /\ s.handoffs = r.handoffs /\ s.reserved = rest /\ s.used = used
    BY <2>1, <2>2 DEF Sound, Records
  <2> QED
    BY <2>3 DEF rest, used
<1> HIDE DEF s
<1>5. Committed(s) = Committed(r)
  BY <1>1, <1>2, <1>3, <1>4 DEF Committed, Outstanding
<1>6. Sound(t, s)
  BY <1>2, <1>4, <1>5, SameGraph DEF Sound
<1>7. Follows(t, r, s)
  BY <1>1, <1>3, <1>4, <1>5 DEF Follows
<1> QED
  BY <1>4, <1>6, <1>7 DEF s

(* recoverActive. *)
LEMMA RecoveredSound ==
    ASSUME NEW t \in Teams, NEW r, Sound(t, r)
    PROVE  /\ Sound(t, Recovered(r)) /\ Follows(t, r, Recovered(r))
           /\ Recovered(r).state \in {r.state, "paused"}
           /\ Recovered(r).state \notin {"preparing", "running", "merging"}
           /\ Recovered(r).state # r.state => r.state \in {"preparing", "running", "merging"}
<1>1. CASE r.state \in {"preparing", "running", "merging"}
  <2> DEFINE s == Pausing(r)
  <2>1. Sound(t, s) /\ Follows(t, r, s) /\ s.state = "paused" /\ s.reserved = r.reserved
    BY PausingSound
  <2>2. Recovered(r) = Settle(s, r.reserved)
    BY <1>1 DEF Recovered
  <2> HIDE DEF s
  <2>3. /\ Sound(t, Recovered(r)) /\ Follows(t, s, Recovered(r))
        /\ Recovered(r).state = "paused"
    BY <2>1, <2>2, SettleSound
  <2>4. r.used \in Nat /\ s.used \in Nat /\ Recovered(r).used \in Nat
    BY <2>1, <2>3, RecordShape DEF Sound
  <2>5. Follows(t, r, Recovered(r))
    BY <2>1, <2>3, <2>4 DEF Follows
  <2> QED
    BY <1>1, <2>3, <2>5
<1>2. CASE r.state \notin {"preparing", "running", "merging"}
  <2>1. Recovered(r) = r
    BY <1>2 DEF Recovered
  <2>2. Follows(t, r, r)
    BY SameFollows
  <2> QED
    BY <1>2, <2>1, <2>2
<1> QED
  BY <1>1, <1>2

-----------------------------------------------------------------------------
(* The shapes of the variables.  A lock is held by the operation its name   *)
(* says, a role's operation by a role in the phase it belongs to; a queued  *)
(* run knows the task it wants the slot for; no run is queued twice.        *)

WithLock == {"capture", "allocate", "cancel", "start"}
RoleOps  == {"reserve", "settle", "close", "report"}

PhaseOf == [reserve |-> "working", settle |-> "streaming",
            close |-> "closing", report |-> "reporting"]

Holders(t) == [op : {"none"} \cup WithLock, agent : {<<>>}]
              \cup [op : RoleOps, agent : AgentsOf(t)]

Phases == {"off", "working", "streaming", "closing", "reporting"}
Ends   == {"none", "handoff", "error", "abort", "refused"}

AgentStates == [phase : Phases, end : Ends, request : Nat]

Loops(t) == run[t].pc \notin {"none", "done"}

RunsOf(t) == [pc : RunStates, todo : SUBSET Plan(t), busy : SUBSET Plan(t),
              idle : BOOLEAN, node : Plan(t) \cup {NoNode}]

Control(t) ==
    /\ run[t] \in RunsOf(t)
    /\ runs[t] \in 0..MaxRuns
    /\ stop[t] \in {"no", "asked", "saving", "cleaning", "waiting"}
    /\ spent[t] \in Nat
    /\ holder[t] \in Holders(t)
    /\ holder[t].op \in {"capture", "allocate"} => run[t].pc = "none" /\ runs[t] < MaxRuns
    /\ holder[t].op = "start" => run[t].pc = "starting"
    /\ run[t].pc \in {"queued", "starting"} => run[t].node \in Plan(t)
    /\ holder[t].op \in RoleOps => agent[holder[t].agent].phase = PhaseOf[holder[t].op]
    /\ stop[t] \in {"saving", "cleaning"} => holder[t].op = "cancel"
    /\ Loops(t) => runs[t] >= 1
    /\ \A a \in AgentsOf(t) : a \in Alive => a[2] <= runs[t]

Domains == /\ DOMAIN team = Teams /\ DOMAIN copy = Teams /\ DOMAIN seen = Teams
           /\ DOMAIN applying = Teams /\ DOMAIN run = Teams /\ DOMAIN runs = Teams
           /\ DOMAIN stop = Teams /\ DOMAIN holder = Teams /\ DOMAIN spent = Teams

Globals == /\ agent \in [Agents -> AgentStates]
           /\ applied \subseteq Teams /\ ctl \subseteq Agents /\ aborted \subseteq Agents
           /\ failures \in Nat /\ crashes \in Nat /\ slots \in Int

Waiting(r, q) == /\ q \in Seq(Teams)
                 /\ \A i \in 1..Len(q) : r[q[i]].pc = "queued"
                 /\ \A i, j \in 1..Len(q) : q[i] = q[j] => i = j

Shape == /\ Domains
         /\ Globals
         /\ Waiting(run, queue)
         /\ \A t \in Teams : Control(t)

(* A step of one team. *)
Acts(t) == User(t) \/ Loop(t) \/ \E a \in AgentsOf(t) : Role(t, a)

(* A run that leaves the queue leaves the others in it. *)
LEMMA OthersWait ==
    ASSUME NEW t \in Teams, NEW r, NEW q, Waiting(r, q)
    PROVE  /\ Waiting(r, Others(t, q))
           /\ \A i \in 1..Len(Others(t, q)) : Others(t, q)[i] # t
<1>1. /\ q \in Seq(Teams) /\ Len(q) \in Nat
      /\ \A i \in 1..Len(q) : r[q[i]].pc = "queued"
      /\ \A i, j \in 1..Len(q) : q[i] = q[j] => i = j
  BY DEF Waiting
<1>2. CASE \E i \in 1..Len(q) : q[i] = t
  <2> DEFINE k == CHOOSE i \in 1..Len(q) : q[i] = t
             p == SubSeq(q, 1, k - 1)
             s == SubSeq(q, k + 1, Len(q))
             o == Others(t, q)
  <2>1. k \in 1..Len(q) /\ q[k] = t
    BY <1>2
  <2>2. o = p \o s
    BY <1>2 DEF Others
  <2> HIDE DEF k, o
  <2>3. p \in Seq(Teams) /\ Len(p) = k - 1 /\ \A i \in 1..k - 1 : p[i] = q[i]
    BY <1>1, <2>1
  <2>4. /\ s \in Seq(Teams) /\ Len(s) = Len(q) - k
        /\ \A i \in 1..Len(q) - k : s[i] = q[k + i]
    BY <1>1, <2>1
  <2> HIDE DEF p, s
  <2>5. /\ o \in Seq(Teams) /\ Len(o) = Len(q) - 1
        /\ \A i \in 1..Len(q) - 1 : o[i] = IF i < k THEN q[i] ELSE q[i + 1]
    <3>1. /\ o \in Seq(Teams) /\ Len(o) = Len(p) + Len(s)
          /\ \A i \in 1..Len(p) + Len(s) :
                o[i] = IF i <= Len(p) THEN p[i] ELSE s[i - Len(p)]
      BY <2>2, <2>3, <2>4
    <3>2. Len(p) + Len(s) = Len(q) - 1
      BY <1>1, <2>1, <2>3, <2>4
    <3>3. ASSUME NEW i \in 1..Len(q) - 1, i < k
          PROVE  o[i] = q[i]
      BY <1>1, <2>1, <2>3, <3>1, <3>2, <3>3
    <3>4. ASSUME NEW i \in 1..Len(q) - 1, ~(i < k)
          PROVE  o[i] = q[i + 1]
      <4>1. i - (k - 1) \in 1..Len(q) - k /\ k + (i - (k - 1)) = i + 1 /\ ~(i <= k - 1)
        BY <1>1, <2>1, <3>4
      <4> QED
        BY <2>3, <2>4, <3>1, <3>2, <4>1
    <3> QED
      BY <3>1, <3>2, <3>3, <3>4
  <2>6. \A i \in 1..Len(o) : r[o[i]].pc = "queued" /\ o[i] # t
    BY <1>1, <2>1, <2>5
  <2>7. \A i, j \in 1..Len(o) : o[i] = o[j] => i = j
    BY <1>1, <2>1, <2>5
  <2> QED
    BY <2>5, <2>6, <2>7 DEF Waiting, o
<1>3. CASE ~ \E i \in 1..Len(q) : q[i] = t
  BY <1>3 DEF Others
<1> QED
  BY <1>2, <1>3

(* release: nobody waits, or the first who does is handed the slot.         *)
LEMMA Released ==
    ASSUME NEW r, DOMAIN r = Teams, NEW q, Waiting(r, q), Release(r, q)
    PROVE  /\ DOMAIN run' = Teams
           /\ Waiting(run', queue')
           /\ \/ q = <<>> /\ slots' = slots - 1 /\ run' = r
              \/ /\ slots' = slots
                 /\ \E u \in Teams : /\ r[u].pc = "queued"
                                     /\ \E i \in 1..Len(q) : q[i] = u
                                     /\ run' = [r EXCEPT ![u].pc = "starting"]
<1>1. /\ q \in Seq(Teams) /\ Len(q) \in Nat
      /\ \A i \in 1..Len(q) : r[q[i]].pc = "queued"
      /\ \A i, j \in 1..Len(q) : q[i] = q[j] => i = j
  BY DEF Waiting
<1>2. CASE q = <<>>
  BY <1>2 DEF Release
<1>3. CASE q # <<>>
  <2> DEFINE u == Head(q)
  <2>1. /\ run' = [r EXCEPT ![u].pc = "starting"] /\ queue' = Tail(q) /\ slots' = slots
    BY <1>3 DEF Release
  <2>2. u \in Teams /\ 1 \in 1..Len(q) /\ q[1] = u /\ r[u].pc = "queued"
    BY <1>1, <1>3
  <2>3. /\ queue' \in Seq(Teams) /\ Len(queue') = Len(q) - 1
        /\ \A i \in 1..Len(queue') : queue'[i] = q[i + 1]
    BY <1>1, <1>3, <2>1
  <2> HIDE DEF u
  <2>4. \A i, j \in 1..Len(queue') : queue'[i] = queue'[j] => i = j
    BY <1>1, <2>3
  <2>5. \A i \in 1..Len(queue') : queue'[i] # u /\ queue'[i] \in Teams
    BY <1>1, <2>2, <2>3
  <2>6. \A v \in Teams \ {u} : run'[v] = r[v]
    BY <2>1
  <2>7. \A i \in 1..Len(queue') : run'[queue'[i]].pc = "queued"
    BY <1>1, <2>3, <2>5, <2>6
  <2>8. DOMAIN run' = Teams
    BY <2>1
  <2> QED
    BY <2>1, <2>2, <2>3, <2>4, <2>7, <2>8 DEF Waiting
<1> QED
  BY <1>2, <1>3

(* The entries of the other teams stay, but for the runs: one of those may  *)
(* be handed a slot.                                                        *)
Apart(t) ==
    /\ \A u \in Teams \ {t} :
          /\ team'[u] = team[u] /\ copy'[u] = copy[u] /\ seen'[u] = seen[u]
          /\ applying'[u] = applying[u] /\ runs'[u] = runs[u] /\ stop'[u] = stop[u]
          /\ holder'[u] = holder[u] /\ spent'[u] = spent[u]
    /\ \A a \in Agents \ AgentsOf(t) : agent'[a] = agent[a]
    /\ DOMAIN team' = Teams /\ DOMAIN copy' = Teams /\ DOMAIN seen' = Teams
    /\ DOMAIN applying' = Teams /\ DOMAIN runs' = Teams
    /\ DOMAIN stop' = Teams /\ DOMAIN holder' = Teams /\ DOMAIN spent' = Teams
    /\ Globals'

Handed(t) ==
    /\ DOMAIN run' = Teams
    /\ Waiting(run', queue')
    /\ \A u \in Teams \ {t} :
          \/ run'[u] = run[u]
          \/ run[u].pc = "queued" /\ run'[u] = [run[u] EXCEPT !.pc = "starting"]

(* The team of a role. *)
LEMMA AgentShape ==
    ASSUME NEW t \in Teams, NEW a \in AgentsOf(t)
    PROVE  a \in Agents /\ a = <<a[1], a[2]>> /\ a[1] \in Plan(t) /\ a[2] \in 1..MaxRuns
  BY DEF AgentsOf, Agents, Plan

(* A task of the team, in its current run, is a role of the team.           *)
LEMMA AgentOfRun ==
    ASSUME NEW t \in Teams, Shape, NEW n \in Plan(t), runs[t] >= 1
    PROVE  <<n, runs[t]>> \in AgentsOf(t)
<1>1. runs[t] \in 1..MaxRuns
  BY LimitAssumption DEF Shape, Control
<1>2. n \in Nodes /\ TeamOf[n] = t
  BY DEF Plan
<1> QED
  BY <1>1, <1>2 DEF AgentsOf, Agents

(* A role that goes on. *)
LEMMA GoesOn ==
    ASSUME agent \in [Agents -> AgentStates], NEW a \in Agents,
           NEW phase \in Phases, NEW end \in Ends, Goes(a, phase, end)
    PROVE  /\ agent' \in [Agents -> AgentStates]
           /\ agent'[a].phase = phase /\ agent'[a].end = end /\ agent'[a].request = 0
           /\ \A b \in Agents : b # a => agent'[b] = agent[b]
<1> DEFINE s == [Off EXCEPT !.phase = phase, !.end = end]
<1>1. s \in AgentStates /\ s.phase = phase /\ s.end = end /\ s.request = 0
  BY DEF Off, AgentStates
<1>2. agent' = [agent EXCEPT ![a] = s]
  BY DEF Goes
<1> HIDE DEF s
<1> QED
  BY <1>1, <1>2

(* A role that has left. *)
LEMMA GoneFor ==
    ASSUME agent \in [Agents -> AgentStates], NEW a \in Agents,
           agent' = [agent EXCEPT ![a] = Off]
    PROVE  /\ agent' \in [Agents -> AgentStates]
           /\ agent'[a] = Off
           /\ \A b \in Agents : b # a => agent'[b] = agent[b]
  BY DEF Off, AgentStates, Phases, Ends

(* A role saves once at most. *)
LEMMA RoleSaves ==
    ASSUME NEW t, NEW a,
           \/ ReserveSave(t, a) \/ SettleSave(t, a)
           \/ CloseSave(t, a) \/ ReportSave(t, a)
    PROVE  NoSave \/ SaveFails \/ \E r : Save(t, r)
<1>1. CASE ReserveSave(t, a)
  BY <1>1 DEF ReserveSave
<1>2. CASE SettleSave(t, a)
  BY <1>2 DEF SettleSave
<1>3. CASE CloseSave(t, a)
  BY <1>3 DEF CloseSave
<1>4. CASE ReportSave(t, a)
  BY <1>4 DEF ReportSave
<1> QED
  BY <1>1, <1>2, <1>3, <1>4

(* Every step of a team keeps the shapes, and the others' entries.          *)
LEMMA ActsApart ==
    ASSUME Shape, NEW t \in Teams, Acts(t)
    PROVE  Apart(t)
<1> USE DEF Apart, Domains, Globals, Save, SaveFails, NoSave, Lock, Unlock, Throw,
            Return, Step, userVars, lockVars, slotVars, agentVars
<1>1. Domains /\ Globals /\ Control(t) /\ AgentsOf(t) \subseteq Agents
  BY DEF Shape, AgentsOf
<1>2. CASE User(t)
  <2>1. CASE Confirm(t)
    BY <1>1, <2>1 DEF Confirm
  <2>2. CASE CaptureBase(t)
    BY <1>1, <2>2 DEF CaptureBase
  <2>3. CASE Allocate(t)
    BY <1>1, <2>3 DEF Allocate
  <2>4. CASE Resume(t)
    BY <1>1, <2>4 DEF Resume
  <2>5. CASE Cancel(t)
    BY <1>1, <2>5 DEF Cancel
  <2>6. CASE CancelRead(t)
    BY <1>1, <2>6 DEF CancelRead
  <2>7. CASE CancelSave(t)
    BY <1>1, <2>7 DEF CancelSave
  <2>8. CASE CancelClean(t)
    BY <1>1, <2>8 DEF CancelClean
  <2>9. CASE CancelReturn(t)
    BY <1>1, <2>9 DEF CancelReturn
  <2>10. CASE Apply(t)
    BY <1>1, <2>10 DEF Apply
  <2>11. CASE CompleteReview(t)
    BY <1>1, <2>11 DEF CompleteReview
  <2>12. CASE RemoveRun(t)
    BY <1>1, <2>12 DEF RemoveRun
  <2> QED
    BY <1>2, <2>1, <2>2, <2>3, <2>4, <2>5, <2>6, <2>7, <2>8, <2>9, <2>10, <2>11, <2>12 DEF User
<1>3. CASE Loop(t)
  <2>1. CASE Turn(t)
    BY <1>1, <2>1 DEF Turn
  <2>2. CASE Scanned(t)
    BY <1>1, <2>2 DEF Scanned
  <2>3. CASE StartCheck(t)
    BY <1>1, <2>3 DEF StartCheck, Release
  <2>4. CASE StartSave(t)
    <3> DEFINE n == run[t].node
               a == <<n, runs[t]>>
               s == [Off EXCEPT !.phase = "working"]
    <3>1. holder[t].op = "start"
      BY <2>4 DEF StartSave, Holds
    <3>2. n \in Plan(t) /\ runs[t] >= 1
      BY <1>1, <3>1 DEF Control, Loops
    <3>3. a \in AgentsOf(t) /\ a \in Agents
      BY <1>1, <3>2, AgentOfRun
    <3>4. s \in AgentStates
      BY DEF Off, AgentStates, Phases, Ends
    <3>5. \/ /\ agent' = [agent EXCEPT ![a] = s]
             /\ ctl' = {b \in ctl : b[1] # n} \cup {a}
             /\ aborted' = aborted
          \/ agent' = agent /\ ctl' = ctl /\ aborted' \subseteq aborted \cup ctl
      BY <2>4 DEF StartSave
    <3> HIDE DEF a, n, s
    <3>6. agent' \in [Agents -> AgentStates] /\ ctl' \subseteq Agents /\ aborted' \subseteq Agents
      BY <1>1, <3>3, <3>4, <3>5
    <3>7. \A b \in Agents \ AgentsOf(t) : agent'[b] = agent[b]
      BY <1>1, <3>3, <3>5
    <3> QED
      BY <1>1, <2>4, <3>6, <3>7 DEF StartSave
  <2>5. CASE EndRead(t)
    BY <1>1, <2>5 DEF EndRead
  <2>6. CASE EndSave(t)
    BY <1>1, <2>6 DEF EndSave
  <2>7. CASE Caught(t)
    BY <1>1, <2>7 DEF Caught
  <2>8. CASE MergeRead(t)
    BY <1>1, <2>8 DEF MergeRead
  <2>9. CASE MergeSave(t)
    BY <1>1, <2>9 DEF MergeSave
  <2>10. CASE MergeDecided(t)
    BY <1>1, <2>10 DEF MergeDecided
  <2>11. CASE MergeImport(t)
    BY <1>1, <2>11 DEF MergeImport
  <2>12. CASE MergeEnd(t)
    BY <1>1, <2>12 DEF MergeEnd
  <2>13. CASE \E n \in Plan(t) : Consider(t, n)
    BY <1>1, <2>13 DEF Consider
  <2>14. CASE \E n \in Plan(t) : NoRoute(t, n)
    BY <1>1, <2>14 DEF NoRoute
  <2> QED
    BY <1>3, <2>1, <2>2, <2>3, <2>4, <2>5, <2>6, <2>7, <2>8, <2>9, <2>10, <2>11,
       <2>12, <2>13, <2>14 DEF Loop
<1>4. ASSUME NEW a \in AgentsOf(t), Role(t, a)
      PROVE  Apart(t)
  <2>1. a \in Agents
    BY AgentShape
  <2>2. CASE Take(t, a)
    BY <1>1, <2>2 DEF Take
  <2>3. ASSUME agent' \in [Agents -> AgentStates],
               \A b \in Agents : b # a => agent'[b] = agent[b],
               agentRest(t), UNCHANGED spent \/ \E k \in Nat : spent' = [spent EXCEPT ![t] = k],
               failures' \in Nat,
               UNCHANGED team \/ \E r : team' = [team EXCEPT ![t] = r]
        PROVE  Apart(t)
    BY <1>1, <2>1, <2>3 DEF agentRest
  <2>4. CASE ReserveSave(t, a)
    <3> DEFINE s == [Off EXCEPT !.phase = "streaming", !.request = spent[t]]
    <3>1. \/ \E end \in {"error", "refused"} : Goes(a, "closing", end)
          \/ agent' = [agent EXCEPT ![a] = s]
      BY <2>4, RefusalsAssumption DEF ReserveSave
    <3>2. s \in AgentStates
      BY <1>1 DEF Control, Off, AgentStates, Phases, Ends
    <3>3. ASSUME agent' = [agent EXCEPT ![a] = s]
          PROVE  /\ agent' \in [Agents -> AgentStates]
                 /\ \A b \in Agents : b # a => agent'[b] = agent[b]
      <4> HIDE DEF s
      <4> QED
        BY <1>1, <2>1, <3>2, <3>3
    <3>4. /\ agent' \in [Agents -> AgentStates]
          /\ \A b \in Agents : b # a => agent'[b] = agent[b]
      BY <1>1, <2>1, <3>1, <3>3, GoesOn DEF Phases, Ends
    <3>5. UNCHANGED spent \/ \E tokens \in Sizes : spent' = [spent EXCEPT ![t] = @ + tokens]
      BY <2>4 DEF ReserveSave
    <3>6. UNCHANGED spent \/ \E k \in Nat : spent' = [spent EXCEPT ![t] = k]
      BY <1>1, <3>5, LimitAssumption DEF Control
    <3>7. agentRest(t)
      BY <2>4 DEF ReserveSave
    <3>8. /\ failures' \in Nat
          /\ UNCHANGED team \/ \E r : team' = [team EXCEPT ![t] = r]
      BY <1>1, <2>4, RoleSaves
    <3> QED
      BY <2>3, <3>4, <3>6, <3>7, <3>8
  <2>5. CASE SettleSave(t, a)
    <3>1. Goes(a, "closing", "error") \/ Goes(a, "working", "none")
      BY <2>5 DEF SettleSave
    <3>2. /\ agent' \in [Agents -> AgentStates]
          /\ \A b \in Agents : b # a => agent'[b] = agent[b]
      BY <1>1, <2>1, <3>1, GoesOn DEF Phases, Ends
    <3>3. agentRest(t) /\ UNCHANGED spent
      BY <2>5 DEF SettleSave
    <3>4. /\ failures' \in Nat
          /\ UNCHANGED team \/ \E r : team' = [team EXCEPT ![t] = r]
      BY <1>1, <2>5, RoleSaves
    <3> QED
      BY <2>3, <3>2, <3>3, <3>4
  <2>6. CASE RunnerEnds(a)
    <3>1. PICK end \in {"abort", "handoff", "error"} : Goes(a, "closing", end)
      BY <2>6 DEF RunnerEnds
    <3>2. /\ agent' \in [Agents -> AgentStates]
          /\ \A b \in Agents : b # a => agent'[b] = agent[b]
      BY <1>1, <2>1, <3>1, GoesOn DEF Phases, Ends
    <3> QED
      BY <1>1, <2>1, <2>6, <3>2 DEF RunnerEnds
  <2>7. agent[a].end \in Ends
    BY <1>1, <2>1 DEF AgentStates
  <2>8. ASSUME NEW threw, Leaves(t, a, threw)
        PROVE  /\ agent' = [agent EXCEPT ![a] = Off]
               /\ ctl' \subseteq Agents /\ aborted' \subseteq Agents /\ slots' \in Int
    BY <1>1, <2>8 DEF Leaves, Release
  <2>9. CASE CloseSave(t, a)
    <3>1. \/ \E threw \in BOOLEAN : Leaves(t, a, threw)
          \/ /\ Goes(a, "reporting", agent[a].end) \/ Goes(a, "closing", "error")
             /\ UNCHANGED <<ctl, aborted, slots>>
      BY <2>9 DEF CloseSave
    <3>2. /\ agent' \in [Agents -> AgentStates]
          /\ \A b \in Agents : b # a => agent'[b] = agent[b]
      BY <1>1, <2>1, <2>7, <2>8, <3>1, GoesOn, GoneFor DEF Phases, Ends
    <3>3. ctl' \subseteq Agents /\ aborted' \subseteq Agents /\ slots' \in Int
      BY <1>1, <2>8, <3>1
    <3>4. Unlock(t) /\ UNCHANGED <<copy, runs, spent, crashes, userVars>>
      BY <2>9 DEF CloseSave
    <3>5. /\ failures' \in Nat
          /\ UNCHANGED team \/ \E r : team' = [team EXCEPT ![t] = r]
      BY <1>1, <2>9, RoleSaves
    <3> QED
      BY <1>1, <2>1, <3>2, <3>3, <3>4, <3>5
  <2>10. CASE ReportSave(t, a)
    <3>1. \/ \E threw \in BOOLEAN : Leaves(t, a, threw)
          \/ Goes(a, "closing", "error") /\ UNCHANGED <<ctl, aborted, slots>>
      BY <2>10 DEF ReportSave
    <3>2. /\ agent' \in [Agents -> AgentStates]
          /\ \A b \in Agents : b # a => agent'[b] = agent[b]
      BY <1>1, <2>1, <2>8, <3>1, GoesOn, GoneFor DEF Phases, Ends
    <3>3. ctl' \subseteq Agents /\ aborted' \subseteq Agents /\ slots' \in Int
      BY <1>1, <2>8, <3>1
    <3>4. Unlock(t) /\ UNCHANGED <<copy, runs, spent, crashes, userVars>>
      BY <2>10 DEF ReportSave
    <3>5. /\ failures' \in Nat
          /\ UNCHANGED team \/ \E r : team' = [team EXCEPT ![t] = r]
      BY <1>1, <2>10, RoleSaves
    <3> QED
      BY <1>1, <2>1, <3>2, <3>3, <3>4, <3>5
  <2> QED
    BY <1>4, <2>2, <2>4, <2>5, <2>6, <2>9, <2>10 DEF Role
<1> QED
  BY <1>2, <1>3, <1>4 DEF Acts

(* A step of a team that is not queued, and hands nobody a slot.            *)
LEMMA HandsNone ==
    ASSUME Shape, NEW t \in Teams, DOMAIN run' = Teams, queue' = queue,
           \A u \in Teams \ {t} : run'[u] = run[u],
           run'[t] = run[t] \/ run[t].pc # "queued"
    PROVE  Handed(t)
<1>1. Waiting(run, queue)
  BY DEF Shape
<1>2. \A i \in 1..Len(queue) : queue[i] \in Teams /\ run'[queue[i]] = run[queue[i]]
  BY <1>1 DEF Waiting
<1> QED
  BY <1>1, <1>2 DEF Handed, Waiting

(* A step that does.                                                        *)
LEMMA HandsOn ==
    ASSUME NEW t \in Teams, NEW r, DOMAIN r = Teams,
           \A u \in Teams \ {t} : r[u] = run[u],
           NEW q, Waiting(r, q), Release(r, q)
    PROVE  Handed(t)
<1>1. /\ DOMAIN run' = Teams /\ Waiting(run', queue')
      /\ \A u \in Teams \ {t} : \/ run'[u] = r[u]
                                \/ r[u].pc = "queued" /\ run'[u] = [r[u] EXCEPT !.pc = "starting"]
  <2>1. \/ run' = r
        \/ \E u \in Teams : r[u].pc = "queued" /\ run' = [r EXCEPT ![u].pc = "starting"]
    BY Released
  <2>2. \A u \in Teams \ {t} : \/ run'[u] = r[u]
                               \/ r[u].pc = "queued" /\ run'[u] = [r[u] EXCEPT !.pc = "starting"]
    BY <2>1
  <2> QED
    BY <2>2, Released
<1> QED
  BY <1>1 DEF Handed

(* A run that is not queued may change as it likes; one that leaves the     *)
(* queue is not in it.                                                      *)
LEMMA StillWaiting ==
    ASSUME Shape, NEW t \in Teams, run[t].pc # "queued", NEW r,
           \A u \in Teams \ {t} : r[u] = run[u]
    PROVE  Waiting(r, queue)
<1>1. Waiting(run, queue)
  BY DEF Shape
<1>2. \A i \in 1..Len(queue) : queue[i] \in Teams /\ r[queue[i]] = run[queue[i]]
  BY <1>1 DEF Waiting
<1> QED
  BY <1>1, <1>2 DEF Waiting

(* A run that leaves the queue is in it no more; the others wait as before. *)
LEMMA UnqueuedWait ==
    ASSUME Shape, NEW t \in Teams
    PROVE  /\ DOMAIN Unqueued(t) = Teams
           /\ \A u \in Teams \ {t} : Unqueued(t)[u] = run[u]
           /\ Waiting(Unqueued(t), Others(t, queue))
<1>1. DOMAIN run = Teams /\ Waiting(run, queue)
  BY DEF Shape, Domains
<1>2. /\ DOMAIN Unqueued(t) = Teams
      /\ \A u \in Teams \ {t} : Unqueued(t)[u] = run[u]
  BY <1>1 DEF Unqueued
<1> DEFINE r == Unqueued(t)
           o == Others(t, queue)
<1>3. Waiting(run, o) /\ \A i \in 1..Len(o) : o[i] # t
  BY <1>1, OthersWait
<1> HIDE DEF o, r
<1>4. \A i \in 1..Len(o) : o[i] \in Teams /\ r[o[i]] = run[o[i]]
  BY <1>2, <1>3 DEF Waiting, r
<1>5. Waiting(r, o)
  BY <1>3, <1>4 DEF Waiting
<1> QED
  BY <1>2, <1>5 DEF r, o

(* No step of a team changes another run, except by handing it a slot. *)
LEMMA ActsHanded ==
    ASSUME Shape, NEW t \in Teams, Acts(t)
    PROVE  Handed(t)
<1> USE DEF Throw, Return, Step, userVars, lockVars, slotVars, agentVars
<1>1. DOMAIN run = Teams /\ Control(t)
  BY DEF Shape, Domains
<1>2. ASSUME run' = run, queue' = queue PROVE Handed(t)
  BY <1>1, <1>2, HandsNone
<1>3. ASSUME run[t].pc # "queued", queue' = queue, NEW r, run' = [run EXCEPT ![t] = r]
      PROVE  Handed(t)
  BY <1>1, <1>3, HandsNone
<1>4. CASE User(t)
  <2>1. CASE Confirm(t)
    BY <1>2, <2>1 DEF Confirm
  <2>2. CASE CaptureBase(t)
    BY <1>2, <2>2 DEF CaptureBase
  <2>3. CASE Allocate(t)
    <3>1. run[t].pc # "queued" /\ queue' = queue
      BY <1>1, <2>3 DEF Allocate, Holds, Control
    <3>2. run' = run \/ \E r : run' = [run EXCEPT ![t] = r]
      BY <2>3 DEF Allocate
    <3> QED
      BY <1>2, <1>3, <3>1, <3>2
  <2>4. CASE Resume(t)
    <3>1. run[t].pc # "queued" /\ queue' = queue
      BY <1>1, <2>4 DEF Resume
    <3>2. run' = run \/ \E r : run' = [run EXCEPT ![t] = r]
      BY <2>4 DEF Resume
    <3> QED
      BY <1>2, <1>3, <3>1, <3>2
  <2>5. CASE CancelRead(t)
    BY <1>2, <2>5 DEF CancelRead
  <2>6. CASE CancelSave(t)
    BY <1>2, <2>6 DEF CancelSave
  <2>7. CASE CancelClean(t)
    BY <1>2, <2>7 DEF CancelClean
  <2>8. CASE CancelReturn(t)
    BY <1>2, <2>8 DEF CancelReturn
  <2>9. CASE Apply(t)
    BY <1>2, <2>9 DEF Apply
  <2>10. CASE CompleteReview(t)
    BY <1>2, <2>10 DEF CompleteReview
  <2>11. CASE RemoveRun(t)
    <3>1. run[t].pc # "queued" /\ queue' = queue
      BY <1>1, <2>11 DEF RemoveRun
    <3>2. run' = run \/ \E r : run' = [run EXCEPT ![t] = r]
      BY <2>11 DEF RemoveRun
    <3> QED
      BY <1>2, <1>3, <3>1, <3>2
  <2>12. CASE Cancel(t)
    <3> DEFINE r == Unqueued(t)
               q == Others(t, queue)
    <3>1. run' = r /\ queue' = q
      BY <2>12 DEF Cancel
    <3> HIDE DEF r, q
    <3> QED
      BY <3>1, UnqueuedWait DEF Handed, r, q
  <2> QED
    BY <1>4, <2>1, <2>2, <2>3, <2>4, <2>5, <2>6, <2>7, <2>8, <2>9, <2>10, <2>11, <2>12 DEF User
<1>5. CASE Loop(t)
  <2>1. CASE Turn(t)
    <3>1. run[t].pc # "queued" /\ queue' = queue
      BY <2>1 DEF Turn
    <3>2. \E r : run' = [run EXCEPT ![t] = r]
      BY <2>1 DEF Turn
    <3> QED
      BY <1>3, <3>1, <3>2
  <2>2. CASE Scanned(t)
    <3>1. run[t].pc # "queued" /\ queue' = queue
      BY <2>2 DEF Scanned
    <3>2. \E r : run' = [run EXCEPT ![t] = r]
      BY <2>2 DEF Scanned
    <3> QED
      BY <1>3, <3>1, <3>2
  <2>3. CASE StartSave(t)
    <3>1. run[t].pc # "queued" /\ queue' = queue
      BY <1>1, <2>3 DEF StartSave, Holds, Control
    <3>2. \E r : run' = [run EXCEPT ![t] = r]
      BY <2>3 DEF StartSave
    <3> QED
      BY <1>3, <3>1, <3>2
  <2>4. CASE EndRead(t)
    <3>1. run[t].pc # "queued" /\ queue' = queue
      BY <2>4 DEF EndRead
    <3>2. \E r : run' = [run EXCEPT ![t] = r]
      BY <2>4 DEF EndRead
    <3> QED
      BY <1>3, <3>1, <3>2
  <2>5. CASE EndSave(t)
    <3>1. run[t].pc # "queued" /\ queue' = queue
      BY <2>5 DEF EndSave
    <3>2. \E r : run' = [run EXCEPT ![t] = r]
      BY <2>5 DEF EndSave
    <3> QED
      BY <1>3, <3>1, <3>2
  <2>6. CASE Caught(t)
    <3>1. run[t].pc # "queued" /\ queue' = queue
      BY <2>6 DEF Caught
    <3>2. \E r : run' = [run EXCEPT ![t] = r]
      BY <2>6 DEF Caught
    <3> QED
      BY <1>3, <3>1, <3>2
  <2>7. CASE MergeRead(t)
    <3>1. run[t].pc # "queued" /\ queue' = queue
      BY <2>7 DEF MergeRead
    <3>2. \E r : run' = [run EXCEPT ![t] = r]
      BY <2>7 DEF MergeRead
    <3> QED
      BY <1>3, <3>1, <3>2
  <2>8. CASE MergeSave(t)
    <3>1. run[t].pc # "queued" /\ queue' = queue
      BY <2>8 DEF MergeSave
    <3>2. \E r : run' = [run EXCEPT ![t] = r]
      BY <2>8 DEF MergeSave
    <3> QED
      BY <1>3, <3>1, <3>2
  <2>9. CASE MergeDecided(t)
    <3>1. run[t].pc # "queued" /\ queue' = queue
      BY <2>9 DEF MergeDecided
    <3>2. \E r : run' = [run EXCEPT ![t] = r]
      BY <2>9 DEF MergeDecided
    <3> QED
      BY <1>3, <3>1, <3>2
  <2>10. CASE MergeImport(t)
    <3>1. run[t].pc # "queued" /\ queue' = queue
      BY <2>10 DEF MergeImport
    <3>2. \E r : run' = [run EXCEPT ![t] = r]
      BY <2>10 DEF MergeImport
    <3> QED
      BY <1>3, <3>1, <3>2
  <2>11. CASE MergeEnd(t)
    <3>1. run[t].pc # "queued" /\ queue' = queue
      BY <2>11 DEF MergeEnd
    <3>2. \E r : run' = [run EXCEPT ![t] = r]
      BY <2>11 DEF MergeEnd
    <3> QED
      BY <1>3, <3>1, <3>2
  <2>12. CASE StartCheck(t)
    <3> DEFINE r == [run EXCEPT ![t].pc = "scan", ![t].node = NoNode]
    <3>1. run[t].pc = "starting"
      BY <2>12 DEF StartCheck
    <3>2. DOMAIN r = Teams /\ \A u \in Teams \ {t} : r[u] = run[u]
      BY <1>1
    <3>3. Release(r, queue) \/ (run' = run /\ queue' = queue)
      BY <2>12 DEF StartCheck
    <3> HIDE DEF r
    <3>4. Waiting(r, queue)
      BY <3>1, <3>2, StillWaiting
    <3> QED
      BY <1>2, <3>2, <3>3, <3>4, HandsOn
  <2>13. CASE \E n \in Plan(t) : Consider(t, n)
    <3>1. PICK n \in Plan(t) : Consider(t, n)
      BY <2>13
    <3>2. run[t].pc = "scan"
      BY <3>1 DEF Consider
    <3>3. CASE queue' = queue
      <4>1. \E r : run' = [run EXCEPT ![t] = r]
        BY <3>1, <3>3 DEF Consider
      <4> QED
        BY <1>3, <3>2, <3>3, <4>1
    <3>4. CASE queue' # queue
      <4> DEFINE r == [run EXCEPT ![t].todo = @ \ {n}, ![t].pc = "queued", ![t].node = n]
      <4>1. run' = r /\ queue' = Append(queue, t)
        BY <3>1, <3>4 DEF Consider
      <4>2. DOMAIN r = Teams /\ r[t].pc = "queued" /\ \A u \in Teams \ {t} : r[u] = run[u]
        BY <1>1 DEF Control
      <4> HIDE DEF r
      <4>3. Waiting(run, queue) /\ Waiting(r, queue)
        BY <3>2, <4>2, StillWaiting DEF Shape
      <4> DEFINE q == Append(queue, t)
      <4>4. /\ queue \in Seq(Teams) /\ Len(queue) \in Nat
            /\ \A i \in 1..Len(queue) : run[queue[i]].pc = "queued" /\ r[queue[i]].pc = "queued"
            /\ \A i, j \in 1..Len(queue) : queue[i] = queue[j] => i = j
        BY <4>3 DEF Waiting
      <4>5. /\ q \in Seq(Teams) /\ Len(q) = Len(queue) + 1
            /\ \A i \in 1..Len(q) : q[i] = IF i = Len(queue) + 1 THEN t ELSE queue[i]
        BY <4>4
      <4> HIDE DEF q
      <4>6. \A i \in 1..Len(queue) : queue[i] # t
        BY <3>2, <4>4
      <4>7. Waiting(r, q)
        BY <4>2, <4>4, <4>5, <4>6 DEF Waiting
      <4> QED
        BY <4>1, <4>2, <4>7 DEF Handed, q
    <3> QED
      BY <3>3, <3>4
  <2>14. CASE \E n \in Plan(t) : NoRoute(t, n)
    <3>1. PICK n \in Plan(t) : NoRoute(t, n)
      BY <2>14
    <3>2. run[t].pc # "queued" /\ queue' = queue
      BY <3>1 DEF NoRoute
    <3>3. \E r : run' = [run EXCEPT ![t] = r]
      BY <3>1 DEF NoRoute
    <3> QED
      BY <1>3, <3>2, <3>3
  <2> QED
    BY <1>5, <2>1, <2>2, <2>3, <2>4, <2>5, <2>6, <2>7, <2>8, <2>9, <2>10, <2>11,
       <2>12, <2>13, <2>14 DEF Loop
<1>6. ASSUME NEW a \in AgentsOf(t), Role(t, a)
      PROVE  Handed(t)
  <2>1. CASE Take(t, a)
    BY <1>2, <2>1 DEF Take
  <2>2. CASE ReserveSave(t, a)
    BY <1>2, <2>2 DEF ReserveSave, agentRest
  <2>3. CASE SettleSave(t, a)
    BY <1>2, <2>3 DEF SettleSave, agentRest
  <2>4. CASE RunnerEnds(a)
    BY <1>2, <2>4 DEF RunnerEnds
  <2>5. ASSUME NEW threw \in BOOLEAN, Leaves(t, a, threw)
        PROVE  Handed(t)
    <3>1. CASE Release(run, queue)
      <4>1. Waiting(run, queue)
        BY DEF Shape
      <4> QED
        BY <1>1, <3>1, <4>1, HandsOn
    <3>2. CASE Release(Unqueued(t), Others(t, queue))
      <4> DEFINE r == Unqueued(t)
                 q == Others(t, queue)
      <4>1. /\ DOMAIN r = Teams /\ Waiting(r, q)
            /\ \A u \in Teams \ {t} : r[u] = run[u]
        BY UnqueuedWait
      <4> HIDE DEF r, q
      <4>2. Release(r, q)
        BY <3>2 DEF r, q
      <4> QED
        BY <4>1, <4>2, HandsOn
    <3>3. ASSUME run[t].pc = "waiting", NEW x, Release([run EXCEPT ![t] = x], queue)
          PROVE  Handed(t)
      <4> DEFINE r == [run EXCEPT ![t] = x]
      <4>1. DOMAIN r = Teams /\ \A u \in Teams \ {t} : r[u] = run[u]
        BY <1>1
      <4>2. Release(r, queue)
        BY <3>3
      <4> HIDE DEF r
      <4>3. Waiting(r, queue)
        BY <3>3, <4>1, StillWaiting
      <4> QED
        BY <4>1, <4>2, <4>3, HandsOn
    <3>4. \/ Release(run, queue)
          \/ Release(Unqueued(t), Others(t, queue))
          \/ /\ run[t].pc = "waiting"
             /\ \E x : Release([run EXCEPT ![t] = x], queue)
      BY <2>5, Zenon DEF Leaves
    <3> QED
      BY <3>1, <3>2, <3>3, <3>4
  <2>6. CASE CloseSave(t, a)
    <3>1. (run' = run /\ queue' = queue) \/ Leaves(t, a, TRUE)
      BY <2>6 DEF CloseSave
    <3> QED
      BY <1>2, <2>5, <3>1
  <2>7. CASE ReportSave(t, a)
    <3>1. (run' = run /\ queue' = queue) \/ \E threw \in BOOLEAN : Leaves(t, a, threw)
      BY <2>7 DEF ReportSave
    <3> QED
      BY <1>2, <2>5, <3>1
  <2> QED
    BY <1>6, <2>1, <2>2, <2>3, <2>4, <2>6, <2>7 DEF Role
<1> QED
  BY <1>4, <1>5, <1>6 DEF Acts

(* The loop moves on, leaves by an exception, or returns.                   *)
LEMMA StepRun ==
    ASSUME Shape, NEW t \in Teams, NEW pc \in RunStates, Step(t, pc)
    PROVE  /\ run'[t] \in RunsOf(t) /\ run'[t].pc = pc
           /\ run'[t].node = run[t].node /\ run'[t].todo = run[t].todo
  BY DEF Step, Shape, Domains, Control, RunsOf

(* An exception ends in the catch of runLoop. *)
LEMMA ThrowRun ==
    ASSUME Shape, NEW t \in Teams, Throw(t)
    PROVE  run'[t] \in RunsOf(t) /\ run'[t].pc = "caught"
  BY DEF Throw, Shape, Domains, RunsOf, RunStates, Idle, NoNode

(* A loop that returns is done. *)
LEMMA ReturnRun ==
    ASSUME Shape, NEW t \in Teams, Return(t)
    PROVE  run'[t] \in RunsOf(t) /\ run'[t].pc = "done"
  BY DEF Return, Shape, Domains, RunsOf, RunStates, Idle, NoNode

(* A step of a loop that is at work: nobody starts the team, ...            *)
LEMMA LoopControl ==
    ASSUME Shape, NEW t \in Teams, run[t].pc \notin {"none", "done", "starting"},
           runs'[t] = runs[t], stop'[t] = stop[t], spent'[t] = spent[t],
           holder'[t] = holder[t], agent' = agent,
           run'[t] \in RunsOf(t),
           run'[t].pc \in {"queued", "starting"} => run'[t].node \in Plan(t)
    PROVE  Control(t)'
<1>1. Control(t) /\ holder[t].op \notin {"capture", "allocate", "start"}
  BY DEF Shape, Control
<1> QED
  BY <1>1 DEF Control, Alive, Loops

(* ... and of a role: nothing but the lock and the role's phase changes.    *)
LEMMA RoleControl ==
    ASSUME Shape, NEW t \in Teams, NEW a \in AgentsOf(t), a \in Alive,
           agent' \in [Agents -> AgentStates],
           \A b \in Agents : b # a => agent'[b] = agent[b],
           runs'[t] = runs[t], stop'[t] = stop[t], spent'[t] \in Nat,
           \/ holder'[t] = Nobody /\ holder[t].op \in RoleOps
           \/ holder'[t] = holder[t] /\ holder[t].agent # a,
           \/ run'[t] = run[t]
           \/ /\ holder'[t] = Nobody
              /\ run'[t] \in RunsOf(t)
              /\ run'[t].pc \in {"queued", "starting"} => run'[t].node \in Plan(t)
              /\ Loops(t)' => Loops(t)
    PROVE  Control(t)'
<1>1. Control(t) /\ a \in Agents /\ AgentsOf(t) \subseteq Agents
  BY DEF Shape, AgentsOf
<1>2. holder'[t] \in Holders(t) /\ Nobody.op = "none"
  BY <1>1 DEF Control, Nobody, Holders
<1>3. holder'[t].op \in RoleOps => agent'[holder'[t].agent].phase = PhaseOf[holder'[t].op]
  <2>1. CASE holder'[t] = Nobody
    BY <1>2, <2>1 DEF RoleOps
  <2>2. CASE holder'[t] # Nobody /\ holder[t].op \in RoleOps
    <3>1. holder[t].agent \in AgentsOf(t) /\ holder[t].agent # a
      BY <1>1, <2>2 DEF Control, Holders, WithLock, RoleOps
    <3> QED
      BY <1>1, <2>2, <3>1 DEF Control
  <2>3. CASE holder'[t] # Nobody /\ holder[t].op \notin RoleOps
    BY <2>3
  <2> QED
    BY <2>1, <2>2, <2>3
<1>4. stop[t] \in {"saving", "cleaning"} => holder'[t].op = "cancel"
  BY <1>1 DEF Control, RoleOps
<1>5. \A b \in AgentsOf(t) : b \in Alive' => b[2] <= runs[t]
  BY <1>1 DEF Control, Alive
<1>6. CASE run'[t] = run[t]
  BY <1>1, <1>2, <1>3, <1>4, <1>5, <1>6 DEF Control, Loops, Nobody
<1>7. CASE run'[t] # run[t]
  BY <1>1, <1>2, <1>3, <1>4, <1>5, <1>7 DEF Control, Loops
<1> QED
  BY <1>6, <1>7

(* A run that leaves the queue, and the run that gets the slot.             *)
LEMMA UnqueuedRun ==
    ASSUME Shape, NEW t \in Teams
    PROVE  LET r == Unqueued(t)[t] IN
           /\ r \in RunsOf(t)
           /\ r.pc = IF run[t].pc = "queued" THEN "scan" ELSE run[t].pc
           /\ r.pc \in {"queued", "starting"} => r.node \in Plan(t)
           /\ r.pc = run[t].pc => r = run[t]
<1>1. Control(t) /\ DOMAIN run = Teams
  BY DEF Shape, Domains
<1>2. run[t] \in RunsOf(t)
  BY <1>1 DEF Control
<1> QED
  BY <1>1, <1>2 DEF Unqueued, Control, RunsOf, RunStates, NoNode

(* A run that has a slot keeps the task it wanted the slot for. *)
LEMMA StartingRun ==
    ASSUME NEW t \in Teams, NEW r \in RunsOf(t)
    PROVE  /\ [r EXCEPT !.pc = "starting"] \in RunsOf(t)
           /\ [r EXCEPT !.pc = "starting"].pc = "starting"
           /\ [r EXCEPT !.pc = "starting"].node = r.node
  BY DEF RunsOf, RunStates

(* What a release leaves of the team's own run.                             *)
LEMMA ReleasedRun ==
    ASSUME NEW t \in Teams, NEW r, DOMAIN r = Teams, NEW q, Waiting(r, q), Release(r, q),
           r[t] \in RunsOf(t), r[t].pc \in {"queued", "starting"} => r[t].node \in Plan(t)
    PROVE  /\ run'[t] \in RunsOf(t)
           /\ run'[t].pc \in {"queued", "starting"} => run'[t].node \in Plan(t)
           /\ run'[t] = r[t] \/ (r[t].pc = "queued" /\ run'[t] = [r[t] EXCEPT !.pc = "starting"])
<1>1. run'[t] = r[t] \/ (r[t].pc = "queued" /\ run'[t] = [r[t] EXCEPT !.pc = "starting"])
  <2>1. \/ run' = r
        \/ \E u \in Teams : r[u].pc = "queued" /\ run' = [r EXCEPT ![u].pc = "starting"]
    BY Released
  <2> QED
    BY <2>1
<1>2. CASE run'[t] = r[t]
  BY <1>2
<1>3. CASE r[t].pc = "queued" /\ run'[t] = [r[t] EXCEPT !.pc = "starting"]
  BY <1>3, StartingRun
<1> QED
  BY <1>1, <1>2, <1>3

(* The .finally of runOne. *)
LEMMA LeavesRun ==
    ASSUME Shape, NEW t \in Teams, NEW a \in AgentsOf(t), NEW threw \in BOOLEAN,
           Leaves(t, a, threw)
    PROVE  /\ run'[t] \in RunsOf(t)
           /\ run'[t].pc \in {"queued", "starting"} => run'[t].node \in Plan(t)
           /\ Loops(t)' => Loops(t)
           /\ \/ run'[t] = run[t]
              \/ run[t].pc = "queued" /\ run'[t].pc \in {"scan", "starting"}
              \/ /\ run[t].pc = "waiting" /\ a[2] = runs[t]
                 /\ run'[t].pc = IF threw THEN "caught" ELSE "loop"
<1>1. /\ DOMAIN run = Teams /\ Control(t) /\ run[t] \in RunsOf(t)
      /\ run[t].pc \in {"queued", "starting"} => run[t].node \in Plan(t)
  BY DEF Shape, Domains, Control
<1>2. CASE Release(run, queue)
  <2>1. Waiting(run, queue)
    BY DEF Shape
  <2>2. /\ run'[t] \in RunsOf(t)
        /\ run'[t].pc \in {"queued", "starting"} => run'[t].node \in Plan(t)
        /\ \/ run'[t] = run[t]
           \/ run[t].pc = "queued" /\ run'[t] = [run[t] EXCEPT !.pc = "starting"]
    BY <1>1, <1>2, <2>1, ReleasedRun
  <2>3. [run[t] EXCEPT !.pc = "starting"].pc = "starting"
    BY <1>1, StartingRun
  <2> QED
    BY <2>2, <2>3 DEF Loops
<1>3. CASE Release(Unqueued(t), Others(t, queue))
  <2> DEFINE r == Unqueued(t)
             q == Others(t, queue)
  <2>1. DOMAIN r = Teams /\ Waiting(r, q)
    BY UnqueuedWait
  <2>2. /\ r[t] \in RunsOf(t)
        /\ r[t].pc = IF run[t].pc = "queued" THEN "scan" ELSE run[t].pc
        /\ r[t].pc \in {"queued", "starting"} => r[t].node \in Plan(t)
        /\ r[t].pc = run[t].pc => r[t] = run[t]
    BY UnqueuedRun
  <2> HIDE DEF r, q
  <2>3. Release(r, q)
    BY <1>3 DEF r, q
  <2>4. /\ run'[t] \in RunsOf(t)
        /\ run'[t].pc \in {"queued", "starting"} => run'[t].node \in Plan(t)
        /\ run'[t] = r[t] \/ (r[t].pc = "queued" /\ run'[t] = [r[t] EXCEPT !.pc = "starting"])
    BY <2>1, <2>2, <2>3, ReleasedRun
  <2>5. r[t].pc # "queued"
    BY <2>2
  <2> QED
    BY <2>2, <2>4, <2>5 DEF Loops
<1>4. ASSUME run[t].pc = "waiting", a[2] = runs[t],
             NEW x \in RunsOf(t), x.pc = IF threw THEN "caught" ELSE "loop",
             Release([run EXCEPT ![t] = x], queue)
      PROVE  /\ run'[t] = x
             /\ Loops(t)
  <2> DEFINE r == [run EXCEPT ![t] = x]
  <2>1. DOMAIN r = Teams /\ r[t] = x /\ \A u \in Teams \ {t} : r[u] = run[u]
    BY <1>1
  <2>2. Release(r, queue)
    BY <1>4
  <2> HIDE DEF r
  <2>3. Waiting(r, queue)
    BY <1>4, <2>1, StillWaiting
  <2>4. x.pc \notin {"queued", "starting"}
    BY <1>4
  <2>5. run'[t] = r[t] \/ r[t].pc = "queued"
    BY <1>4, <2>1, <2>2, <2>3, <2>4, ReleasedRun
  <2> QED
    BY <1>4, <2>1, <2>4, <2>5 DEF Loops
<1>5. ASSUME run[t].pc = "waiting"
      PROVE  /\ [Idle EXCEPT !.pc = "caught"] \in RunsOf(t)
             /\ [Idle EXCEPT !.pc = "caught"].pc = "caught"
             /\ [run[t] EXCEPT !.pc = "loop"] \in RunsOf(t)
             /\ [run[t] EXCEPT !.pc = "loop"].pc = "loop"
  BY <1>1 DEF RunsOf, RunStates, Idle, NoNode
<1>6. \/ Release(run, queue)
      \/ Release(Unqueued(t), Others(t, queue))
      \/ /\ run[t].pc = "waiting" /\ a[2] = runs[t]
         /\ \/ threw /\ Release([run EXCEPT ![t] = [Idle EXCEPT !.pc = "caught"]], queue)
            \/ ~threw /\ Release([run EXCEPT ![t] = [run[t] EXCEPT !.pc = "loop"]], queue)
  BY <1>1, Zenon DEF Leaves
<1>7. CASE /\ run[t].pc = "waiting" /\ a[2] = runs[t]
           /\ \/ threw /\ Release([run EXCEPT ![t] = [Idle EXCEPT !.pc = "caught"]], queue)
              \/ ~threw /\ Release([run EXCEPT ![t] = [run[t] EXCEPT !.pc = "loop"]], queue)
  <2>1. \E x \in RunsOf(t) : /\ x.pc = IF threw THEN "caught" ELSE "loop"
                             /\ Release([run EXCEPT ![t] = x], queue)
    BY <1>5, <1>7
  <2> QED
    BY <1>4, <1>7, <2>1
<1> QED
  BY <1>2, <1>3, <1>6, <1>7

(* What the user does keeps the shapes of the run, the lock and the roles. *)
LEMMA UserControl ==
    ASSUME Shape, NEW t \in Teams, User(t)
    PROVE  Control(t)'
<1> USE DEF Control, Domains, Globals, Alive, Loops, Lock, Holds, Unlock, Nobody, Holders,
            RoleOps, WithLock, userVars, lockVars, slotVars, agentVars
<1>1. Domains /\ Globals /\ Control(t)
  BY DEF Shape
<1>2. CASE Confirm(t)
  BY <1>1, <1>2 DEF Confirm
<1>3. CASE CaptureBase(t)
  BY <1>1, <1>3 DEF CaptureBase
<1>4. [Idle EXCEPT !.pc = "loop"] \in RunsOf(t) /\ [Idle EXCEPT !.pc = "loop"].pc = "loop"
  BY DEF RunsOf, RunStates, Idle, NoNode
<1>5. ASSUME run'[t] = [Idle EXCEPT !.pc = "loop"], runs'[t] = runs[t] + 1,
              runs[t] < MaxRuns, runs[t] \in Nat,
              stop'[t] = stop[t], spent'[t] = spent[t], agent' = agent,
              holder'[t] = Nobody, stop[t] \notin {"saving", "cleaning"}
       PROVE  Control(t)'
  <2>1. runs'[t] \in 0..MaxRuns /\ runs'[t] >= 1
    BY <1>5, LimitAssumption
  <2>2. \A a \in AgentsOf(t) : a \in Alive' => a[2] <= runs'[t]
    <3> TAKE a \in AgentsOf(t)
    <3>1. a[2] \in 1..MaxRuns
      BY AgentShape
    <3>2. a \in Alive' => a[2] <= runs[t]
      BY <1>1, <1>5
    <3> QED
      BY <1>5, <3>1, <3>2, LimitAssumption
  <2> QED
    BY <1>1, <1>4, <1>5, <2>1, <2>2
<1>6. CASE Allocate(t)
  <2>1. CASE runs' = runs /\ run' = run
    BY <1>1, <1>6, <2>1 DEF Allocate
  <2>2. CASE ~(runs' = runs /\ run' = run)
    <3>1. /\ run'[t] = [Idle EXCEPT !.pc = "loop"] /\ runs'[t] = runs[t] + 1
          /\ runs[t] < MaxRuns /\ runs[t] \in Nat
      BY <1>1, <1>6, <2>2 DEF Allocate
    <3>2. /\ stop'[t] = stop[t] /\ spent'[t] = spent[t] /\ agent' = agent
          /\ holder'[t] = Nobody /\ stop[t] \notin {"saving", "cleaning"}
      BY <1>1, <1>6 DEF Allocate
    <3> QED
      BY <1>5, <3>1, <3>2
  <2> QED
    BY <2>1, <2>2
<1>7. CASE Resume(t)
  <2>1. /\ run'[t] = [Idle EXCEPT !.pc = "loop"] /\ runs'[t] = runs[t] + 1
        /\ runs[t] < MaxRuns /\ runs[t] \in Nat
    BY <1>1, <1>7 DEF Resume
  <2>2. /\ stop'[t] = stop[t] /\ spent'[t] = spent[t] /\ agent' = agent
        /\ holder'[t] = Nobody /\ stop[t] \notin {"saving", "cleaning"}
    BY <1>1, <1>7 DEF Resume
  <2> QED
    BY <1>5, <2>1, <2>2
<1>8. CASE Cancel(t)
  <2>1. run'[t] = Unqueued(t)[t]
    BY <1>8 DEF Cancel
  <2>2. /\ run'[t] \in RunsOf(t)
        /\ run'[t].pc = IF run[t].pc = "queued" THEN "scan" ELSE run[t].pc
        /\ run'[t].pc \in {"queued", "starting"} => run'[t].node \in Plan(t)
    BY <2>1, UnqueuedRun
  <2>3. /\ stop'[t] = "asked" /\ spent'[t] = spent[t] /\ holder'[t] = holder[t]
        /\ runs'[t] = runs[t] /\ agent' = agent
    BY <1>1, <1>8 DEF Cancel
  <2> QED
    BY <1>1, <2>2, <2>3
<1>9. CASE CancelRead(t)
  BY <1>1, <1>9 DEF CancelRead
<1>10. CASE CancelSave(t)
  BY <1>1, <1>10 DEF CancelSave
<1>11. CASE CancelClean(t)
  BY <1>1, <1>11 DEF CancelClean
<1>12. CASE CancelReturn(t)
  BY <1>1, <1>12 DEF CancelReturn
<1>13. CASE Apply(t)
  BY <1>1, <1>13 DEF Apply
<1>14. CASE CompleteReview(t)
  BY <1>1, <1>14 DEF CompleteReview
<1>15. CASE RemoveRun(t)
  <2>1. Idle \in RunsOf(t) /\ Idle.pc = "none"
    BY DEF RunsOf, RunStates, Idle, NoNode
  <2> QED
    BY <1>1, <1>15, <2>1 DEF RemoveRun
<1> QED
  BY <1>2, <1>3, <1>6, <1>7, <1>8, <1>9, <1>10, <1>11, <1>12, <1>13, <1>14, <1>15 DEF User

(* What the run loop does keeps them. *)
LEMMA LoopActsControl ==
    ASSUME Shape, NEW t \in Teams, Loop(t), Sound(t, team[t])
    PROVE  Control(t)'
<1> DEFINE Frame == /\ runs' = runs /\ stop' = stop /\ spent' = spent
                    /\ holder' = holder /\ agent' = agent
<1>1. Domains /\ Globals /\ Control(t)
  BY DEF Shape
<1>2. ASSUME run[t].pc \notin {"none", "done", "starting"}, Frame,
             run'[t] \in RunsOf(t),
             run'[t].pc \in {"queued", "starting"} => run'[t].node \in Plan(t)
      PROVE  Control(t)'
  BY <1>2, LoopControl
<1>3. ASSUME run[t].pc \notin {"none", "done", "starting"}, Frame,
             \/ Throw(t) \/ Return(t)
             \/ \E pc \in RunStates \ {"queued", "starting"} : Step(t, pc)
      PROVE  Control(t)'
  BY <1>2, <1>3, StepRun, ThrowRun, ReturnRun
<1> USE DEF userVars, lockVars, slotVars, agentVars
<1>4. CASE Turn(t)
  <2> DEFINE r == [pc |-> "scan", todo |-> Ready(team[t]), busy |-> Active(t),
                   idle |-> Ready(team[t]) = {}, node |-> NoNode]
  <2>1. Frame /\ run[t].pc = "loop"
    BY <1>4 DEF Turn, Return
  <2>2. \/ Return(t) \/ Step(t, "merge") \/ Step(t, "fail")
        \/ run' = [run EXCEPT ![t] = r]
    BY <1>4, Zenon DEF Turn
  <2>3. CASE run' = [run EXCEPT ![t] = r]
    <3>1. Ready(team[t]) \subseteq Plan(t) /\ Active(t) \subseteq Plan(t)
      BY RecordShape DEF Sound, Ready, Active
    <3>2. r \in RunsOf(t) /\ r.pc = "scan"
      BY <3>1 DEF RunsOf, RunStates, NoNode
    <3> HIDE DEF r
    <3>3. run'[t] = r
      BY <1>1, <2>3 DEF Domains
    <3> QED
      BY <1>2, <2>1, <3>2, <3>3
  <2> QED
    BY <1>3, <2>1, <2>2, <2>3 DEF RunStates
<1>5. CASE Scanned(t)
  <2>1. Frame /\ run[t].pc = "scan"
    BY <1>5 DEF Scanned
  <2>2. Step(t, "waiting") \/ Step(t, "pause") \/ Step(t, "loop")
    BY <1>5, Zenon DEF Scanned
  <2> QED
    BY <1>3, <2>1, <2>2 DEF RunStates
<1>6. CASE StartCheck(t)
  <2> DEFINE r == [run EXCEPT ![t].pc = "scan", ![t].node = NoNode]
  <2>1. /\ runs' = runs /\ stop' = stop /\ spent' = spent /\ agent' = agent
        /\ run[t].pc = "starting"
    BY <1>6 DEF StartCheck
  <2>2. CASE Lock(t, "start", <<>>) /\ run' = run
    <3>1. holder'[t] = [op |-> "start", agent |-> <<>>] /\ holder[t] = Nobody
      BY <1>1, <2>2 DEF Lock, Domains
    <3>2. holder'[t] \in Holders(t) /\ holder'[t].op = "start" /\ holder[t].op = "none"
      BY <3>1 DEF Holders, WithLock, Nobody
    <3> QED
      BY <1>1, <2>1, <2>2, <3>2 DEF Control, RoleOps, Alive, Loops
  <2>3. CASE holder[t] = Nobody /\ Release(r, queue) /\ holder' = holder
    <3>1. /\ DOMAIN r = Teams /\ r[t] \in RunsOf(t) /\ r[t].pc = "scan"
          /\ \A u \in Teams \ {t} : r[u] = run[u]
      BY <1>1 DEF Domains, Control, RunsOf, RunStates
    <3> HIDE DEF r
    <3>2. Waiting(r, queue)
      BY <2>1, <3>1, StillWaiting
    <3>3. run'[t] = r[t]
      BY <2>3, <3>1, <3>2, ReleasedRun
    <3> QED
      BY <1>1, <2>1, <2>3, <3>1, <3>3 DEF Control, Nobody, Alive, Loops, RoleOps
  <2> QED
    BY <1>6, <2>2, <2>3 DEF StartCheck
<1>7. CASE StartSave(t)
  <2> DEFINE n == run[t].node
             a == <<n, runs[t]>>
  <2>1. /\ runs' = runs /\ stop' = stop /\ spent' = spent
        /\ holder' = [holder EXCEPT ![t] = Nobody] /\ holder[t].op = "start"
    BY <1>7 DEF StartSave, Holds, Unlock
  <2>2. /\ run[t].pc = "starting" /\ n \in Plan(t) /\ runs[t] >= 1 /\ runs[t] \in Nat
        /\ holder'[t] = Nobody
    BY <1>1, <2>1, LimitAssumption DEF Control, Loops, Domains
  <2>3. a \in AgentsOf(t) /\ a \in Agents
    BY <2>2, AgentOfRun, AgentShape
  <2>4. run'[t] \in RunsOf(t) /\ run'[t].pc \in {"scan", "caught"}
    <3>1. CASE Throw(t)
      BY <3>1, ThrowRun
    <3>2. CASE run' = [run EXCEPT ![t].pc = "scan", ![t].node = NoNode,
                                  ![t].busy = @ \cup {n}]
      BY <1>1, <2>2, <3>2 DEF Domains, Control, RunsOf, RunStates
    <3> QED
      BY <1>7, <3>1, <3>2 DEF StartSave
  <2>5. agent' = agent \/ agent' = [agent EXCEPT ![a] = [Off EXCEPT !.phase = "working"]]
    BY <1>7 DEF StartSave
  <2>6. a[2] = runs[t]
    OBVIOUS
  <2> HIDE DEF a, n
  <2>7. \A b \in AgentsOf(t) : b \in Alive' => b[2] <= runs[t]
    BY <1>1, <2>2, <2>3, <2>5, <2>6 DEF Control, Alive, Globals
  <2> QED
    BY <1>1, <2>1, <2>2, <2>4, <2>7 DEF Control, Loops, Nobody, Holders, RoleOps
<1>8. CASE EndRead(t)
  <2>1. Frame /\ run[t].pc \in {"fail", "pause"}
    BY <1>8 DEF EndRead
  <2>2. Step(t, "failing") \/ Step(t, "pausing")
    BY <1>8, Zenon DEF EndRead
  <2> QED
    BY <1>3, <2>1, <2>2 DEF RunStates
<1>9. CASE EndSave(t)
  <2>1. Frame /\ run[t].pc \in {"failing", "pausing"}
    BY <1>9 DEF EndSave
  <2>2. Return(t) \/ Throw(t)
    BY <1>9, Zenon DEF EndSave
  <2> QED
    BY <1>3, <2>1, <2>2
<1>10. CASE Caught(t)
  <2>1. Frame /\ run[t].pc = "caught" /\ Return(t)
    BY <1>10 DEF Caught
  <2> QED
    BY <1>3, <2>1
<1>11. CASE MergeRead(t)
  <2>1. Frame /\ run[t].pc = "merge"
    BY <1>11 DEF MergeRead
  <2>2. Step(t, "save") \/ Throw(t)
    BY <1>11, Zenon DEF MergeRead
  <2> QED
    BY <1>3, <2>1, <2>2 DEF RunStates
<1>12. CASE MergeSave(t)
  <2>1. Frame /\ run[t].pc = "save"
    BY <1>12 DEF MergeSave
  <2>2. Step(t, "merging") \/ Throw(t)
    BY <1>12, Zenon DEF MergeSave
  <2> QED
    BY <1>3, <2>1, <2>2 DEF RunStates
<1>13. CASE MergeDecided(t)
  <2>1. Frame /\ run[t].pc = "merging"
    BY <1>13 DEF MergeDecided
  <2>2. Return(t) \/ Throw(t)
    BY <1>13, Zenon DEF MergeDecided
  <2> QED
    BY <1>3, <2>1, <2>2
<1>14. CASE MergeImport(t)
  <2>1. Frame /\ run[t].pc = "merging" /\ Step(t, "importing")
    BY <1>14 DEF MergeImport
  <2> QED
    BY <1>3, <2>1 DEF RunStates
<1>15. CASE MergeEnd(t)
  <2>1. Frame /\ run[t].pc \in {"merging", "importing"}
    BY <1>15 DEF MergeEnd
  <2>2. Return(t) \/ Throw(t)
    BY <1>15, Zenon DEF MergeEnd
  <2> QED
    BY <1>3, <2>1, <2>2
<1>16. ASSUME NEW n \in Plan(t), Consider(t, n)
       PROVE  Control(t)'
  <2>1. Frame /\ run[t].pc = "scan"
    BY <1>16 DEF Consider
  <2>2. /\ run'[t] \in RunsOf(t)
        /\ run'[t].pc \in {"queued", "starting"} => run'[t].node \in Plan(t)
    BY <1>1, <1>16, <2>1 DEF Consider, Domains, Control, RunsOf, RunStates
  <2> QED
    BY <1>2, <2>1, <2>2
<1>17. ASSUME NEW n \in Plan(t), NoRoute(t, n)
       PROVE  Control(t)'
  <2>1. Frame /\ run[t].pc = "scan"
    BY <1>17 DEF NoRoute
  <2>2. Throw(t) \/ run' = [run EXCEPT ![t].todo = @ \ {n}]
    BY <1>17, Zenon DEF NoRoute
  <2>3. CASE run' = [run EXCEPT ![t].todo = @ \ {n}]
    <3>1. run'[t] \in RunsOf(t) /\ run'[t].pc = "scan"
      BY <1>1, <2>1, <2>3 DEF Domains, Control, RunsOf
    <3> QED
      BY <1>2, <2>1, <3>1
  <2> QED
    BY <1>3, <2>1, <2>2, <2>3
<1> QED
  BY <1>4, <1>5, <1>6, <1>7, <1>8, <1>9, <1>10, <1>11, <1>12, <1>13, <1>14, <1>15,
     <1>16, <1>17 DEF Loop

(* What a role does keeps them. *)
LEMMA RoleActsControl ==
    ASSUME Shape, NEW t \in Teams, NEW a \in AgentsOf(t), Role(t, a)
    PROVE  Control(t)'
<1>1. Domains /\ Globals /\ Control(t) /\ a \in Agents
  BY AgentShape DEF Shape
<1> USE DEF userVars, lockVars, slotVars, agentVars
<1>2. CASE Take(t, a)
  <2>1. PICK op \in RoleOps : /\ agent[a].phase = PhaseOf[op]
                              /\ Lock(t, op, a)
    BY <1>2 DEF Take, RoleOps, PhaseOf
  <2>2. holder'[t] = [op |-> op, agent |-> a] /\ holder[t] = Nobody
    BY <1>1, <2>1 DEF Lock, Domains
  <2>3. /\ holder'[t] \in Holders(t) /\ holder'[t].op = op /\ holder'[t].agent = a
        /\ holder[t].op = "none" /\ op \notin {"none", "capture", "allocate", "start", "cancel"}
    BY <2>2 DEF Holders, Nobody, RoleOps
  <2>4. /\ run' = run /\ runs' = runs /\ stop' = stop /\ spent' = spent /\ agent' = agent
    BY <1>2 DEF Take
  <2> QED
    BY <1>1, <2>1, <2>3, <2>4 DEF Control, Alive, Loops
<1>3. ASSUME Holds(t, "reserve", a) \/ Holds(t, "settle", a)
             \/ Holds(t, "close", a) \/ Holds(t, "report", a)
      PROVE  /\ holder[t].op \in RoleOps /\ holder[t].agent = a
             /\ a \in Alive
             /\ Unlock(t) => holder'[t] = Nobody
  <2>1. holder[t].op \in RoleOps /\ holder[t].agent = a
    BY <1>3 DEF Holds, RoleOps
  <2>2. agent[a].phase # "off"
    BY <1>1, <2>1 DEF Control, RoleOps, PhaseOf
  <2> QED
    BY <1>1, <2>1, <2>2 DEF Alive, Unlock, Domains
<1>4. ASSUME NEW phase \in Phases, NEW end \in Ends, Goes(a, phase, end)
      PROVE  agent' \in [Agents -> AgentStates] /\ \A b \in Agents : b # a => agent'[b] = agent[b]
  BY <1>1, <1>4, GoesOn DEF Globals
<1>5. CASE ReserveSave(t, a)
  <2>1. holder[t].op \in RoleOps /\ a \in Alive /\ holder'[t] = Nobody
    BY <1>3, <1>5 DEF ReserveSave, agentRest
  <2>2. run'[t] = run[t] /\ runs'[t] = runs[t] /\ stop'[t] = stop[t]
    BY <1>5 DEF ReserveSave, agentRest
  <2>3. agent' \in [Agents -> AgentStates] /\ spent'[t] \in Nat
    <3>1. Acts(t)
      BY <1>5 DEF Acts, Role
    <3>2. Apart(t)
      BY <3>1, ActsApart
    <3>3. spent'[t] = spent[t] \/ \E tokens \in Sizes : spent'[t] = spent[t] + tokens
      BY <1>1, <1>5 DEF ReserveSave, Domains
    <3>4. spent[t] \in Nat /\ Sizes \subseteq Nat
      BY <1>1, LimitAssumption DEF Control
    <3>5. spent'[t] \in Nat
      BY <3>3, <3>4
    <3>6. agent' \in [Agents -> AgentStates]
      BY <3>2 DEF Apart, Globals
    <3> QED
      BY <3>5, <3>6
  <2>4. \A b \in Agents : b # a => agent'[b] = agent[b]
    <3>1. \/ \E end \in {"error", "refused"} : Goes(a, "closing", end)
          \/ agent' = [agent EXCEPT ![a] = [Off EXCEPT !.phase = "streaming",
                                                       !.request = spent[t]]]
      BY <1>5, RefusalsAssumption DEF ReserveSave
    <3> QED
      BY <1>1, <1>4, <3>1 DEF Phases, Ends, Globals
  <2> QED
    BY <2>1, <2>2, <2>3, <2>4, RoleControl
<1>6. CASE SettleSave(t, a)
  <2>1. holder[t].op \in RoleOps /\ a \in Alive /\ holder'[t] = Nobody
    BY <1>3, <1>6 DEF SettleSave, agentRest
  <2>2. run'[t] = run[t] /\ runs'[t] = runs[t] /\ stop'[t] = stop[t] /\ spent' = spent
    BY <1>6 DEF SettleSave, agentRest
  <2>3. Goes(a, "closing", "error") \/ Goes(a, "working", "none")
    BY <1>6 DEF SettleSave
  <2>4. agent' \in [Agents -> AgentStates] /\ \A b \in Agents : b # a => agent'[b] = agent[b]
    BY <1>4, <2>3 DEF Phases, Ends
  <2> QED
    BY <1>1, <2>1, <2>2, <2>4, RoleControl DEF Control
<1>7. CASE RunnerEnds(a)
  <2>1. PICK end \in Ends : Goes(a, "closing", end)
    BY <1>7 DEF RunnerEnds, Ends
  <2>2. /\ agent' \in [Agents -> AgentStates]
        /\ \A b \in Agents : b # a => agent'[b] = agent[b]
    BY <1>4, <2>1 DEF Phases
  <2>3. a \in Alive /\ holder[t].agent # a
    BY <1>1, <1>7 DEF RunnerEnds, Alive, AgentsOf
  <2>4. /\ run'[t] = run[t] /\ runs'[t] = runs[t] /\ stop'[t] = stop[t]
        /\ spent' = spent /\ holder'[t] = holder[t]
    BY <1>7 DEF RunnerEnds
  <2> QED
    BY <1>1, <2>2, <2>3, <2>4, RoleControl DEF Control
<1>8. ASSUME holder[t].op \in RoleOps, a \in Alive, holder'[t] = Nobody,
             runs'[t] = runs[t], stop'[t] = stop[t], spent' = spent,
             \/ \E threw \in BOOLEAN : Leaves(t, a, threw)
             \/ /\ \E phase \in Phases, end \in Ends : Goes(a, phase, end)
                /\ run' = run
      PROVE  Control(t)'
  <2>1. CASE \E threw \in BOOLEAN : Leaves(t, a, threw)
    <3>1. PICK threw \in BOOLEAN : Leaves(t, a, threw)
      BY <2>1
    <3>2. /\ run'[t] \in RunsOf(t)
          /\ run'[t].pc \in {"queued", "starting"} => run'[t].node \in Plan(t)
          /\ Loops(t)' => Loops(t)
      BY <3>1, LeavesRun
    <3>3. agent' = [agent EXCEPT ![a] = Off]
      BY <3>1 DEF Leaves
    <3>4. /\ agent' \in [Agents -> AgentStates]
          /\ \A b \in Agents : b # a => agent'[b] = agent[b]
      BY <1>1, <3>3, GoneFor DEF Globals
    <3> QED
      BY <1>1, <1>8, <3>2, <3>4, RoleControl DEF Control
  <2>2. CASE (\E phase \in Phases, end \in Ends : Goes(a, phase, end)) /\ run' = run
    <3>1. /\ agent' \in [Agents -> AgentStates]
          /\ \A b \in Agents : b # a => agent'[b] = agent[b]
      BY <1>4, <2>2
    <3> QED
      BY <1>1, <1>8, <2>2, <3>1, RoleControl DEF Control
  <2> QED
    BY <1>8, <2>1, <2>2
<1>9. agent[a].end \in Ends
  BY <1>1 DEF Globals, AgentStates
<1>10. CASE CloseSave(t, a)
  <2>1. holder[t].op \in RoleOps /\ a \in Alive /\ holder'[t] = Nobody
    BY <1>3, <1>10 DEF CloseSave
  <2>2. /\ runs'[t] = runs[t] /\ stop'[t] = stop[t] /\ spent' = spent
        /\ \/ Leaves(t, a, TRUE)
           \/ /\ Goes(a, "reporting", agent[a].end) \/ Goes(a, "closing", "error")
              /\ run' = run
    BY <1>10 DEF CloseSave
  <2> QED
    BY <1>8, <1>9, <2>1, <2>2 DEF Phases, Ends
<1>11. CASE ReportSave(t, a)
  <2>1. holder[t].op \in RoleOps /\ a \in Alive /\ holder'[t] = Nobody
    BY <1>3, <1>11 DEF ReportSave
  <2>2. /\ runs'[t] = runs[t] /\ stop'[t] = stop[t] /\ spent' = spent
        /\ \/ \E threw \in BOOLEAN : Leaves(t, a, threw)
           \/ Goes(a, "closing", "error") /\ run' = run
    BY <1>11 DEF ReportSave
  <2> QED
    BY <1>8, <2>1, <2>2 DEF Phases, Ends
<1> QED
  BY <1>2, <1>5, <1>6, <1>7, <1>10, <1>11 DEF Role

(* The teams a step is not about. *)
LEMMA ControlApart ==
    ASSUME Shape, NEW t \in Teams, Apart(t), Handed(t), NEW u \in Teams, u # t
    PROVE  Control(u)'
<1>1. Control(u) /\ AgentsOf(u) \subseteq Agents \ AgentsOf(t)
  BY DEF Shape, AgentsOf
<1>2. \A a \in AgentsOf(u) : agent'[a] = agent[a]
  BY <1>1 DEF Apart
<1>3. /\ runs'[u] = runs[u] /\ stop'[u] = stop[u] /\ holder'[u] = holder[u]
      /\ spent'[u] = spent[u]
  BY DEF Apart
<1>4. holder[u].op \in RoleOps => holder[u].agent \in AgentsOf(u)
  BY <1>1 DEF Control, Holders, WithLock, RoleOps
<1>5. CASE run'[u] = run[u]
  BY <1>1, <1>2, <1>3, <1>4, <1>5 DEF Control, Loops, Alive
<1>6. CASE run[u].pc = "queued" /\ run'[u] = [run[u] EXCEPT !.pc = "starting"]
  <2>1. run[u] \in RunsOf(u)
    BY <1>1 DEF Control
  <2>2. run'[u] \in RunsOf(u) /\ run'[u].pc = "starting" /\ run'[u].node = run[u].node
    BY <1>6, <2>1, StartingRun
  <2> QED
    BY <1>1, <1>2, <1>3, <1>4, <1>6, <2>2 DEF Control, Loops, Alive
<1> QED
  BY <1>5, <1>6 DEF Handed

(* The shapes hold after every step of a team. *)
LEMMA ActsShape ==
    ASSUME Shape, NEW t \in Teams, Sound(t, team[t]), Acts(t)
    PROVE  Shape' /\ Apart(t) /\ Handed(t)
<1>1. Apart(t) /\ Handed(t)
  BY ActsApart, ActsHanded
<1>2. Control(t)'
  BY UserControl, LoopActsControl, RoleActsControl DEF Acts
<1>3. \A u \in Teams : Control(u)'
  BY <1>1, <1>2, ControlApart
<1>4. Domains' /\ Globals'
  BY <1>1 DEF Apart, Handed, Domains
<1> QED
  BY <1>1, <1>3, <1>4 DEF Shape, Handed

-----------------------------------------------------------------------------
(* Every record anybody holds is sound, and what is reserved in it has an   *)
(* id from the team's past.  The holder who starts a task has read that it  *)
(* is ready; the run loop merges a team that has done every task.           *)

Kept(t, r) == Sound(t, r) /\ \A q \in r.reserved : q.id < spent[t]

Sounds(t) ==
    /\ Kept(t, team[t]) /\ Kept(t, seen[t]) /\ Kept(t, copy[t]) /\ Kept(t, applying[t])
    /\ holder[t].op = "start" => seen[t].state = "running" /\ run[t].node \in Ready(seen[t])
    /\ run[t].pc \in {"save", "merging", "importing"} => copy[t].state = "merging"

(* The operations on a record, once more.                                   *)
LEMMA OpsKept ==
    ASSUME NEW t \in Teams, NEW r, Kept(t, r)
    PROVE  /\ \A state \in TeamStates : (state \in Finished => AllCompleted(r)) =>
                 Kept(t, To(r, state)) /\ To(r, state).state = state
           /\ \A base \in BOOLEAN : Kept(t, [r EXCEPT !.base = base])
                                    /\ [r EXCEPT !.base = base].state = r.state
           /\ Kept(t, Pausing(r)) /\ Kept(t, Resumed(r)) /\ Kept(t, Recovered(r))
           /\ r.state \notin Finished => Kept(t, PauseRunning(r))
           /\ \A n \in Plan(t) : r.state = "running" /\ r.node[n] = "running" =>
                 Kept(t, CompleteNode(r, n)) /\ Kept(t, FailNode(r, n))
           /\ r.state = "running" => \A n \in Ready(r) :
                 /\ Kept(t, StartNode(r, n))
                 /\ Kept(t, FailNode(StartNode(r, n), n))
           /\ \A S \in SUBSET r.reserved : Kept(t, Settle(r, S))
<1> USE DEF Kept
<1>1. ASSUME NEW s, Follows(t, r, s), Sound(t, s)
      PROVE  Kept(t, s)
  BY <1>1 DEF Follows
<1>2. ASSUME NEW s, Sound(t, s), s.reserved = r.reserved
      PROVE  Kept(t, s)
  BY <1>2
<1>3. ASSUME NEW state \in TeamStates, state \in Finished => AllCompleted(r)
      PROVE  Kept(t, To(r, state)) /\ To(r, state).state = state
  BY <1>2, <1>3, ToSound
<1>4. ASSUME NEW base \in BOOLEAN
      PROVE  Kept(t, [r EXCEPT !.base = base]) /\ [r EXCEPT !.base = base].state = r.state
  BY <1>2, BaseSound
<1>5. Kept(t, Pausing(r)) /\ Kept(t, Resumed(r)) /\ Kept(t, Recovered(r))
  BY <1>1, <1>2, PausingSound, ResumedSound, RecoveredSound
<1>6. ASSUME r.state \notin Finished
      PROVE  Kept(t, PauseRunning(r))
  BY <1>1, <1>6, PauseRunningSound
<1>7. ASSUME NEW n \in Plan(t), r.state = "running", r.node[n] = "running"
      PROVE  Kept(t, CompleteNode(r, n)) /\ Kept(t, FailNode(r, n))
  BY <1>1, <1>7, CompleteNodeSound, FailNodeSound
<1>8. ASSUME r.state = "running", NEW n \in Ready(r)
      PROVE  Kept(t, StartNode(r, n)) /\ Kept(t, FailNode(StartNode(r, n), n))
  <2> DEFINE s == StartNode(r, n)
  <2>1. /\ n \in Plan(t) /\ Sound(t, s) /\ Follows(t, r, s)
        /\ s.state = "running" /\ s.node[n] = "running"
    BY <1>8, StartNodeSound
  <2> HIDE DEF s
  <2>2. Sound(t, FailNode(s, n)) /\ Follows(t, s, FailNode(s, n))
    BY <2>1, FailNodeSound
  <2>3. Kept(t, s) /\ Kept(t, FailNode(s, n))
    BY <1>1, <2>1, <2>2 DEF Follows
  <2> QED
    BY <2>3 DEF s
<1>9. ASSUME NEW S \in SUBSET r.reserved
      PROVE  Kept(t, Settle(r, S))
  BY <1>1, SettleSound
<1> HIDE DEF Kept
<1> QED
  BY <1>3, <1>4, <1>5, <1>6, <1>7, <1>8, <1>9

(* A configured record, and the one that stands for a removed run, is sound. *)
LEMMA ConfiguredKept ==
    ASSUME NEW t \in Teams
    PROVE  /\ Kept(t, Configured(t)) /\ Configured(t).state = "configured"
           /\ Kept(t, [Configured(t) EXCEPT !.state = "removed"])
  BY ConfiguredSound DEF Kept

(* Later, more has been sent. *)
LEMMA StillKept ==
    ASSUME Shape, Shape', NEW t \in Teams, spent'[t] >= spent[t],
           NEW r, Kept(t, r)
    PROVE  Sound(t, r) /\ \A q \in r.reserved : q.id < spent'[t]
<1>1. spent[t] \in Nat /\ spent'[t] \in Nat /\ r.reserved \subseteq Reservations(t)
  BY RecordShape DEF Shape, Control, Kept, Sound
<1>2. \A q \in r.reserved : q.id \in Nat
  BY <1>1, ReservationShape
<1> QED
  BY <1>1, <1>2 DEF Kept

-----------------------------------------------------------------------------
(* What each step does to the entries of its team.                          *)

SameBooks(t) == runs'[t] = runs[t] /\ spent'[t] = spent[t]
SameLock(t)  == holder'[t] = holder[t] /\ seen'[t] = seen[t]
Freed(t)     == holder'[t] = Nobody /\ seen'[t] = Configured(t)
SameRest(t)  == copy'[t] = copy[t] /\ applying'[t] = applying[t]

(* confirmPlan takes the lock and saves the plan as being prepared. *)
LEMMA ConfirmDoes ==
    ASSUME Shape, NEW t \in Teams, Confirm(t)
    PROVE  /\ SameBooks(t) /\ SameRest(t) /\ agent' = agent /\ run'[t] = run[t]
           /\ run[t].pc = "none" /\ team[t].state = "configured"
           /\ holder[t] = Nobody /\ holder'[t].op = "capture" /\ seen'[t] = seen[t]
           /\ team'[t] = To(team[t], "preparing")
  BY DEF Confirm, Save, userVars, lockVars, agentVars, SameBooks, SameRest, Shape, Domains

(* The base is captured and saved, or the team pauses. *)
LEMMA CaptureBaseDoes ==
    ASSUME Shape, NEW t \in Teams, CaptureBase(t)
    PROVE  /\ SameBooks(t) /\ SameRest(t) /\ agent' = agent /\ run'[t] = run[t]
           /\ holder[t].op = "capture"
           /\ \/ /\ holder'[t].op = "allocate" /\ seen'[t] = seen[t]
                 /\ team'[t] = [team[t] EXCEPT !.base = TRUE]
              \/ /\ Freed(t)
                 /\ team'[t] = team[t] \/ team'[t] = To(team[t], "paused")
<1>1. holder[t] = [op |-> "capture", agent |-> <<>>]
  BY DEF CaptureBase, Holds
<1>2. [holder[t] EXCEPT !.op = "allocate"].op = "allocate" /\ holder[t].op = "capture"
  BY <1>1
<1> QED
  BY <1>2 DEF CaptureBase, Save, SaveFails, Unlock, Freed, userVars, lockVars, agentVars,
              SameBooks, SameRest, Shape, Domains

(* The sandboxes are made and the loop starts, or the team pauses. *)
LEMMA AllocateDoes ==
    ASSUME Shape, NEW t \in Teams, Allocate(t)
    PROVE  /\ SameRest(t) /\ agent' = agent /\ spent'[t] = spent[t]
           /\ holder[t].op = "allocate" /\ Freed(t)
           /\ \/ /\ team'[t] = To(team[t], "running")
                 /\ run'[t].pc = "loop" /\ runs'[t] = runs[t] + 1
              \/ /\ run'[t] = run[t] /\ runs'[t] = runs[t]
                 /\ \/ team'[t] = team[t]
                    \/ \E kept \in BOOLEAN :
                          team'[t] = [To(team[t], "paused") EXCEPT !.base = kept]
<1> USE DEF Save, SaveFails, Holds, Unlock, Freed, userVars, lockVars, agentVars,
            SameRest, Shape, Domains
<1>1. /\ SameRest(t) /\ agent' = agent /\ spent'[t] = spent[t]
      /\ holder[t].op = "allocate" /\ Freed(t)
  BY DEF Allocate
<1>2. CASE UNCHANGED <<run, runs>>
  <2>1. \/ SaveFails
        \/ \E kept \in BOOLEAN : Save(t, [To(team[t], "paused") EXCEPT !.base = kept])
        \/ ~UNCHANGED <<run, runs>>
        \/ runs' = [runs EXCEPT ![t] = @ + 1]
    BY DEF Allocate
  <2>2. runs' # [runs EXCEPT ![t] = @ + 1]
    <3>1. runs[t] \in Int
      BY LimitAssumption DEF Control
    <3> QED
      BY <1>2, <3>1
  <2> QED
    BY <1>1, <1>2, <2>1, <2>2
<1>3. CASE ~UNCHANGED <<run, runs>>
  <2>1. /\ team' = [team EXCEPT ![t] = To(team[t], "running")]
        /\ run' = [run EXCEPT ![t] = [Idle EXCEPT !.pc = "loop"]]
        /\ runs' = [runs EXCEPT ![t] = @ + 1]
    BY <1>3 DEF Allocate
  <2>2. [Idle EXCEPT !.pc = "loop"].pc = "loop"
    BY DEF Idle
  <2>3. /\ team'[t] = To(team[t], "running")
        /\ run'[t].pc = "loop" /\ runs'[t] = runs[t] + 1
    BY <2>1, <2>2
  <2> QED
    BY <1>1, <2>3
<1> QED
  BY <1>2, <1>3

(* resume saves the resumed record and starts the loop, in one go. *)
LEMMA ResumeDoes ==
    ASSUME Shape, NEW t \in Teams, Resume(t)
    PROVE  /\ SameRest(t) /\ SameLock(t) /\ agent' = agent /\ spent'[t] = spent[t]
           /\ run[t].pc \in {"none", "done"} /\ run'[t].pc = "loop"
           /\ runs'[t] = runs[t] + 1
           /\ holder[t] = Nobody
           /\ CanResume(team[t]) /\ team'[t] = Resumed(team[t])
  BY DEF Resume, Save, userVars, lockVars, agentVars, SameLock, SameRest, Shape, Domains, Idle

(* cancel stops the run and wakes it if it is queued. *)
LEMMA CancelDoes ==
    ASSUME Shape, NEW t \in Teams, Cancel(t)
    PROVE  /\ SameBooks(t) /\ SameRest(t) /\ SameLock(t) /\ agent' = agent
           /\ team'[t] = team[t]
           /\ \/ run'[t] = run[t]
              \/ run[t].pc = "queued" /\ run'[t].pc = "scan"
<1>1. run'[t] = Unqueued(t)[t]
  BY DEF Cancel
<1> QED
  BY <1>1, UnqueuedRun DEF Cancel, lockVars, SameBooks, SameLock, SameRest

(* Under the lock, cancel reads the record, ... *)
LEMMA CancelReadDoes ==
    ASSUME Shape, NEW t \in Teams, CancelRead(t)
    PROVE  /\ SameBooks(t) /\ SameRest(t) /\ agent' = agent /\ run'[t] = run[t]
           /\ team'[t] = team[t]
           /\ holder[t] = Nobody /\ holder'[t].op = "cancel" /\ seen'[t] = team[t]
  BY DEF CancelRead, Lock, NoSave, userVars, agentVars, SameBooks, SameRest, Shape, Domains

(* ... saves it as cancelled, unless the save fails, ... *)
LEMMA CancelSaveDoes ==
    ASSUME Shape, NEW t \in Teams, CancelSave(t)
    PROVE  /\ SameBooks(t) /\ SameRest(t) /\ agent' = agent /\ run'[t] = run[t]
           /\ holder[t].op = "cancel"
           /\ \/ /\ May(seen[t], "cancelled")
                 /\ team'[t] = PauseRunning(To(seen[t], "cancelled"))
                 /\ seen'[t] = team'[t] /\ holder'[t] = holder[t]
              \/ team'[t] = team[t] /\ Freed(t)
<1>1. holder[t].op = "cancel"
  BY DEF CancelSave, Shape, Control
<1> QED
  BY <1>1 DEF CancelSave, Save, SaveFails, NoSave, Unlock, Freed, userVars, agentVars,
              SameBooks, SameRest, Shape, Domains

(* ... gives the base up, ... *)
LEMMA CancelCleanDoes ==
    ASSUME Shape, NEW t \in Teams, CancelClean(t)
    PROVE  /\ SameBooks(t) /\ SameRest(t) /\ agent' = agent /\ run'[t] = run[t]
           /\ holder[t].op = "cancel" /\ Freed(t)
           /\ team'[t] = team[t] \/ team'[t] = [seen[t] EXCEPT !.base = FALSE]
<1>1. holder[t].op = "cancel"
  BY DEF CancelClean, Shape, Control
<1> QED
  BY <1>1 DEF CancelClean, Save, SaveFails, Unlock, Freed, userVars, agentVars,
              SameBooks, SameRest, Shape, Domains

(* ... and returns. *)
LEMMA CancelReturnDoes ==
    ASSUME Shape, NEW t \in Teams, CancelReturn(t)
    PROVE  /\ SameBooks(t) /\ SameRest(t) /\ SameLock(t) /\ agent' = agent
           /\ run'[t] = run[t] /\ team'[t] = team[t]
  BY DEF CancelReturn, NoSave, userVars, lockVars, agentVars, SameBooks, SameLock, SameRest

(* applyReview reads a record in review. *)
LEMMA ApplyDoes ==
    ASSUME Shape, NEW t \in Teams, Apply(t)
    PROVE  /\ SameBooks(t) /\ SameLock(t) /\ copy'[t] = copy[t] /\ agent' = agent
           /\ run'[t] = run[t] /\ team'[t] = team[t]
           /\ team[t].state = "review" /\ applying'[t] = team[t]
  BY DEF Apply, NoSave, lockVars, agentVars, SameBooks, SameLock, Shape, Domains

(* completeReview saves the record it read then, without the lock. *)
LEMMA CompleteReviewDoes ==
    ASSUME Shape, NEW t \in Teams, CompleteReview(t)
    PROVE  /\ SameBooks(t) /\ SameLock(t) /\ copy'[t] = copy[t] /\ agent' = agent
           /\ run'[t] = run[t]
           /\ applying[t].state = "review" /\ applying'[t] = Configured(t)
           /\ \/ team'[t] = team[t]
              \/ team'[t] = [To(applying[t], "completed") EXCEPT !.base = FALSE]
  BY DEF CompleteReview, Save, SaveFails, lockVars, agentVars, SameBooks, SameLock,
         Shape, Domains

(* A run that rests can be removed. *)
LEMMA RemoveRunDoes ==
    ASSUME Shape, NEW t \in Teams, RemoveRun(t)
    PROVE  /\ SameBooks(t) /\ SameRest(t) /\ SameLock(t) /\ agent' = agent
           /\ run[t].pc \in {"none", "done"} /\ run'[t].pc = "none"
           /\ holder[t] = Nobody
           /\ team'[t] = [Configured(t) EXCEPT !.state = "removed"]
  BY DEF RemoveRun, Save, userVars, lockVars, SameBooks, SameLock, SameRest,
         Shape, Domains, Idle

(* A turn of the loop decides how to go on. *)
LEMMA TurnDoes ==
    ASSUME Shape, NEW t \in Teams, Turn(t)
    PROVE  /\ SameBooks(t) /\ SameRest(t) /\ SameLock(t) /\ agent' = agent
           /\ team'[t] = team[t]
           /\ run[t].pc = "loop" /\ run'[t].pc \in {"done", "merge", "fail", "scan"}
           /\ run'[t].pc # "done" => team[t].state = "running"
           /\ run'[t].pc = "fail" => GraphState(team[t]) = "failed"
<1>1. /\ SameBooks(t) /\ SameRest(t) /\ SameLock(t) /\ agent' = agent
      /\ team'[t] = team[t] /\ run[t].pc = "loop"
  BY DEF Turn, NoSave, userVars, lockVars, SameBooks, SameRest, SameLock
<1>2. CASE Return(t)
  BY <1>1, <1>2, ReturnRun
<1>3. CASE ~Return(t)
  <2>1. team[t].state = "running"
    BY <1>3, Zenon DEF Turn
  <2>2. \/ Step(t, "merge")
        \/ Step(t, "fail") /\ GraphState(team[t]) = "failed"
        \/ run' = [run EXCEPT ![t] = [pc |-> "scan", todo |-> Ready(team[t]),
                      busy |-> Active(t), idle |-> Ready(team[t]) = {}, node |-> NoNode]]
    BY <1>3, Zenon DEF Turn
  <2>3. DOMAIN run = Teams
    BY DEF Shape, Domains
  <2>4. \/ run'[t].pc = "merge"
        \/ run'[t].pc = "fail" /\ GraphState(team[t]) = "failed"
        \/ run'[t].pc = "scan"
    BY <2>2, <2>3, StepRun DEF RunStates
  <2> QED
    BY <1>1, <2>1, <2>4
<1> QED
  BY <1>2, <1>3

(* After the scan the loop waits for a role, goes round again, or pauses. *)
LEMMA ScannedDoes ==
    ASSUME Shape, NEW t \in Teams, Scanned(t)
    PROVE  /\ SameBooks(t) /\ SameRest(t) /\ SameLock(t) /\ agent' = agent
           /\ team'[t] = team[t]
           /\ run[t].pc = "scan" /\ run'[t].pc \in {"waiting", "pause", "loop"}
<1>1. Step(t, "waiting") \/ Step(t, "pause") \/ Step(t, "loop")
  BY Zenon DEF Scanned
<1>2. run'[t].pc \in {"waiting", "pause", "loop"}
  BY <1>1, StepRun DEF RunStates
<1> QED
  BY <1>2 DEF Scanned, NoSave, userVars, lockVars, agentVars, SameBooks, SameRest, SameLock

(* With a slot in hand the loop takes the lock for a task that is still ready. *)
LEMMA StartCheckDoes ==
    ASSUME Shape, NEW t \in Teams, StartCheck(t)
    PROVE  /\ SameBooks(t) /\ SameRest(t) /\ agent' = agent
           /\ team'[t] = team[t]
           /\ run[t].pc = "starting" /\ holder[t] = Nobody
           /\ \/ /\ holder'[t].op = "start" /\ seen'[t] = team[t]
                 /\ team[t].state = "running" /\ run[t].node \in Ready(team[t])
                 /\ run'[t] = run[t]
              \/ run'[t].pc = "scan" /\ SameLock(t)
<1> DEFINE r == [run EXCEPT ![t].pc = "scan", ![t].node = NoNode]
<1>1. /\ SameBooks(t) /\ SameRest(t) /\ agent' = agent
      /\ team'[t] = team[t] /\ run[t].pc = "starting" /\ holder[t] = Nobody
  BY DEF StartCheck, NoSave, Lock, userVars, agentVars, SameBooks, SameRest
<1>2. \/ /\ Lock(t, "start", <<>>) /\ run' = run
         /\ team[t].state = "running" /\ run[t].node \in Ready(team[t])
      \/ Release(r, queue) /\ SameLock(t)
  BY DEF StartCheck, lockVars, SameLock
<1>3. CASE Lock(t, "start", <<>>) /\ run' = run
  <2>1. holder'[t].op = "start" /\ seen'[t] = team[t]
    BY <1>3 DEF Lock, Shape, Domains
  <2> QED
    BY <1>1, <1>2, <1>3, <2>1 DEF Lock, Nobody, SameLock
<1>4. CASE Release(r, queue) /\ SameLock(t)
  <2>1. DOMAIN run = Teams /\ run[t] \in RunsOf(t)
    BY DEF Shape, Domains, Control
  <2>2. /\ DOMAIN r = Teams /\ r[t] \in RunsOf(t) /\ r[t].pc = "scan"
        /\ \A u \in Teams \ {t} : r[u] = run[u]
    BY <2>1 DEF RunsOf, RunStates
  <2> HIDE DEF r
  <2>3. Waiting(r, queue)
    BY <1>1, <2>2, StillWaiting
  <2>4. run'[t].pc = "scan"
    BY <1>4, <2>2, <2>3, ReleasedRun
  <2> QED
    BY <1>1, <1>4, <2>4
<1> QED
  BY <1>2, <1>3, <1>4

(* The task is saved as started and its role set off, unless the save fails. *)
LEMMA StartSaveDoes ==
    ASSUME Shape, NEW t \in Teams, StartSave(t)
    PROVE  /\ SameBooks(t) /\ SameRest(t) /\ Freed(t)
           /\ holder[t].op = "start" /\ run[t].pc = "starting"
           /\ run[t].node \in Plan(t)
           /\ \/ /\ run'[t].pc = "scan"
                 /\ team'[t] = StartNode(seen[t], run[t].node)
                 /\ agent' = [agent EXCEPT ![<<run[t].node, runs[t]>>] =
                                              [Off EXCEPT !.phase = "working"]]
              \/ run'[t].pc = "caught" /\ team'[t] = team[t] /\ agent' = agent
<1> DEFINE n == run[t].node
           m == StartNode(seen[t], n)
           s == [Off EXCEPT !.phase = "working"]
<1>1. /\ holder[t] = [op |-> "start", agent |-> <<>>]
      /\ Unlock(t) /\ UNCHANGED <<copy, runs, spent, userVars>>
  BY DEF StartSave, Holds
<1>2. /\ SameBooks(t) /\ SameRest(t) /\ Freed(t) /\ holder[t].op = "start"
  BY <1>1 DEF Unlock, Freed, userVars, SameBooks, SameRest, Shape, Domains
<1>3. run[t].pc = "starting" /\ n \in Plan(t)
  BY <1>2 DEF Shape, Control
<1>4. \/ /\ team' = [team EXCEPT ![t] = m]
         /\ agent' = [agent EXCEPT ![<<n, runs[t]>>] = s]
         /\ run' = [run EXCEPT ![t].pc = "scan", ![t].node = NoNode, ![t].busy = @ \cup {n}]
      \/ Throw(t) /\ team' = team /\ agent' = agent
  BY DEF StartSave, Save, SaveFails
<1>5. CASE Throw(t) /\ team' = team /\ agent' = agent
  BY <1>2, <1>3, <1>5, ThrowRun
<1>6. CASE /\ team' = [team EXCEPT ![t] = m]
           /\ agent' = [agent EXCEPT ![<<n, runs[t]>>] = s]
           /\ run' = [run EXCEPT ![t].pc = "scan", ![t].node = NoNode, ![t].busy = @ \cup {n}]
  <2>1. run'[t].pc = "scan"
    BY <1>6 DEF Shape, Domains, Control, RunsOf
  <2>2. team'[t] = m
    BY <1>6 DEF Shape, Domains
  <2> QED
    BY <1>2, <1>3, <1>6, <2>1, <2>2
<1> QED
  BY <1>4, <1>5, <1>6

(* To fail or to pause, the loop reads the record, ... *)
LEMMA EndReadDoes ==
    ASSUME Shape, NEW t \in Teams, EndRead(t)
    PROVE  /\ SameBooks(t) /\ SameLock(t) /\ agent' = agent
           /\ team'[t] = team[t] /\ applying'[t] = applying[t]
           /\ run[t].pc \in {"fail", "pause"} /\ copy'[t] = team[t]
           /\ run'[t].pc = IF run[t].pc = "fail" THEN "failing" ELSE "pausing"
<1>1. run'[t].pc = IF run[t].pc = "fail" THEN "failing" ELSE "pausing"
  BY StepRun DEF EndRead, RunStates
<1> QED
  BY <1>1 DEF EndRead, NoSave, userVars, lockVars, agentVars, SameBooks, SameLock,
              Shape, Domains

(* ... and saves what it has read, without the lock. *)
LEMMA EndSaveDoes ==
    ASSUME Shape, NEW t \in Teams, EndSave(t)
    PROVE  /\ SameBooks(t) /\ SameLock(t) /\ agent' = agent
           /\ applying'[t] = applying[t]
           /\ run[t].pc \in {"failing", "pausing"} /\ run'[t].pc \in {"done", "caught"}
           /\ copy'[t] = Configured(t)
           /\ \/ team'[t] = team[t]
              \/ /\ run[t].pc = "failing" /\ May(copy[t], "failed")
                 /\ team'[t] = To(copy[t], "failed")
              \/ /\ run[t].pc = "pausing" /\ May(copy[t], "paused")
                 /\ team'[t] = Pausing(copy[t])
<1>1. Return(t) \/ Throw(t)
  BY Zenon DEF EndSave
<1>2. run'[t].pc \in {"done", "caught"}
  BY <1>1, ReturnRun, ThrowRun
<1>3. \/ team' = team
      \/ /\ run[t].pc = "failing" /\ May(copy[t], "failed")
         /\ team' = [team EXCEPT ![t] = To(copy[t], "failed")]
      \/ /\ run[t].pc = "pausing" /\ May(copy[t], "paused")
         /\ team' = [team EXCEPT ![t] = Pausing(copy[t])]
  BY DEF EndSave, Save, SaveFails, NoSave
<1>4. /\ SameBooks(t) /\ SameLock(t) /\ agent' = agent
      /\ applying'[t] = applying[t]
      /\ run[t].pc \in {"failing", "pausing"} /\ copy'[t] = Configured(t)
  BY DEF EndSave, userVars, lockVars, SameBooks, SameLock, Shape, Domains
<1> QED
  BY <1>2, <1>3, <1>4 DEF Shape, Domains

(* The catch of runLoop pauses a team that still runs. *)
LEMMA CaughtDoes ==
    ASSUME Shape, NEW t \in Teams, Caught(t)
    PROVE  /\ SameBooks(t) /\ SameRest(t) /\ SameLock(t) /\ agent' = agent
           /\ run[t].pc = "caught" /\ run'[t].pc = "done" /\ holder[t] = Nobody
           /\ \/ team'[t] = team[t]
              \/ team[t].state = "running" /\ team'[t] = Pausing(team[t])
<1>1. run'[t].pc = "done"
  BY ReturnRun DEF Caught
<1>2. team' = team \/ (team[t].state = "running" /\ team' = [team EXCEPT ![t] = Pausing(team[t])])
  BY DEF Caught, Save, SaveFails, NoSave
<1>3. /\ SameBooks(t) /\ SameRest(t) /\ SameLock(t) /\ agent' = agent
      /\ run[t].pc = "caught" /\ holder[t] = Nobody
  BY DEF Caught, userVars, lockVars, SameBooks, SameRest, SameLock
<1> QED
  BY <1>1, <1>2, <1>3 DEF Shape, Domains

(* The merge starts from a record whose tasks are all done, ... *)
LEMMA MergeReadDoes ==
    ASSUME Shape, NEW t \in Teams, MergeRead(t)
    PROVE  /\ SameBooks(t) /\ SameLock(t) /\ agent' = agent
           /\ team'[t] = team[t] /\ applying'[t] = applying[t]
           /\ run[t].pc = "merge"
           /\ \/ /\ run'[t].pc = "save" /\ copy'[t] = To(team[t], "merging")
                 /\ team[t].state = "running" /\ AllCompleted(team[t])
              \/ run'[t].pc = "caught" /\ copy'[t] = copy[t]
<1>1. \/ /\ Step(t, "save") /\ copy' = [copy EXCEPT ![t] = To(team[t], "merging")]
         /\ team[t].state = "running" /\ AllCompleted(team[t])
      \/ Throw(t) /\ copy' = copy
  BY Zenon DEF MergeRead
<1>2. /\ SameBooks(t) /\ SameLock(t) /\ agent' = agent
      /\ team'[t] = team[t] /\ applying'[t] = applying[t] /\ run[t].pc = "merge"
  BY DEF MergeRead, NoSave, userVars, lockVars, SameBooks, SameLock
<1> QED
  BY <1>1, <1>2, StepRun, ThrowRun DEF Shape, Domains, RunStates

(* ... saves it as merging, ... *)
LEMMA MergeSaveDoes ==
    ASSUME Shape, NEW t \in Teams, MergeSave(t)
    PROVE  /\ SameBooks(t) /\ SameLock(t) /\ agent' = agent
           /\ applying'[t] = applying[t]
           /\ run[t].pc = "save"
           /\ \/ run'[t].pc = "merging" /\ team'[t] = copy[t] /\ copy'[t] = copy[t]
              \/ run'[t].pc = "caught" /\ team'[t] = team[t] /\ copy'[t] = Configured(t)
<1>1. \/ Step(t, "merging") /\ team' = [team EXCEPT ![t] = copy[t]] /\ copy' = copy
      \/ Throw(t) /\ team' = team /\ copy' = [copy EXCEPT ![t] = Configured(t)]
  BY Zenon DEF MergeSave, Save, SaveFails
<1>2. /\ SameBooks(t) /\ SameLock(t) /\ agent' = agent
      /\ applying'[t] = applying[t] /\ run[t].pc = "save"
  BY DEF MergeSave, userVars, lockVars, SameBooks, SameLock
<1> QED
  BY <1>1, <1>2, StepRun, ThrowRun DEF Shape, Domains, RunStates

(* ... ends with conflicts or nothing to merge, ... *)
LEMMA MergeDecidedDoes ==
    ASSUME Shape, NEW t \in Teams, MergeDecided(t)
    PROVE  /\ SameBooks(t) /\ SameLock(t) /\ agent' = agent
           /\ applying'[t] = applying[t]
           /\ run[t].pc = "merging" /\ run'[t].pc \in {"done", "caught"}
           /\ copy'[t] = Configured(t)
           /\ \/ team'[t] = team[t]
              \/ \E state \in {"conflict", "completed"} : team'[t] = To(copy[t], state)
<1>1. Return(t) \/ Throw(t)
  BY Zenon DEF MergeDecided
<1>2. \/ team' = team
      \/ \E state \in {"conflict", "completed"} : team' = [team EXCEPT ![t] = To(copy[t], state)]
  BY Zenon DEF MergeDecided, Save, SaveFails
<1>3. /\ SameBooks(t) /\ SameLock(t) /\ agent' = agent
      /\ applying'[t] = applying[t] /\ run[t].pc = "merging" /\ copy'[t] = Configured(t)
  BY DEF MergeDecided, userVars, lockVars, SameBooks, SameLock, Shape, Domains
<1>4. run'[t].pc \in {"done", "caught"}
  BY <1>1, ReturnRun, ThrowRun
<1> QED
  BY <1>2, <1>3, <1>4 DEF Shape, Domains

(* ... or imports the combined workspace, ... *)
LEMMA MergeImportDoes ==
    ASSUME Shape, NEW t \in Teams, MergeImport(t)
    PROVE  /\ SameBooks(t) /\ SameRest(t) /\ SameLock(t) /\ agent' = agent
           /\ run[t].pc = "merging" /\ run'[t].pc = "importing"
           /\ team'[t] = copy[t]
<1>1. run'[t].pc = "importing"
  BY StepRun DEF MergeImport, RunStates
<1> QED
  BY <1>1 DEF MergeImport, Save, userVars, lockVars, agentVars, SameBooks, SameRest,
              SameLock, Shape, Domains

(* ... and ends in a review, or pauses the team. *)
LEMMA MergeEndDoes ==
    ASSUME Shape, NEW t \in Teams, MergeEnd(t)
    PROVE  /\ SameBooks(t) /\ SameLock(t) /\ agent' = agent
           /\ applying'[t] = applying[t]
           /\ run[t].pc \in {"merging", "importing"} /\ run'[t].pc \in {"done", "caught"}
           /\ copy'[t] = Configured(t)
           /\ \/ team'[t] = team[t]
              \/ run'[t].pc = "done" /\ team'[t] = To(copy[t], "review")
              \/ team'[t] = To(copy[t], "paused")
<1>1. \/ /\ Return(t)
         /\ \/ team' = [team EXCEPT ![t] = To(copy[t], "review")]
            \/ team' = [team EXCEPT ![t] = To(copy[t], "paused")]
      \/ Throw(t) /\ team' = team
  BY Zenon DEF MergeEnd, Save, SaveFails
<1>2. /\ SameBooks(t) /\ SameLock(t) /\ agent' = agent
      /\ applying'[t] = applying[t] /\ run[t].pc \in {"merging", "importing"}
      /\ copy'[t] = Configured(t)
  BY DEF MergeEnd, userVars, lockVars, SameBooks, SameLock, Shape, Domains
<1> QED
  BY <1>1, <1>2, ReturnRun, ThrowRun DEF Shape, Domains

(* The loop looks at a task and takes a slot or queues for one. *)
LEMMA ConsiderDoes ==
    ASSUME Shape, NEW t \in Teams, NEW n \in Plan(t), Consider(t, n)
    PROVE  /\ SameBooks(t) /\ SameRest(t) /\ SameLock(t) /\ agent' = agent
           /\ team'[t] = team[t]
           /\ run[t].pc = "scan" /\ run'[t].pc \in {"scan", "starting", "queued"}
<1>1. run[t].pc = "scan" /\ run[t] \in RunsOf(t) /\ DOMAIN run = Teams
  BY DEF Consider, Shape, Control, Domains
<1>2. run'[t].pc \in {"scan", "starting", "queued"}
  BY <1>1 DEF Consider, RunsOf
<1> QED
  BY <1>1, <1>2 DEF Consider, NoSave, userVars, lockVars, agentVars, SameBooks, SameRest,
                    SameLock

(* A task no model can do fails. *)
LEMMA NoRouteDoes ==
    ASSUME Shape, NEW t \in Teams, NEW n \in Plan(t), NoRoute(t, n)
    PROVE  /\ SameBooks(t) /\ SameRest(t) /\ SameLock(t) /\ agent' = agent
           /\ run[t].pc = "scan" /\ run'[t].pc \in {"scan", "caught"} /\ holder[t] = Nobody
           /\ \/ team'[t] = team[t]
              \/ /\ team[t].state = "running" /\ n \in Ready(team[t])
                 /\ \/ team'[t] = FailNode(StartNode(team[t], n), n)
                    \/ team'[t] = StartNode(team[t], n)
<1>1. run[t].pc = "scan" /\ run[t] \in RunsOf(t) /\ DOMAIN run = Teams
  BY DEF NoRoute, Shape, Control, Domains
<1>2. Throw(t) \/ run' = [run EXCEPT ![t].todo = @ \ {n}]
  BY Zenon DEF NoRoute
<1>3. run'[t].pc \in {"scan", "caught"}
  BY <1>1, <1>2, ThrowRun DEF RunsOf
<1>4. \/ team' = team
      \/ /\ team[t].state = "running" /\ n \in Ready(team[t])
         /\ \/ team' = [team EXCEPT ![t] = FailNode(StartNode(team[t], n), n)]
            \/ team' = [team EXCEPT ![t] = StartNode(team[t], n)]
  BY DEF NoRoute, Save, SaveFails, NoSave
<1>5. /\ SameBooks(t) /\ SameRest(t) /\ SameLock(t) /\ agent' = agent /\ holder[t] = Nobody
  BY DEF NoRoute, userVars, lockVars, SameBooks, SameRest, SameLock
<1> QED
  BY <1>1, <1>3, <1>4, <1>5 DEF Shape, Domains

(* A role at work takes its team's lock, ...                                *)
LEMMA TakeDoes ==
    ASSUME Shape, NEW t \in Teams, NEW a \in AgentsOf(t), Take(t, a)
    PROVE  /\ SameBooks(t) /\ SameRest(t) /\ agent' = agent /\ run'[t] = run[t]
           /\ team'[t] = team[t] /\ a \in Alive
           /\ holder[t] = Nobody /\ seen'[t] = team[t]
           /\ holder'[t].op \in RoleOps /\ holder'[t].agent = a
<1>1. PICK op \in RoleOps : agent[a].phase = PhaseOf[op] /\ Lock(t, op, a)
  BY DEF Take, RoleOps, PhaseOf
<1>2. a \in Alive
  BY <1>1, AgentShape DEF Alive, RoleOps, PhaseOf
<1>3. holder'[t] = [op |-> op, agent |-> a] /\ holder[t] = Nobody /\ seen'[t] = team[t]
  BY <1>1 DEF Lock, Shape, Domains
<1> QED
  BY <1>2, <1>3 DEF Take, NoSave, userVars, agentVars, SameBooks, SameRest

(* ... and goes on or leaves: the other roles stay as they are.             *)
OthersStay(a) == \A b \in Agents : b # a => agent'[b] = agent[b]

(* The lock of a role's operation is held by a role at work. *)
LEMMA HolderIsAlive ==
    ASSUME Shape, NEW t \in Teams, NEW a, NEW op \in RoleOps, Holds(t, op, a)
    PROVE  /\ holder[t].op = op /\ holder[t].agent = a
           /\ a \in AgentsOf(t) /\ a \in Agents /\ a \in Alive
           /\ Unlock(t) => Freed(t)
<1>1. holder[t].op = op /\ holder[t].agent = a /\ Control(t)
  BY DEF Holds, Shape
<1>2. a \in AgentsOf(t) /\ a \in Agents
  BY <1>1 DEF Control, Holders, WithLock, RoleOps, AgentsOf
<1>3. a \in Alive
  BY <1>1, <1>2 DEF Control, Alive, RoleOps, PhaseOf
<1>4. Unlock(t) => Freed(t)
  BY DEF Unlock, Freed, Shape, Domains
<1> QED
  BY <1>1, <1>2, <1>3, <1>4

(* A role that goes on to a phase is at work, and no other role changes. *)
LEMMA GoesAlive ==
    ASSUME Shape, NEW a \in Agents, NEW phase \in Phases \ {"off"}, NEW end \in Ends,
           Goes(a, phase, end)
    PROVE  OthersStay(a) /\ a \in Alive'
<1>1. agent'[a].phase = phase /\ \A b \in Agents : b # a => agent'[b] = agent[b]
  BY GoesOn DEF Shape, Globals
<1> QED
  BY <1>1 DEF OthersStay, Alive

(* A granted request is set aside under a new id. *)
LEMMA ReserveSaveDoes ==
    ASSUME Shape, NEW t \in Teams, NEW a \in AgentsOf(t), ReserveSave(t, a)
    PROVE  /\ runs'[t] = runs[t] /\ SameRest(t) /\ Freed(t) /\ run'[t] = run[t]
           /\ holder[t].op = "reserve" /\ holder[t].agent = a
           /\ a \in Alive /\ a \in Alive' /\ OthersStay(a)
           /\ \/ team'[t] = team[t] /\ spent'[t] = spent[t]
              \/ \E tokens \in Sizes :
                    /\ MayAsk(seen[t], a[1]) /\ HasBudget(seen[t], tokens)
                    /\ team'[t] = Reserve(seen[t], [agent |-> a, tokens |-> tokens,
                                                    id |-> spent[t]])
                    /\ spent'[t] = spent[t] + tokens
<1>1. Holds(t, "reserve", a) /\ agentRest(t)
  BY DEF ReserveSave
<1>2. /\ holder[t].op = "reserve" /\ holder[t].agent = a
      /\ a \in Alive /\ a \in Agents /\ Freed(t)
  BY <1>1, HolderIsAlive DEF agentRest, RoleOps
<1>3. runs'[t] = runs[t] /\ SameRest(t) /\ run'[t] = run[t]
  BY <1>1 DEF agentRest, userVars, SameRest
<1> DEFINE s == [Off EXCEPT !.phase = "streaming", !.request = spent[t]]
<1>4. \/ \E end \in {"error", "refused"} : Goes(a, "closing", end)
      \/ agent' = [agent EXCEPT ![a] = s]
  BY RefusalsAssumption DEF ReserveSave
<1>5. OthersStay(a) /\ a \in Alive'
  <2>1. CASE agent' = [agent EXCEPT ![a] = s]
    <3>1. s.phase = "streaming"
      BY DEF Off
    <3> HIDE DEF s
    <3> QED
      BY <1>2, <2>1, <3>1 DEF OthersStay, Alive, Shape, Globals
  <2> QED
    BY <1>2, <1>4, <2>1, GoesAlive DEF Phases, Ends
<1>6. \/ team' = team /\ spent' = spent
      \/ \E tokens \in Sizes :
            /\ MayAsk(seen[t], a[1]) /\ HasBudget(seen[t], tokens)
            /\ team' = [team EXCEPT ![t] =
                  Reserve(seen[t], [agent |-> a, tokens |-> tokens, id |-> spent[t]])]
            /\ spent' = [spent EXCEPT ![t] = @ + tokens]
  BY Zenon DEF ReserveSave, Save, SaveFails, NoSave
<1>7. DOMAIN team = Teams /\ DOMAIN spent = Teams
  BY DEF Shape, Domains
<1> QED
  BY <1>2, <1>3, <1>5, <1>6, <1>7

(* A request that is over is used instead of set aside. *)
LEMMA SettleSaveDoes ==
    ASSUME Shape, NEW t \in Teams, NEW a \in AgentsOf(t), SettleSave(t, a)
    PROVE  /\ SameBooks(t) /\ SameRest(t) /\ Freed(t) /\ run'[t] = run[t]
           /\ holder[t].op = "settle" /\ holder[t].agent = a
           /\ a \in Alive /\ a \in Alive' /\ OthersStay(a)
           /\ \/ team'[t] = team[t]
              \/ \E S \in SUBSET seen[t].reserved : team'[t] = Settle(seen[t], S)
<1>1. Holds(t, "settle", a) /\ agentRest(t) /\ UNCHANGED spent
  BY DEF SettleSave
<1>2. /\ holder[t].op = "settle" /\ holder[t].agent = a
      /\ a \in Alive /\ a \in Agents /\ Freed(t)
  BY <1>1, HolderIsAlive DEF agentRest, RoleOps
<1>3. SameBooks(t) /\ SameRest(t) /\ run'[t] = run[t]
  BY <1>1 DEF agentRest, userVars, SameBooks, SameRest
<1>4. Goes(a, "closing", "error") \/ Goes(a, "working", "none")
  BY DEF SettleSave
<1>5. OthersStay(a) /\ a \in Alive'
  BY <1>2, <1>4, GoesAlive DEF Phases, Ends
<1> DEFINE mine == {q \in seen[t].reserved : q.agent = a /\ q.id = agent[a].request}
<1>6. team' = team \/ team' = [team EXCEPT ![t] = Settle(seen[t], mine)]
  BY Zenon DEF SettleSave, Save, SaveFails, NoSave
<1>7. mine \in SUBSET seen[t].reserved
  OBVIOUS
<1> HIDE DEF mine
<1>8. \/ team'[t] = team[t]
      \/ \E S \in SUBSET seen[t].reserved : team'[t] = Settle(seen[t], S)
  BY <1>6, <1>7 DEF Shape, Domains
<1> QED
  BY <1>2, <1>3, <1>5, <1>8

(* A runner that returns touches no record. *)
LEMMA RunnerEndsDoes ==
    ASSUME Shape, NEW t \in Teams, NEW a \in AgentsOf(t), RunnerEnds(a)
    PROVE  /\ SameBooks(t) /\ SameRest(t) /\ SameLock(t) /\ run'[t] = run[t]
           /\ team'[t] = team[t]
           /\ a \in Alive /\ a \in Alive' /\ OthersStay(a)
<1>1. a \in Agents /\ a \in Alive
  BY AgentShape DEF RunnerEnds, Alive
<1>2. PICK end \in Ends : Goes(a, "closing", end)
  BY DEF RunnerEnds, Ends
<1>3. OthersStay(a) /\ a \in Alive'
  BY <1>1, <1>2, GoesAlive DEF Phases
<1> QED
  BY <1>1, <1>3 DEF RunnerEnds, NoSave, userVars, lockVars, SameBooks, SameRest, SameLock

(* A role that does not leave stays alive, and the run with it.             *)
Onward(t, a) == \/ /\ run'[t] = run[t] /\ a \in Alive'
               \/ /\ a \notin Alive'
                  /\ \/ run'[t] = run[t]
                     \/ run[t].pc = "queued" /\ run'[t].pc \in {"scan", "starting"}
                     \/ run[t].pc = "waiting" /\ run'[t].pc \in {"loop", "caught"}

(* A role that leaves gives up its place among the roles at work. *)
LEMMA LeavesDoes ==
    ASSUME Shape, NEW t \in Teams, NEW a \in AgentsOf(t), NEW threw \in BOOLEAN,
           Leaves(t, a, threw)
    PROVE  Onward(t, a) /\ OthersStay(a)
<1>1. agent' = [agent EXCEPT ![a] = Off] /\ a \in Agents
  BY AgentShape DEF Leaves
<1>2. agent'[a] = Off /\ \A b \in Agents : b # a => agent'[b] = agent[b]
  BY <1>1, GoneFor DEF Shape, Globals
<1>3. a \notin Alive' /\ OthersStay(a)
  BY <1>2 DEF Alive, Off, OthersStay
<1> QED
  BY <1>3, LeavesRun DEF Onward

(* closeRole settles what its role has left, and lets it go. *)
LEMMA CloseSaveDoes ==
    ASSUME Shape, NEW t \in Teams, NEW a \in AgentsOf(t), CloseSave(t, a)
    PROVE  /\ SameBooks(t) /\ SameRest(t) /\ Freed(t)
           /\ holder[t].op = "close" /\ holder[t].agent = a
           /\ a \in Alive /\ Onward(t, a) /\ OthersStay(a)
           /\ \/ team'[t] = team[t]
              \/ \E S \in SUBSET seen[t].reserved : team'[t] = Settle(seen[t], S)
<1>1. Holds(t, "close", a) /\ Unlock(t) /\ UNCHANGED <<copy, runs, spent, crashes, userVars>>
  BY DEF CloseSave
<1>2. /\ holder[t].op = "close" /\ holder[t].agent = a
      /\ a \in Alive /\ a \in Agents /\ Freed(t)
  BY <1>1, HolderIsAlive DEF RoleOps
<1>3. SameBooks(t) /\ SameRest(t)
  BY <1>1 DEF userVars, SameBooks, SameRest
<1>4. agent[a].end \in Ends
  BY <1>2 DEF Shape, Globals, AgentStates
<1>5. \/ Leaves(t, a, TRUE)
      \/ /\ Goes(a, "reporting", agent[a].end) \/ Goes(a, "closing", "error")
         /\ run' = run
  BY DEF CloseSave
<1>6. Onward(t, a) /\ OthersStay(a)
  <2>1. CASE Leaves(t, a, TRUE)
    BY <2>1, LeavesDoes
  <2>2. CASE (Goes(a, "reporting", agent[a].end) \/ Goes(a, "closing", "error")) /\ run' = run
    BY <1>2, <1>4, <2>2, GoesAlive DEF Phases, Ends, Onward
  <2> QED
    BY <1>5, <2>1, <2>2
<1> DEFINE left == {q \in seen[t].reserved : q.agent[1] = a[1]}
<1>7. team' = team \/ team' = [team EXCEPT ![t] = Settle(seen[t], left)]
  BY Zenon DEF CloseSave, Save, SaveFails, NoSave
<1>8. left \in SUBSET seen[t].reserved
  OBVIOUS
<1> HIDE DEF left
<1>9. \/ team'[t] = team[t]
      \/ \E S \in SUBSET seen[t].reserved : team'[t] = Settle(seen[t], S)
  BY <1>7, <1>8 DEF Shape, Domains
<1> QED
  BY <1>2, <1>3, <1>6, <1>9

(* The outcome of a role is saved, and the role leaves. *)
LEMMA ReportSaveDoes ==
    ASSUME Shape, NEW t \in Teams, NEW a \in AgentsOf(t), ReportSave(t, a)
    PROVE  /\ SameBooks(t) /\ SameRest(t) /\ Freed(t)
           /\ holder[t].op = "report" /\ holder[t].agent = a
           /\ a \in Alive /\ Onward(t, a) /\ OthersStay(a)
           /\ \/ team'[t] = team[t]
              \/ /\ seen[t].state = "running"
                 /\ \/ /\ seen[t].node[a[1]] = "running"
                       /\ \/ team'[t] = CompleteNode(seen[t], a[1])
                          \/ team'[t] = FailNode(seen[t], a[1])
                    \/ team'[t] = Pausing(seen[t])
<1>1. Holds(t, "report", a) /\ Unlock(t) /\ UNCHANGED <<copy, runs, spent, crashes, userVars>>
  BY DEF ReportSave
<1>2. /\ holder[t].op = "report" /\ holder[t].agent = a
      /\ a \in Alive /\ a \in Agents /\ Freed(t)
  BY <1>1, HolderIsAlive DEF RoleOps
<1>3. SameBooks(t) /\ SameRest(t)
  BY <1>1 DEF userVars, SameBooks, SameRest
<1>4. \/ \E threw \in BOOLEAN : Leaves(t, a, threw)
      \/ Goes(a, "closing", "error") /\ run' = run
  BY DEF ReportSave
<1>5. Onward(t, a) /\ OthersStay(a)
  BY <1>2, <1>4, GoesAlive, LeavesDoes DEF Phases, Ends, Onward
<1> DEFINE n == a[1]
           r == seen[t]
           end == agent[a].end
           open == r.state = "running" /\ r.node[n] = "running"
           change == CASE open /\ end = "handoff" -> CompleteNode(r, n)
                       [] open /\ end = "error" -> FailNode(r, n)
                       [] r.state = "running" /\ end = "refused" -> Pausing(r)
                       [] OTHER -> r
<1>6. team' = team \/ (change # r /\ team' = [team EXCEPT ![t] = change])
  BY Zenon DEF ReportSave, Save, SaveFails, NoSave
<1>7. \/ change = r
      \/ open /\ (change = CompleteNode(r, n) \/ change = FailNode(r, n))
      \/ r.state = "running" /\ change = Pausing(r)
  <2>1. CASE open /\ end = "handoff"
    BY <2>1
  <2>2. CASE open /\ end = "error"
    BY <2>2
  <2>3. CASE r.state = "running" /\ end = "refused"
    BY <2>3
  <2>4. CASE /\ ~(open /\ end = "handoff") /\ ~(open /\ end = "error")
             /\ ~(r.state = "running" /\ end = "refused")
    BY <2>4
  <2> QED
    BY <2>1, <2>2, <2>3, <2>4
<1> HIDE DEF change
<1>8. team'[t] = team[t] \/ (change # r /\ team'[t] = change)
  BY <1>6 DEF Shape, Domains
<1> QED
  BY <1>2, <1>3, <1>5, <1>7, <1>8

-----------------------------------------------------------------------------
(* The records stay sound. *)

(* The fields the next arguments look at. *)
Fits(t) == /\ holder'[t].op = "start" => /\ seen'[t].state = "running"
                                         /\ run'[t].node \in Ready(seen'[t])
           /\ run'[t].pc \in {"save", "merging", "importing"} => copy'[t].state = "merging"

(* What has to be shown of a step that sends no request. *)
LEMMA SoundsNext ==
    ASSUME NEW t \in Teams, spent'[t] = spent[t],
           Kept(t, team'[t]), Kept(t, seen'[t]), Kept(t, copy'[t]), Kept(t, applying'[t]),
           Fits(t)
    PROVE  Sounds(t)'
  BY DEF Sounds, Kept, Fits

(* What the user does leaves every record sound. *)
LEMMA UserSounds ==
    ASSUME Shape, NEW t \in Teams, Sounds(t), User(t)
    PROVE  Sounds(t)'
<1> USE DEF SameBooks, SameRest, SameLock, Freed
<1>1. /\ Kept(t, team[t]) /\ Kept(t, seen[t]) /\ Kept(t, copy[t]) /\ Kept(t, applying[t])
      /\ Kept(t, Configured(t)) /\ Kept(t, [Configured(t) EXCEPT !.state = "removed"])
  BY ConfiguredKept DEF Sounds
<1>2. ASSUME spent'[t] = spent[t], Kept(t, team'[t]),
             seen'[t] \in {seen[t], team[t], team'[t], Configured(t)},
             copy'[t] = copy[t], applying'[t] \in {applying[t], team[t], Configured(t)},
             Fits(t)
      PROVE  Sounds(t)'
  BY <1>1, <1>2, SoundsNext
<1>3. /\ holder[t].op = "start" => /\ seen[t].state = "running"
                                   /\ run[t].node \in Ready(seen[t])
      /\ run[t].pc \in {"save", "merging", "importing"} => copy[t].state = "merging"
  BY DEF Sounds
<1>4. Nobody.op = "none"
  BY DEF Nobody
<1>5. ASSUME run'[t] = run[t] \/ run'[t].pc \in {"none", "loop", "scan"},
             copy'[t] = copy[t],
             \/ /\ run'[t] = run[t]
                /\ holder'[t] = holder[t]
                /\ seen'[t] = seen[t] \/ holder[t].op # "start"
             \/ holder'[t].op # "start"
      PROVE  Fits(t)
  BY <1>3, <1>5 DEF Fits
<1> HIDE DEF SameBooks, SameRest, SameLock, Freed
<1>6. \A state \in {"preparing", "paused", "cancelled", "running"} :
         state \in TeamStates /\ state \notin Finished
  BY DEF TeamStates, Finished
<1>7. CASE Confirm(t)
  <2>1. Kept(t, To(team[t], "preparing"))
    BY <1>1, <1>6, OpsKept
  <2> QED
    BY <1>2, <1>5, <1>7, <2>1, ConfirmDoes DEF SameBooks, SameRest
<1>8. CASE CaptureBase(t)
  <2>1. Kept(t, [team[t] EXCEPT !.base = TRUE]) /\ Kept(t, To(team[t], "paused"))
    BY <1>1, <1>6, OpsKept
  <2> QED
    BY <1>1, <1>2, <1>4, <1>5, <1>8, <2>1, CaptureBaseDoes DEF SameBooks, SameRest, Freed
<1>9. CASE Allocate(t)
  <2>1. Kept(t, To(team[t], "running")) /\ Kept(t, To(team[t], "paused"))
    BY <1>1, <1>6, OpsKept
  <2>2. \A kept \in BOOLEAN : Kept(t, [To(team[t], "paused") EXCEPT !.base = kept])
    BY <2>1, OpsKept
  <2> QED
    BY <1>1, <1>2, <1>4, <1>5, <1>9, <2>1, <2>2, AllocateDoes DEF SameRest, Freed
<1>10. CASE Resume(t)
  <2>1. Kept(t, Resumed(team[t]))
    BY <1>1, OpsKept
  <2> QED
    BY <1>2, <1>4, <1>5, <1>10, <2>1, ResumeDoes DEF SameRest, SameLock
<1>11. CASE Cancel(t)
  <2>1. run[t].pc = "queued" => holder[t].op # "start"
    BY DEF Shape, Control
  <2> QED
    BY <1>1, <1>2, <1>5, <1>11, <2>1, CancelDoes DEF SameBooks, SameRest, SameLock
<1>12. CASE CancelRead(t)
  BY <1>1, <1>2, <1>5, <1>12, CancelReadDoes DEF SameBooks, SameRest
<1>13. CASE CancelSave(t)
  <2>1. ASSUME May(seen[t], "cancelled")
        PROVE  Kept(t, PauseRunning(To(seen[t], "cancelled")))
    <3> DEFINE r == To(seen[t], "cancelled")
    <3>1. "cancelled" \in TeamStates /\ "cancelled" \notin Finished
      BY <1>6
    <3>2. Kept(t, r) /\ r.state = "cancelled"
      <4>1. \A state \in TeamStates : (state \in Finished => AllCompleted(seen[t])) =>
               Kept(t, To(seen[t], state)) /\ To(seen[t], state).state = state
        <5>1. Kept(t, seen[t])
          BY <1>1
        <5> QED
          BY <5>1, OpsKept
      <4> QED
        BY <3>1, <4>1
    <3> HIDE DEF r
    <3>3. Kept(t, PauseRunning(r))
      BY <3>1, <3>2, OpsKept
    <3> QED
      BY <3>3 DEF r
  <2> QED
    BY <1>1, <1>2, <1>4, <1>5, <1>13, <2>1, CancelSaveDoes DEF SameBooks, SameRest, Freed
<1>14. CASE CancelClean(t)
  <2>1. Kept(t, [seen[t] EXCEPT !.base = FALSE])
    BY <1>1, OpsKept
  <2> QED
    BY <1>1, <1>2, <1>4, <1>5, <1>14, <2>1, CancelCleanDoes DEF SameBooks, SameRest, Freed
<1>15. CASE CancelReturn(t)
  BY <1>1, <1>2, <1>5, <1>15, CancelReturnDoes DEF SameBooks, SameRest, SameLock
<1>16. CASE Apply(t)
  BY <1>1, <1>2, <1>5, <1>16, ApplyDoes DEF SameBooks, SameLock
<1>17. CASE CompleteReview(t)
  <2>1. applying[t].state = "review"
    BY <1>17, CompleteReviewDoes
  <2>2. AllCompleted(applying[t])
    BY <1>1, <2>1 DEF Kept, Sound, Finished
  <2>3. Kept(t, To(applying[t], "completed"))
    BY <1>1, <2>2, OpsKept DEF TeamStates
  <2>4. Kept(t, [To(applying[t], "completed") EXCEPT !.base = FALSE])
    BY <2>3, OpsKept
  <2> QED
    BY <1>1, <1>2, <1>5, <1>17, <2>4, CompleteReviewDoes DEF SameBooks, SameLock
<1>18. CASE RemoveRun(t)
  BY <1>1, <1>2, <1>4, <1>5, <1>18, RemoveRunDoes DEF SameBooks, SameRest, SameLock
<1> QED
  BY <1>7, <1>8, <1>9, <1>10, <1>11, <1>12, <1>13, <1>14, <1>15, <1>16, <1>17, <1>18 DEF User

(* What the run loop does leaves every record sound. *)
LEMMA LoopSounds ==
    ASSUME Shape, NEW t \in Teams, Sounds(t), Loop(t)
    PROVE  Sounds(t)'
<1>1. /\ Kept(t, team[t]) /\ Kept(t, seen[t]) /\ Kept(t, copy[t]) /\ Kept(t, applying[t])
      /\ Kept(t, Configured(t))
  BY ConfiguredKept DEF Sounds
<1>2. /\ holder[t].op = "start" => /\ seen[t].state = "running"
                                   /\ run[t].node \in Ready(seen[t])
      /\ run[t].pc \in {"save", "merging", "importing"} => copy[t].state = "merging"
      /\ holder[t].op = "start" => run[t].pc = "starting"
  BY DEF Sounds, Shape, Control
<1>3. ASSUME SameBooks(t), SameLock(t), run[t].pc # "starting",
             Kept(t, team'[t]), Kept(t, copy'[t]), applying'[t] = applying[t],
             run'[t].pc \in {"save", "merging", "importing"} => copy'[t].state = "merging"
      PROVE  Sounds(t)'
  BY <1>1, <1>2, <1>3, SoundsNext DEF SameBooks, SameLock, Fits
<1>4. ASSUME copy[t].state = "merging", NEW state \in TeamStates
      PROVE  Kept(t, To(copy[t], state))
  <2>1. AllCompleted(copy[t])
    BY <1>1, <1>4 DEF Kept, Sound, Finished
  <2> QED
    BY <1>1, <2>1, OpsKept
<1>5. CASE Turn(t)
  BY <1>1, <1>3, <1>5, TurnDoes DEF SameRest
<1>6. CASE Scanned(t)
  BY <1>1, <1>3, <1>6, ScannedDoes DEF SameRest
<1>7. CASE StartCheck(t)
  <2>1. /\ spent'[t] = spent[t] /\ copy'[t] = copy[t] /\ applying'[t] = applying[t]
        /\ team'[t] = team[t] /\ holder[t] = Nobody /\ run[t].pc = "starting"
    BY <1>7, StartCheckDoes DEF SameBooks, SameRest
  <2>2. CASE /\ holder'[t].op = "start" /\ seen'[t] = team[t]
             /\ team[t].state = "running" /\ run[t].node \in Ready(team[t])
             /\ run'[t] = run[t]
    BY <1>1, <2>1, <2>2, SoundsNext DEF Fits
  <2>3. CASE run'[t].pc = "scan" /\ SameLock(t)
    BY <1>1, <2>1, <2>3, SoundsNext DEF Fits, SameLock, Nobody
  <2> QED
    BY <1>7, <2>2, <2>3, StartCheckDoes
<1>8. CASE StartSave(t)
  <2>1. /\ spent'[t] = spent[t] /\ copy'[t] = copy[t] /\ applying'[t] = applying[t]
        /\ holder'[t] = Nobody /\ seen'[t] = Configured(t) /\ holder[t].op = "start"
        /\ run'[t].pc \in {"scan", "caught"}
        /\ team'[t] = team[t] \/ team'[t] = StartNode(seen[t], run[t].node)
    BY <1>8, StartSaveDoes DEF SameBooks, SameRest, Freed
  <2>2. Kept(t, StartNode(seen[t], run[t].node))
    BY <1>1, <1>2, <2>1, OpsKept
  <2> QED
    BY <1>1, <2>1, <2>2, SoundsNext DEF Fits, Nobody
<1>9. CASE EndRead(t)
  BY <1>1, <1>3, <1>9, EndReadDoes
<1>10. CASE EndSave(t)
  <2>1. Kept(t, Pausing(copy[t])) /\ Kept(t, To(copy[t], "failed"))
    BY <1>1, OpsKept DEF TeamStates, Finished
  <2> QED
    BY <1>1, <1>3, <1>10, <2>1, EndSaveDoes
<1>11. CASE Caught(t)
  <2>1. Kept(t, Pausing(team[t]))
    BY <1>1, OpsKept
  <2> QED
    BY <1>1, <1>3, <1>11, <2>1, CaughtDoes DEF SameRest
<1>12. CASE MergeRead(t)
  <2>1. AllCompleted(team[t]) =>
           Kept(t, To(team[t], "merging")) /\ To(team[t], "merging").state = "merging"
    BY <1>1, OpsKept DEF TeamStates
  <2> QED
    BY <1>1, <1>3, <1>12, <2>1, MergeReadDoes
<1>13. CASE MergeSave(t)
  BY <1>1, <1>2, <1>3, <1>13, MergeSaveDoes
<1>14. CASE MergeDecided(t)
  <2>1. \A state \in {"conflict", "completed"} : Kept(t, To(copy[t], state))
    BY <1>2, <1>4, <1>14, MergeDecidedDoes DEF TeamStates
  <2> QED
    BY <1>1, <1>3, <1>14, <2>1, MergeDecidedDoes
<1>15. CASE MergeImport(t)
  BY <1>1, <1>2, <1>3, <1>15, MergeImportDoes DEF SameRest
<1>16. CASE MergeEnd(t)
  <2>1. \A state \in {"review", "paused"} : Kept(t, To(copy[t], state))
    BY <1>2, <1>4, <1>16, MergeEndDoes DEF TeamStates
  <2> QED
    BY <1>1, <1>3, <1>16, <2>1, MergeEndDoes
<1>17. ASSUME NEW n \in Plan(t), Consider(t, n)
       PROVE  Sounds(t)'
  BY <1>1, <1>3, <1>17, ConsiderDoes DEF SameRest
<1>18. ASSUME NEW n \in Plan(t), NoRoute(t, n)
       PROVE  Sounds(t)'
  <2>1. team[t].state = "running" /\ n \in Ready(team[t]) =>
           Kept(t, StartNode(team[t], n)) /\ Kept(t, FailNode(StartNode(team[t], n), n))
    BY <1>1, OpsKept
  <2> QED
    BY <1>1, <1>3, <1>18, <2>1, NoRouteDoes DEF SameRest
<1> QED
  BY <1>5, <1>6, <1>7, <1>8, <1>9, <1>10, <1>11, <1>12, <1>13, <1>14, <1>15, <1>16, <1>17,
     <1>18 DEF Loop

(* What a role does leaves every record sound. *)
LEMMA RoleSounds ==
    ASSUME Shape, NEW t \in Teams, Sounds(t), NEW a \in AgentsOf(t), Role(t, a)
    PROVE  Sounds(t)'
<1>1. /\ Kept(t, team[t]) /\ Kept(t, seen[t]) /\ Kept(t, copy[t]) /\ Kept(t, applying[t])
      /\ Kept(t, Configured(t))
  BY ConfiguredKept DEF Sounds
<1>2. /\ holder[t].op = "start" => /\ seen[t].state = "running"
                                   /\ run[t].node \in Ready(seen[t])
      /\ run[t].pc \in {"save", "merging", "importing"} => copy[t].state = "merging"
  BY DEF Sounds
<1>3. ASSUME SameBooks(t), SameRest(t), Kept(t, team'[t]),
             run'[t] = run[t] \/ run'[t].pc \in {"scan", "starting", "loop", "caught"},
             Freed(t) \/ (seen'[t] = team[t] /\ holder'[t].op \in RoleOps)
      PROVE  Sounds(t)'
  <2>1. Fits(t) /\ Kept(t, seen'[t])
    BY <1>1, <1>2, <1>3 DEF Fits, SameRest, Freed, Nobody, RoleOps
  <2> QED
    BY <1>1, <1>3, <2>1, SoundsNext DEF SameBooks, SameRest
<1>4. ASSUME NEW S \in SUBSET seen[t].reserved
      PROVE  Kept(t, Settle(seen[t], S))
  BY <1>1, OpsKept
<1>5. CASE Take(t, a)
  BY <1>1, <1>3, <1>5, TakeDoes
<1>6. CASE ReserveSave(t, a)
  <2>1. /\ SameRest(t) /\ Freed(t) /\ run'[t] = run[t]
        /\ \/ team'[t] = team[t] /\ spent'[t] = spent[t]
           \/ \E tokens \in Sizes :
                 /\ HasBudget(seen[t], tokens)
                 /\ team'[t] = Reserve(seen[t], [agent |-> a, tokens |-> tokens,
                                                 id |-> spent[t]])
                 /\ spent'[t] = spent[t] + tokens
    BY <1>6, ReserveSaveDoes
  <2>2. CASE team'[t] = team[t] /\ spent'[t] = spent[t]
    <3>1. Fits(t)
      BY <1>2, <2>1 DEF Fits, SameRest, Freed, Nobody
    <3> QED
      BY <1>1, <2>1, <2>2, <3>1, SoundsNext DEF SameRest, Freed
  <2>3. ASSUME NEW tokens \in Sizes, HasBudget(seen[t], tokens),
               team'[t] = Reserve(seen[t], [agent |-> a, tokens |-> tokens, id |-> spent[t]]),
               spent'[t] = spent[t] + tokens
        PROVE  Sounds(t)'
    <3> DEFINE q == [agent |-> a, tokens |-> tokens, id |-> spent[t]]
    <3>1. spent[t] \in Nat /\ tokens \in Nat /\ tokens > 0
      BY LimitAssumption DEF Shape, Control
    <3>2. a \in Plan(t) \X (1..MaxRuns)
      BY AgentShape
    <3>3. q \in Reservations(t) /\ q.id = spent[t] /\ q.tokens = tokens
      BY <3>1, <3>2 DEF Reservations
    <3>4. team'[t] = Reserve(seen[t], q)
      BY <2>3
    <3> HIDE DEF q
    <3>5. \A p \in seen[t].reserved : p.id \in Nat /\ p.id < spent[t]
      BY <1>1, RecordShape, ReservationShape DEF Kept, Sound
    <3>6. /\ Sound(t, team'[t])
          /\ team'[t].reserved = seen[t].reserved \cup {q}
      BY <1>1, <2>3, <3>1, <3>3, <3>4, <3>5, ReserveSound DEF Kept
    <3>7. spent'[t] > spent[t] /\ spent'[t] \in Nat
      BY <2>3, <3>1
    <3>8. \A p \in team'[t].reserved : p.id < spent'[t]
      BY <3>1, <3>3, <3>5, <3>6, <3>7
    <3>9. ASSUME NEW r, Kept(t, r)
          PROVE  Sound(t, r) /\ \A p \in r.reserved : p.id < spent'[t]
      <4>1. \A p \in r.reserved : p.id \in Nat /\ p.id < spent[t]
        BY <3>9, RecordShape, ReservationShape DEF Kept, Sound
      <4> QED
        BY <3>1, <3>7, <3>9, <4>1 DEF Kept
    <3>10. /\ Kept(t, seen'[t]) /\ Kept(t, copy'[t]) /\ Kept(t, applying'[t])
           /\ Fits(t)
      BY <1>1, <1>2, <2>1 DEF SameRest, Freed, Fits, Nobody
    <3> QED
      BY <3>6, <3>8, <3>9, <3>10 DEF Sounds, Kept, Fits
  <2> QED
    BY <2>1, <2>2, <2>3
<1>7. CASE SettleSave(t, a)
  BY <1>1, <1>3, <1>4, <1>7, SettleSaveDoes
<1>8. CASE RunnerEnds(a)
  <2>1. SameBooks(t) /\ SameRest(t) /\ SameLock(t) /\ run'[t] = run[t] /\ team'[t] = team[t]
    BY <1>8, RunnerEndsDoes
  <2> QED
    BY <1>1, <1>2, <2>1, SoundsNext DEF SameBooks, SameRest, SameLock, Fits
<1>9. CASE CloseSave(t, a)
  <2>1. Onward(t, a) => run'[t] = run[t] \/ run'[t].pc \in {"scan", "starting", "loop", "caught"}
    BY DEF Onward
  <2> QED
    BY <1>1, <1>3, <1>4, <1>9, <2>1, CloseSaveDoes
<1>10. CASE ReportSave(t, a)
  <2>1. Onward(t, a) => run'[t] = run[t] \/ run'[t].pc \in {"scan", "starting", "loop", "caught"}
    BY DEF Onward
  <2>2. a[1] \in Plan(t)
    BY AgentShape
  <2>3. Kept(t, Pausing(seen[t]))
    BY <1>1, OpsKept
  <2>4. seen[t].state = "running" /\ seen[t].node[a[1]] = "running" =>
           Kept(t, CompleteNode(seen[t], a[1])) /\ Kept(t, FailNode(seen[t], a[1]))
    BY <1>1, <2>2, OpsKept
  <2> QED
    BY <1>1, <1>3, <1>10, <2>1, <2>3, <2>4, ReportSaveDoes
<1> QED
  BY <1>5, <1>6, <1>7, <1>8, <1>9, <1>10 DEF Role

(* The records of the teams a step is not about. *)
LEMMA SoundsApart ==
    ASSUME Shape, NEW t \in Teams, Apart(t), Handed(t), NEW u \in Teams, u # t, Sounds(u)
    PROVE  Sounds(u)'
<1>1. /\ team'[u] = team[u] /\ seen'[u] = seen[u] /\ copy'[u] = copy[u]
      /\ applying'[u] = applying[u] /\ holder'[u] = holder[u] /\ spent'[u] = spent[u]
  BY DEF Apart
<1>2. holder[u].op = "start" => run[u].pc = "starting"
  BY DEF Shape, Control
<1>3. \/ run'[u] = run[u]
      \/ run[u].pc = "queued" /\ run'[u].pc = "starting"
  <2>1. run[u] \in RunsOf(u)
    BY DEF Shape, Control
  <2>2. [run[u] EXCEPT !.pc = "starting"].pc = "starting"
    BY <2>1, StartingRun
  <2> QED
    BY <2>2 DEF Handed
<1>4. /\ Kept(u, team'[u]) /\ Kept(u, seen'[u]) /\ Kept(u, copy'[u]) /\ Kept(u, applying'[u])
  BY <1>1 DEF Sounds
<1>5. Fits(u)
  BY <1>1, <1>2, <1>3 DEF Sounds, Fits
<1> QED
  BY <1>1, <1>4, <1>5, SoundsNext

-----------------------------------------------------------------------------
(* Both hold in every state. *)

SoundShape == Shape /\ \A t \in Teams : Sounds(t)

(* A step is one of a team, or a restart. *)
LEMMA StepsAre ==
    ASSUME Next
    PROVE  Restart \/ \E t \in Teams : Acts(t)
<1>1. ASSUME NEW a \in Agents, Role(TeamOf[a[1]], a)
      PROVE  \E t \in Teams : Acts(t)
  <2>1. a[1] \in Nodes /\ TeamOf[a[1]] \in Teams
    BY TeamOfAssumption DEF Agents
  <2>2. a \in AgentsOf(TeamOf[a[1]])
    BY DEF AgentsOf
  <2> QED
    BY <1>1, <2>1, <2>2 DEF Acts
<1>2. ASSUME NEW t \in Teams, User(t) \/ Loop(t)
      PROVE  \E u \in Teams : Acts(u)
  BY <1>2 DEF Acts
<1> QED
  BY <1>1, <1>2 DEF Next

(* Nothing is under way: the first state, and that after a restart.         *)
Rested(t) == /\ run[t] = Idle /\ stop[t] = "no" /\ holder[t] = Nobody
             /\ copy[t] = Configured(t) /\ seen[t] = Configured(t)
             /\ applying[t] = Configured(t)

AllRested == /\ Domains /\ \A t \in Teams : Rested(t)
             /\ agent = [a \in Agents |-> Off] /\ ctl = {} /\ aborted = {}
             /\ slots = 0 /\ queue = <<>>

Counted == /\ applied \subseteq Teams /\ failures \in Nat /\ crashes \in Nat
           /\ \A t \in Teams : /\ runs[t] \in 0..MaxRuns /\ spent[t] \in Nat
                               /\ Kept(t, team[t])

(* Where nothing is under way, everything is in shape. *)
LEMMA RestedSound == AllRested /\ Counted => SoundShape
<1> SUFFICES ASSUME AllRested, Counted PROVE SoundShape
  OBVIOUS
<1>1. Alive = {}
  BY DEF AllRested, Alive, Off
<1>2. Globals
  <2>1. /\ applied \subseteq Teams /\ failures \in Nat /\ crashes \in Nat
        /\ Off \in AgentStates
    BY DEF Counted, Off, AgentStates, Phases, Ends
  <2> QED
    BY <2>1 DEF AllRested, Globals
<1>3. Waiting(run, queue)
  BY DEF AllRested, Waiting
<1>4. \A t \in Teams : Idle \in RunsOf(t) /\ Nobody \in Holders(t)
  BY DEF Idle, RunsOf, RunStates, Nobody, Holders
<1>5. Idle.pc = "none" /\ Nobody.op = "none"
  BY DEF Idle, Nobody
<1>6. \A t \in Teams : Control(t)
  BY <1>1, <1>4, <1>5 DEF AllRested, Rested, Counted, Control, Loops, RoleOps
<1>7. \A t \in Teams : Sounds(t)
  BY <1>5, ConfiguredKept DEF AllRested, Rested, Counted, Sounds
<1>8. applied \subseteq Teams /\ failures \in Nat /\ crashes \in Nat
  BY DEF Counted
<1> QED
  BY <1>2, <1>3, <1>6, <1>7, <1>8 DEF AllRested, Shape, SoundShape

(* What a restart does to a record.                                         *)
LEMMA RestartDoes ==
    ASSUME SoundShape, Restart
    PROVE  /\ AllRested'
           /\ applied' = applied /\ failures' = failures /\ crashes' \in Nat
           /\ \A t \in Teams :
                /\ SameBooks(t)
                /\ \/ /\ team[t].state = "review"
                      /\ team'[t] = [To(team[t], "completed") EXCEPT !.base = FALSE]
                   \/ team'[t] = Recovered(team[t])
<1>1. /\ DOMAIN team' = Teams /\ DOMAIN copy' = Teams /\ DOMAIN seen' = Teams
      /\ DOMAIN applying' = Teams /\ DOMAIN run' = Teams /\ DOMAIN stop' = Teams
      /\ DOMAIN holder' = Teams /\ runs' = runs /\ spent' = spent
  BY Zenon DEF Restart
<1>2. Domains'
  BY <1>1 DEF SoundShape, Shape, Domains
<1>3. \A t \in Teams : Rested(t)'
  BY DEF Restart, Rested
<1>4. /\ agent' = [a \in Agents |-> Off] /\ ctl' = {} /\ aborted' = {}
      /\ slots' = 0 /\ queue' = <<>>
  BY DEF Restart
<1>5. applied' = applied /\ failures' = failures /\ crashes' \in Nat
  BY DEF Restart, SoundShape, Shape, Globals
<1>6. \A t \in Teams :
         \/ /\ team[t].state = "review"
            /\ team'[t] = [To(team[t], "completed") EXCEPT !.base = FALSE]
         \/ team'[t] = Recovered(team[t])
  BY DEF Restart
<1>7. AllRested'
  BY <1>2, <1>3, <1>4 DEF AllRested
<1> QED
  BY <1>1, <1>5, <1>6, <1>7 DEF SameBooks

(* A restart, with recoverActive for every team, leaves every record sound. *)
LEMMA RestartSound ==
    ASSUME SoundShape, Restart
    PROVE  SoundShape'
<1>1. ASSUME NEW t \in Teams
      PROVE  /\ Kept(t, team[t])
             /\ Kept(t, team'[t])
  <2>1. Kept(t, team[t])
    BY DEF SoundShape, Sounds
  <2>2. Kept(t, Recovered(team[t]))
    BY <2>1, OpsKept
  <2>3. ASSUME team[t].state = "review"
        PROVE  Kept(t, [To(team[t], "completed") EXCEPT !.base = FALSE])
    <3>1. AllCompleted(team[t])
      BY <2>1, <2>3 DEF Kept, Sound, Finished
    <3>2. Kept(t, To(team[t], "completed"))
      BY <2>1, <3>1, OpsKept DEF TeamStates
    <3> QED
      BY <3>2, OpsKept
  <2> QED
    BY <2>1, <2>2, <2>3, RestartDoes
<1>2. \A t \in Teams : runs'[t] \in 0..MaxRuns /\ spent'[t] \in Nat /\ spent'[t] = spent[t]
  BY RestartDoes DEF SameBooks, SoundShape, Shape, Control
<1>3. applied' \subseteq Teams /\ failures' \in Nat /\ crashes' \in Nat /\ AllRested'
  BY RestartDoes DEF SoundShape, Shape, Globals
<1>4. Counted'
  BY <1>1, <1>2, <1>3 DEF Counted, Kept
<1>5. AllRested' /\ Counted' => SoundShape'
  BY RestedSound, PTL
<1> QED
  BY <1>3, <1>4, <1>5

(* A step of one team keeps the shapes and the records of all. *)
LEMMA ActsSound ==
    ASSUME SoundShape, NEW t \in Teams, Acts(t)
    PROVE  SoundShape' /\ Apart(t) /\ Handed(t)
<1>1. Shape /\ Sounds(t) /\ Sound(t, team[t])
  BY DEF SoundShape, Sounds, Kept
<1>2. Shape' /\ Apart(t) /\ Handed(t)
  BY <1>1, ActsShape
<1>3. Sounds(t)'
  BY <1>1, UserSounds, LoopSounds, RoleSounds DEF Acts
<1>4. \A u \in Teams : Sounds(u)'
  BY <1>1, <1>2, <1>3, SoundsApart DEF SoundShape
<1> QED
  BY <1>2, <1>4 DEF SoundShape

(* So does a step that changes nothing. *)
LEMMA NothingSound ==
    ASSUME SoundShape, UNCHANGED vars
    PROVE  SoundShape'
<1>1. Shape'
  BY DEF SoundShape, Shape, Domains, Globals, Waiting, Control, Loops, Alive, vars
<1>2. \A t \in Teams : Sounds(t)'
  BY DEF SoundShape, Sounds, Kept, vars
<1> QED
  BY <1>1, <1>2 DEF SoundShape

(* At first nothing is under way. *)
LEMMA InitRested == Init => AllRested
  BY DEF Init, AllRested, Domains, Rested

(* The shapes and the records are right at first, ... *)
LEMMA InitSound == Init => SoundShape
<1> SUFFICES ASSUME Init PROVE SoundShape
  OBVIOUS
<1>1. /\ applied \subseteq Teams /\ failures \in Nat /\ crashes \in Nat
      /\ \A t \in Teams : /\ runs[t] \in 0..MaxRuns /\ spent[t] \in Nat
                          /\ team[t] = Configured(t)
  BY LimitAssumption DEF Init
<1>2. Counted
  BY <1>1, ConfiguredKept DEF Counted
<1> QED
  BY <1>2, InitRested, RestedSound

(* ... and after every step. *)
LEMMA NextSound == SoundShape /\ [Next]_vars => SoundShape'
  BY StepsAre, RestartSound, ActsSound, NothingSound

(* The shapes and the soundness of every record, always.                    *)
THEOREM AlwaysSound == Spec => []SoundShape
<1> QED
  BY InitSound, NextSound, PTL DEF Spec

(* teamGraph.ts: tasks start and finish after those they wait for, and are  *)
(* blocked only behind failed ones, over pauses, resumes, restarts and      *)
(* saves of older copies, for every set of plans.                           *)
THEOREM DependenciesAreRespected == Spec => []DependenciesRespected
<1>1. SoundShape => DependenciesRespected
  BY DEF SoundShape, Sounds, Kept, Sound, GraphOK, DependenciesRespected
<1> QED
  BY <1>1, AlwaysSound, PTL

-----------------------------------------------------------------------------
(* What the operations on a record do to its state and leave of its past.   *)

(* No operation on a record takes anything back. *)
LEMMA OpsFollow ==
    ASSUME NEW t \in Teams, NEW r, Sound(t, r)
    PROVE  /\ Follows(t, r, r)
           /\ \A state \in TeamStates :
                 Follows(t, r, To(r, state)) /\ To(r, state).state = state
           /\ \A base \in BOOLEAN : Follows(t, r, [r EXCEPT !.base = base])
                                    /\ [r EXCEPT !.base = base].state = r.state
           /\ \A state \in TeamStates, base \in BOOLEAN :
                 /\ Follows(t, r, [To(r, state) EXCEPT !.base = base])
                 /\ [To(r, state) EXCEPT !.base = base].state = state
           /\ Follows(t, r, Pausing(r)) /\ Pausing(r).state = "paused"
           /\ Follows(t, r, PauseRunning(To(r, "cancelled")))
           /\ PauseRunning(To(r, "cancelled")).state = "cancelled"
           /\ \A n \in Plan(t) : r.state = "running" /\ r.node[n] = "running" =>
                 /\ Follows(t, r, CompleteNode(r, n)) /\ CompleteNode(r, n).state = "running"
                 /\ Follows(t, r, FailNode(r, n)) /\ FailNode(r, n).state = "running"
           /\ r.state = "running" => \A n \in Ready(r) :
                 /\ Follows(t, r, StartNode(r, n)) /\ StartNode(r, n).state = "running"
                 /\ Follows(t, r, FailNode(StartNode(r, n), n))
                 /\ FailNode(StartNode(r, n), n).state = "running"
           /\ \A S \in SUBSET r.reserved : Follows(t, r, Settle(r, S))
                                           /\ Settle(r, S).state = r.state
<1>1. ASSUME NEW state \in TeamStates
      PROVE  /\ Follows(t, r, To(r, state)) /\ To(r, state).state = state
             /\ To(r, state) \in Records(t)
  <2> DEFINE s == To(r, state)
  <2>1. /\ s.handoffs = r.handoffs /\ s.used = r.used /\ s.reserved = r.reserved
        /\ s.node = r.node /\ s.state = state /\ s \in Records(t)
    BY DEF To, Sound, Records
  <2> HIDE DEF s
  <2>2. Follows(t, r, s)
    BY <2>1, SameFollows
  <2> QED
    BY <2>1, <2>2 DEF s
<1>2. ASSUME NEW base \in BOOLEAN
      PROVE  Follows(t, r, [r EXCEPT !.base = base]) /\ [r EXCEPT !.base = base].state = r.state
  <2> DEFINE s == [r EXCEPT !.base = base]
  <2>1. /\ s.handoffs = r.handoffs /\ s.used = r.used /\ s.reserved = r.reserved
        /\ s.node = r.node /\ s.state = r.state
    BY DEF Sound, Records
  <2> HIDE DEF s
  <2>2. Follows(t, r, s)
    BY <2>1, SameFollows
  <2> QED
    BY <2>1, <2>2 DEF s
<1>3. ASSUME NEW state \in TeamStates, NEW base \in BOOLEAN
      PROVE  /\ Follows(t, r, [To(r, state) EXCEPT !.base = base])
             /\ [To(r, state) EXCEPT !.base = base].state = state
  <2> DEFINE s == [To(r, state) EXCEPT !.base = base]
  <2>1. /\ s.handoffs = r.handoffs /\ s.used = r.used /\ s.reserved = r.reserved
        /\ s.node = r.node /\ s.state = state
    BY DEF To, Sound, Records
  <2> HIDE DEF s
  <2>2. Follows(t, r, s)
    BY <2>1, SameFollows
  <2> QED
    BY <2>1, <2>2 DEF s
<1>4. Follows(t, r, Pausing(r)) /\ Pausing(r).state = "paused"
  BY PausingSound
<1>5. /\ Follows(t, r, PauseRunning(To(r, "cancelled")))
      /\ PauseRunning(To(r, "cancelled")).state = "cancelled"
  <2> DEFINE s == To(r, "cancelled")
  <2>1. "cancelled" \in TeamStates /\ "cancelled" \notin Finished
    BY DEF TeamStates, Finished
  <2>2. Sound(t, s) /\ s.state = "cancelled" /\ Follows(t, r, s)
    BY <1>1, <2>1, ToSound
  <2> HIDE DEF s
  <2>3. Follows(t, s, PauseRunning(s)) /\ PauseRunning(s).state = "cancelled"
        /\ Sound(t, PauseRunning(s))
    BY <2>1, <2>2, PauseRunningSound
  <2>4. r.used \in Nat /\ s.used \in Nat /\ PauseRunning(s).used \in Nat
    BY <2>2, <2>3, RecordShape DEF Sound
  <2>5. Follows(t, r, PauseRunning(s))
    BY <2>2, <2>3, <2>4 DEF Follows
  <2> QED
    BY <2>3, <2>5 DEF s
<1>6. ASSUME NEW n \in Plan(t), r.state = "running", r.node[n] = "running"
      PROVE  /\ Follows(t, r, CompleteNode(r, n)) /\ CompleteNode(r, n).state = "running"
             /\ Follows(t, r, FailNode(r, n)) /\ FailNode(r, n).state = "running"
  BY <1>6, CompleteNodeSound, FailNodeSound
<1>7. ASSUME r.state = "running", NEW n \in Ready(r)
      PROVE  /\ Follows(t, r, StartNode(r, n)) /\ StartNode(r, n).state = "running"
             /\ Follows(t, r, FailNode(StartNode(r, n), n))
             /\ FailNode(StartNode(r, n), n).state = "running"
  <2> DEFINE s == StartNode(r, n)
  <2>1. /\ n \in Plan(t) /\ Sound(t, s) /\ Follows(t, r, s)
        /\ s.state = "running" /\ s.node[n] = "running"
    BY <1>7, StartNodeSound
  <2> HIDE DEF s
  <2>2. /\ Follows(t, s, FailNode(s, n)) /\ FailNode(s, n).state = "running"
        /\ Sound(t, FailNode(s, n))
    BY <2>1, FailNodeSound
  <2>3. r.used \in Nat /\ s.used \in Nat /\ FailNode(s, n).used \in Nat
    BY <2>1, <2>2, RecordShape DEF Sound
  <2>4. Follows(t, r, FailNode(s, n))
    BY <2>1, <2>2, <2>3 DEF Follows
  <2> QED
    BY <2>1, <2>2, <2>4 DEF s
<1>8. ASSUME NEW S \in SUBSET r.reserved
      PROVE  Follows(t, r, Settle(r, S)) /\ Settle(r, S).state = r.state
  BY SettleSound
<1>9. Follows(t, r, r)
  BY SameFollows
<1> QED
  BY <1>1, <1>2, <1>3, <1>4, <1>5, <1>6, <1>7, <1>8, <1>9

-----------------------------------------------------------------------------
(* A role of the current run that is at work has its task under way in      *)
(* every record that is still to be saved, so no task is started twice in a *)
(* run, and no role takes another's entry among the roles at work.          *)

Readers == {"cancel", "start"} \cup RoleOps
Read(t) == holder[t].op \in Readers
Copying(t) == run[t].pc \in {"failing", "pausing", "save", "merging", "importing"}

Begun(t, r) == \A n \in Plan(t) :
    <<n, runs[t]>> \in Alive /\ r.state # "removed" => r.node[n] # "pending"

Fresh(t) == /\ Begun(t, team[t])
            /\ Read(t) => Begun(t, seen[t])
            /\ Copying(t) => Begun(t, copy[t])

(* A record that follows one with these tasks under way has them under way, *)
(* unless it stands for a removed run.                                      *)
LEMMA BegunFollows ==
    ASSUME NEW t \in Teams, NEW r, NEW s, Begun(t, r), Follows(t, r, s),
           r.state = "removed" => s.state = "removed"
    PROVE  Begun(t, s)
  BY DEF Begun, Follows

(* A step that starts no role, and loses no task, keeps this. *)
LEMMA FreshNext ==
    ASSUME NEW t \in Teams, runs'[t] = runs[t],
           \A n \in Plan(t) : <<n, runs[t]>> \in Alive' => <<n, runs[t]>> \in Alive,
           Begun(t, team'[t]),
           holder'[t].op \in Readers => Begun(t, seen'[t]),
           run'[t].pc \in {"failing", "pausing", "save", "merging", "importing"} =>
              Begun(t, copy'[t])
    PROVE  Fresh(t)'
  BY DEF Fresh, Begun, Read, Copying

(* The first step of a run: none of its roles is at work.                   *)
LEMMA FreshRun ==
    ASSUME Shape, NEW t \in Teams, runs'[t] = runs[t] + 1, agent' = agent
    PROVE  Fresh(t)'
<1>1. runs[t] \in Nat
  BY LimitAssumption DEF Shape, Control
<1>2. ASSUME NEW n \in Plan(t), <<n, runs'[t]>> \in Alive'
      PROVE  FALSE
  <2>1. <<n, runs'[t]>> \in Alive /\ <<n, runs'[t]>> \in Agents
    BY <1>2 DEF Alive
  <2>2. <<n, runs'[t]>> \in AgentsOf(t)
    BY <2>1 DEF AgentsOf, Plan
  <2>3. \A a \in AgentsOf(t) : a \in Alive => a[2] <= runs[t]
    BY DEF Shape, Control
  <2>4. <<n, runs'[t]>>[2] <= runs[t]
    BY <2>1, <2>2, <2>3
  <2> QED
    BY <1>1, <2>4
<1> QED
  BY <1>2 DEF Fresh, Begun

-----------------------------------------------------------------------------
(* The order of things.  What the holder of the lock has read is never      *)
(* behind what is on disk, though what the run loop and completeReview have *)
(* read may be; a team in review has done every task, and nothing runs for  *)
(* it any more; only a team that has never run can still be started.        *)

Under(r, s) == \/ s.state = "removed"
               \/ r.handoffs \subseteq s.handoffs /\ r.used <= s.used

Ended(r) == r.state = "removed" \/ AllCompleted(r)

Over(t) == ~Loops(t) /\ runs[t] >= 1 /\ Ended(team[t]) /\ (Read(t) => Ended(seen[t]))

Early == {"configured", "preparing"}

InReview(t) == \/ team[t].state = "review"
               \/ Read(t) /\ seen[t].state = "review"
               \/ applying[t].state = "review"

FirstOnce(t) == /\ team[t].state \in Early => runs[t] = 0
                /\ Read(t) /\ seen[t].state \in Early => runs[t] = 0
                /\ Copying(t) => copy[t].state \notin Early
                /\ holder[t].op \in {"capture", "allocate"} => team[t].state = "preparing"

InOrder(t) == /\ Read(t) => /\ Under(team[t], seen[t])
                            /\ team[t].state = "cancelled" => seen[t].state = "cancelled"
              /\ Copying(t) => /\ Under(copy[t], team[t])
                               /\ Read(t) => Under(copy[t], seen[t])
              /\ applying[t].state = "review" => /\ Under(applying[t], team[t])
                                                 /\ Read(t) => Under(applying[t], seen[t])

Order(t) == /\ FirstOnce(t)
            /\ InReview(t) => Over(t)
            /\ InOrder(t)

(* A record that goes on from another.                                      *)
Grows(r, s) == /\ r.handoffs \subseteq s.handoffs
               /\ r.used <= s.used
               /\ r.state = "removed" => s.state = "removed"

(* A record that grows stays ahead of what it was ahead of. *)
LEMMA UnderGrows ==
    ASSUME NEW t \in Teams, NEW c, NEW r, NEW s, Sound(t, c), Sound(t, r), Sound(t, s),
           Under(c, r), Grows(r, s)
    PROVE  Under(c, s)
<1>1. c.used \in Nat /\ r.used \in Nat /\ s.used \in Nat
  BY RecordShape DEF Sound
<1> QED
  BY <1>1 DEF Under, Grows

(* Every record follows itself. *)
LEMMA UnderSame ==
    ASSUME NEW t \in Teams, NEW r, Sound(t, r)
    PROVE  Under(r, r) /\ Grows(r, r)
<1>1. r.used \in Nat
  BY RecordShape DEF Sound
<1> QED
  BY <1>1 DEF Under, Grows

(* A team that has done every task stays so in a record that follows. *)
LEMMA EndedUnder ==
    ASSUME NEW t \in Teams, NEW r, NEW s, Sound(t, r), Sound(t, s),
           \/ Ended(r) /\ Grows(r, s)
           \/ AllCompleted(r) /\ Under(r, s)
    PROVE  Ended(s)
<1>1. DOMAIN r.node = Plan(t) /\ DOMAIN s.node = Plan(t)
  BY RecordShape DEF Sound
<1>2. /\ \A n \in Plan(t) : r.node[n] = "completed" <=> n \in r.handoffs
      /\ \A n \in Plan(t) : s.node[n] = "completed" <=> n \in s.handoffs
  BY DEF Sound
<1> QED
  BY <1>1, <1>2 DEF Ended, Grows, Under, AllCompleted

(* Steps that save nothing: the lock is taken, kept or freed.               *)
LEMMA OrderQuiet ==
    ASSUME NEW t \in Teams, Sounds(t), Order(t),
           team'[t] = team[t], runs'[t] = runs[t], SameRest(t),
           Loops(t)' => Loops(t), Copying(t)' => Copying(t),
           \/ SameLock(t)
           \/ holder'[t].op \in Readers /\ seen'[t] = team[t]
           \/ holder'[t].op = "none"
    PROVE  Order(t)'
<1>1. Under(team[t], team[t])
  BY UnderSame DEF Sounds, Kept
<1>2. "none" \notin Readers /\ "capture" \notin Readers /\ "allocate" \notin Readers
  BY DEF Readers, RoleOps
<1>3. Read(t)' <=> holder'[t].op \in Readers
  BY DEF Read
<1>4. FirstOnce(t)'
  BY <1>2, <1>3 DEF Order, FirstOnce, SameRest, SameLock, Read
<1>5. InOrder(t)'
  BY <1>1, <1>2, <1>3 DEF Order, InOrder, SameRest, SameLock, Read
<1>6. InReview(t)' => InReview(t)
  BY <1>2, <1>3 DEF InReview, SameRest, SameLock, Read
<1>7. Over(t) => Over(t)'
  BY <1>2, <1>3 DEF Over, SameLock, Read
<1> QED
  BY <1>4, <1>5, <1>6, <1>7 DEF Order

(* The holder of the lock saves, and gives the lock back or goes on.        *)
LEMMA OrderSeen ==
    ASSUME NEW t \in Teams, Sounds(t), Order(t), Read(t), Sound(t, team'[t]),
           Grows(seen[t], team'[t]),
           team'[t].state = seen[t].state \/ team'[t].state \notin Early \cup {"review"},
           runs'[t] = runs[t], SameRest(t),
           Loops(t)' => Loops(t), Copying(t)' => Copying(t),
           \/ holder'[t].op = "none"
           \/ holder'[t].op \in Readers /\ seen'[t] = team'[t]
    PROVE  Order(t)'
<1>1. Under(team'[t], team'[t])
  BY UnderSame
<1>2. "none" \notin Readers /\ "capture" \notin Readers /\ "allocate" \notin Readers
  BY DEF Readers, RoleOps
<1>3. Read(t)' <=> holder'[t].op \in Readers
  BY DEF Read
<1>4. FirstOnce(t)'
  BY <1>2, <1>3 DEF Order, FirstOnce, SameRest
<1>5. /\ Sound(t, seen[t]) /\ Sound(t, copy[t]) /\ Sound(t, applying[t])
  BY DEF Sounds, Kept
<1>6. /\ Copying(t) => Under(copy[t], team'[t])
      /\ applying[t].state = "review" => Under(applying[t], team'[t])
  BY <1>5, UnderGrows DEF Order, InOrder
<1>7. InOrder(t)'
  BY <1>1, <1>3, <1>6, <1>2 DEF InOrder, SameRest
<1>8. InReview(t)' => InReview(t)
  BY <1>2, <1>3 DEF InReview, SameRest
<1>9. Over(t) => Over(t)'
  <2>1. ASSUME Ended(seen[t])
        PROVE  Ended(team'[t])
    BY <1>5, <2>1, EndedUnder
  <2> QED
    BY <1>2, <1>3, <2>1 DEF Over
<1> QED
  BY <1>4, <1>7, <1>8, <1>9 DEF Order

(* The run loop saves what became of the record it has read.                *)
LEMMA OrderCopy ==
    ASSUME Shape, NEW t \in Teams, Sounds(t), Order(t), Copying(t), Sound(t, team'[t]),
           team'[t].handoffs = copy[t].handoffs, team'[t].used = copy[t].used,
           team'[t].state \notin Early \cup {"cancelled"},
           team'[t].state = "review" => AllCompleted(copy[t]) /\ ~Loops(t)',
           SameBooks(t), SameLock(t), applying'[t] = applying[t],
           Copying(t)' => copy'[t] = copy[t] /\ copy[t].state \notin Early
    PROVE  Order(t)'
<1>1. Loops(t) /\ runs[t] >= 1 /\ runs'[t] >= 1
  BY DEF Copying, Loops, Shape, Control, SameBooks
<1>2. ~InReview(t)
  BY <1>1 DEF Order, Over
<1>3. holder[t].op \notin {"capture", "allocate"}
  BY <1>1 DEF Shape, Control, Loops
<1>4. Sound(t, copy[t]) /\ Sound(t, seen[t])
  BY DEF Sounds, Kept
<1>5. Read(t)' <=> Read(t)
  BY DEF Read, SameLock
<1>6. Read(t) => Under(copy[t], seen[t])
  BY DEF Order, InOrder
<1>7. Read(t) => Under(team'[t], seen[t])
  BY <1>6 DEF Under
<1>8. Under(copy[t], team'[t])
  <2>1. copy[t].used \in Nat
    BY <1>4, RecordShape DEF Sound
  <2> QED
    BY <2>1 DEF Under
<1>9. FirstOnce(t)'
  BY <1>1, <1>3, <1>5 DEF Order, FirstOnce, SameLock, SameBooks
<1>10. InOrder(t)'
  BY <1>2, <1>5, <1>6, <1>7, <1>8 DEF InOrder, InReview, SameLock
<1>11. InReview(t)' => team'[t].state = "review"
  BY <1>2, <1>5 DEF InReview, SameLock
<1>12. ASSUME team'[t].state = "review"
       PROVE  Over(t)'
  <2>1. AllCompleted(copy[t]) /\ ~Loops(t)'
    BY <1>12
  <2>2. Ended(team'[t])
    BY <1>4, <1>8, <2>1, EndedUnder
  <2>3. Read(t) => Ended(seen[t])
    BY <1>4, <1>6, <2>1, EndedUnder
  <2> QED
    BY <1>1, <1>5, <2>1, <2>2, <2>3 DEF Over, SameLock
<1> QED
  BY <1>9, <1>10, <1>11, <1>12 DEF Order

(* Only what is kept, and only while nobody holds the lock.                 *)
LEMMA OrderFree ==
    ASSUME Shape, NEW t \in Teams, Sounds(t), Order(t), holder[t] = Nobody,
           Sound(t, team'[t]),
           ~InReview(t), team'[t].state \notin Early \cup {"review"},
           SameRest(t), SameLock(t), ~Copying(t)'
    PROVE  Order(t)'
<1>1. ~Read(t)' /\ holder'[t].op \notin {"capture", "allocate"}
  BY DEF Read, Readers, RoleOps, SameLock, Nobody
<1>2. FirstOnce(t)'
  BY <1>1 DEF FirstOnce
<1>3. InOrder(t)' /\ ~InReview(t)'
  BY <1>1 DEF InOrder, InReview, SameRest
<1> QED
  BY <1>2, <1>3 DEF Order

(* The user keeps the order: nothing can be started or removed under a lock. *)
LEMMA UserOrder ==
    ASSUME Shape, NEW t \in Teams, Sounds(t), Order(t), User(t), Shape', Sounds(t)'
    PROVE  Order(t)'
<1>1. /\ Sound(t, team[t]) /\ Sound(t, seen[t]) /\ Sound(t, applying[t])
      /\ Sound(t, team'[t])
  BY DEF Sounds, Kept
<1>2. /\ "none" \notin Readers /\ "capture" \notin Readers /\ "allocate" \notin Readers
      /\ "cancel" \in Readers /\ Nobody.op = "none"
  BY DEF Readers, RoleOps, Nobody
<1>3. \A state \in {"preparing", "paused", "cancelled", "running", "completed"} :
         state \in TeamStates /\ state # "removed" /\ state # "review"
  BY DEF TeamStates
<1>4. runs[t] \in Nat
  BY LimitAssumption DEF Shape, Control
<1>5. ASSUME runs[t] = 0
      PROVE  ~InReview(t)
  BY <1>5 DEF Order, Over
<1>6. ASSUME \/ run'[t] = run[t]
             \/ run'[t].pc = "scan" /\ run[t].pc = "queued"
      PROVE  /\ Loops(t)' => Loops(t)
             /\ Copying(t)' => Copying(t)
  BY <1>6 DEF Loops, Copying
<1>7. ASSUME holder[t].op \in {"capture", "allocate"}
      PROVE  /\ runs[t] = 0 /\ team[t].state = "preparing" /\ ~InReview(t)
             /\ run[t].pc = "none" /\ ~Copying(t) /\ ~Loops(t)
  BY <1>5, <1>7 DEF Order, FirstOnce, Early, Shape, Control, Copying, Loops
<1>8. CASE Confirm(t)
  <2>1. /\ runs[t] = 0 /\ ~Read(t)' /\ ~Copying(t)' /\ team'[t].state = "preparing"
        /\ runs'[t] = runs[t] /\ SameRest(t)
    <3>1. /\ team[t].state = "configured" /\ run'[t].pc = "none" /\ holder'[t].op = "capture"
          /\ team'[t] = To(team[t], "preparing") /\ runs'[t] = runs[t] /\ SameRest(t)
      BY <1>8, ConfirmDoes DEF SameBooks
    <3>2. runs[t] = 0
      BY <3>1 DEF Order, FirstOnce, Early
    <3>3. To(team[t], "preparing").state = "preparing"
      BY <1>1, <1>3, OpsFollow
    <3> QED
      BY <1>2, <3>1, <3>2, <3>3 DEF Read, Copying
  <2>2. ~InReview(t)
    BY <1>5, <2>1
  <2>3. FirstOnce(t)'
    BY <2>1 DEF FirstOnce
  <2>4. ~InReview(t)'
    BY <2>1, <2>2 DEF InReview, SameRest
  <2>5. InOrder(t)'
    BY <2>1, <2>4 DEF InOrder, InReview
  <2> QED
    BY <2>3, <2>4, <2>5 DEF Order
<1>9. CASE CaptureBase(t)
  <2>1. /\ runs[t] = 0 /\ runs'[t] = runs[t] /\ ~Copying(t)' /\ SameRest(t) /\ ~Read(t)'
        /\ ~InReview(t) /\ team[t].state = "preparing"
        /\ run'[t] = run[t]
    BY <1>2, <1>7, <1>9, CaptureBaseDoes DEF SameBooks, Copying, Read, Freed
  <2>2. /\ [team[t] EXCEPT !.base = TRUE].state = team[t].state
        /\ To(team[t], "paused").state = "paused"
    BY <1>1, <1>3, OpsFollow
  <2>3. /\ team'[t].state \in {"preparing", "paused"}
        /\ holder'[t].op = "allocate" => team'[t].state = "preparing"
        /\ holder'[t].op # "capture"
    BY <1>2, <1>9, <2>1, <2>2, CaptureBaseDoes DEF Freed
  <2>4. FirstOnce(t)'
    BY <2>1, <2>3 DEF FirstOnce
  <2>5. ~InReview(t)'
    BY <2>1, <2>3 DEF InReview, SameRest
  <2>6. InOrder(t)'
    BY <2>1, <2>5 DEF InOrder, InReview
  <2> QED
    BY <2>4, <2>5, <2>6 DEF Order
<1>10. CASE Allocate(t)
  <2>1. /\ runs[t] = 0 /\ ~Copying(t)' /\ SameRest(t) /\ ~Read(t)'
        /\ ~InReview(t) /\ team[t].state = "preparing"
        /\ holder'[t].op = "none"
    BY <1>2, <1>7, <1>10, AllocateDoes DEF Copying, Read, Freed
  <2>2. /\ To(team[t], "running").state = "running"
        /\ \A kept \in BOOLEAN : [To(team[t], "paused") EXCEPT !.base = kept].state = "paused"
    BY <1>1, <1>3, OpsFollow
  <2>3. \/ team'[t].state \in {"running", "paused"}
        \/ team'[t].state = "preparing" /\ runs'[t] = runs[t]
    <3>1. CASE team'[t] = To(team[t], "running")
      BY <2>2, <3>1
    <3>2. CASE team'[t] = team[t] /\ runs'[t] = runs[t]
      BY <2>1, <3>2
    <3>3. ASSUME NEW kept \in BOOLEAN, team'[t] = [To(team[t], "paused") EXCEPT !.base = kept]
          PROVE  team'[t].state = "paused"
      BY <2>2, <3>3
    <3> QED
      BY <1>10, <3>1, <3>2, <3>3, AllocateDoes
  <2>4. FirstOnce(t)'
    BY <2>1, <2>3 DEF FirstOnce, Early
  <2>5. ~InReview(t)'
    BY <2>1, <2>3 DEF InReview, SameRest
  <2>6. InOrder(t)'
    BY <2>1, <2>5 DEF InOrder, InReview
  <2> QED
    BY <2>4, <2>5, <2>6 DEF Order
<1>11. CASE Resume(t)
  <2>1. /\ SameRest(t) /\ SameLock(t) /\ run'[t].pc = "loop" /\ holder[t] = Nobody
        /\ runs'[t] = runs[t] + 1 /\ CanResume(team[t]) /\ team'[t] = Resumed(team[t])
    BY <1>11, ResumeDoes
  <2>2. ~AllCompleted(team[t])
    <3>1. SUFFICES ASSUME AllCompleted(team[t]) PROVE FALSE
      OBVIOUS
    <3>2. \A m \in Plan(t) : ResumePaused(team[t]).node[m] = "completed"
      BY <1>1, <3>1, ResumedSound, RecordShape DEF AllCompleted, Sound
    <3>3. DOMAIN ResumePaused(team[t]).node = Plan(t)
      BY <1>1, RecordShape DEF ResumePaused, Sound, Records
    <3>4. AllCompleted(ResumePaused(team[t]))
      BY <3>2, <3>3 DEF AllCompleted
    <3>5. \A r : AllCompleted(r) => GraphState(r) = "completed"
      <4>1. SUFFICES ASSUME NEW r, AllCompleted(r) PROVE GraphState(r) = "completed"
        OBVIOUS
      <4>2. Ready(r) = {} /\ ~ \E n \in DOMAIN r.node : r.node[n] \in {"running", "paused"}
        BY <4>1 DEF AllCompleted, Ready
      <4> QED
        BY <4>1, <4>2, Zenon DEF GraphState
    <3> QED
      BY <2>1, <3>4, <3>5 DEF CanResume
  <2>3. ~InReview(t)
    BY <2>1, <2>2 DEF Order, Over, Ended, CanResume
  <2>4. team'[t].state = "running" /\ ~Copying(t)'
    BY <1>1, <2>1, ResumedSound DEF Copying
  <2> QED
    BY <1>1, <1>4, <2>1, <2>3, <2>4, OrderFree DEF Early
<1>12. CASE Cancel(t)
  <2>1. /\ runs'[t] = runs[t] /\ SameLock(t) /\ SameRest(t) /\ team'[t] = team[t]
        /\ \/ run'[t] = run[t]
           \/ run'[t].pc = "scan" /\ run[t].pc = "queued"
    BY <1>12, CancelDoes DEF SameBooks
  <2>2. (Loops(t)' => Loops(t)) /\ (Copying(t)' => Copying(t))
    BY <1>6, <2>1
  <2> QED
    BY <2>1, <2>2, OrderQuiet
<1>13. CASE CancelRead(t)
  <2>1. /\ runs'[t] = runs[t] /\ SameRest(t) /\ team'[t] = team[t] /\ run'[t] = run[t]
        /\ holder'[t].op \in Readers /\ seen'[t] = team[t]
    BY <1>2, <1>13, CancelReadDoes DEF SameBooks
  <2>2. (Loops(t)' => Loops(t)) /\ (Copying(t)' => Copying(t))
    BY <1>6, <2>1
  <2> QED
    BY <2>1, <2>2, OrderQuiet
<1>14. CASE CancelSave(t)
  <2>1. /\ runs'[t] = runs[t] /\ SameRest(t) /\ run'[t] = run[t] /\ holder[t].op = "cancel"
        /\ Read(t)
    BY <1>2, <1>14, CancelSaveDoes DEF SameBooks, Read
  <2>0. (Loops(t)' => Loops(t)) /\ (Copying(t)' => Copying(t))
    BY <1>6, <2>1
  <2>2. CASE /\ May(seen[t], "cancelled")
             /\ team'[t] = PauseRunning(To(seen[t], "cancelled"))
             /\ seen'[t] = team'[t] /\ holder'[t] = holder[t]
    <3>1. seen[t].state # "removed"
      BY <2>2 DEF May, Transitions
    <3>2. Follows(t, seen[t], team'[t]) /\ team'[t].state = "cancelled"
      BY <1>1, <2>2, OpsFollow
    <3>3. Grows(seen[t], team'[t])
      BY <3>1, <3>2 DEF Follows, Grows
    <3> QED
      BY <1>1, <1>2, <2>0, <2>1, <2>2, <3>2, <3>3, OrderSeen DEF Early
  <2>3. CASE team'[t] = team[t] /\ Freed(t)
    BY <1>2, <2>0, <2>1, <2>3, OrderQuiet DEF Freed
  <2> QED
    BY <1>14, <2>2, <2>3, CancelSaveDoes
<1>15. CASE CancelClean(t)
  <2>1. /\ runs'[t] = runs[t] /\ SameRest(t) /\ run'[t] = run[t] /\ holder'[t].op = "none"
        /\ Read(t)
    BY <1>2, <1>15, CancelCleanDoes DEF SameBooks, Read, Freed
  <2>0. (Loops(t)' => Loops(t)) /\ (Copying(t)' => Copying(t))
    BY <1>6, <2>1
  <2>2. CASE team'[t] = [seen[t] EXCEPT !.base = FALSE]
    <3>0. \A base \in BOOLEAN : /\ Follows(t, seen[t], [seen[t] EXCEPT !.base = base])
                               /\ [seen[t] EXCEPT !.base = base].state = seen[t].state
      BY <1>1, OpsFollow
    <3>1. Follows(t, seen[t], team'[t]) /\ team'[t].state = seen[t].state
      BY <2>2, <3>0
    <3>2. Grows(seen[t], team'[t])
      BY <3>1 DEF Follows, Grows
    <3> QED
      BY <1>1, <2>0, <2>1, <3>1, <3>2, OrderSeen
  <2>3. CASE team'[t] = team[t]
    BY <2>0, <2>1, <2>3, OrderQuiet
  <2> QED
    BY <1>15, <2>2, <2>3, CancelCleanDoes
<1>16. CASE CancelReturn(t)
  <2>1. /\ runs'[t] = runs[t] /\ SameLock(t) /\ SameRest(t) /\ team'[t] = team[t]
        /\ run'[t] = run[t]
    BY <1>16, CancelReturnDoes DEF SameBooks
  <2>2. (Loops(t)' => Loops(t)) /\ (Copying(t)' => Copying(t))
    BY <1>6, <2>1
  <2> QED
    BY <2>1, <2>2, OrderQuiet
<1>17. CASE Apply(t)
  <2>1. /\ runs'[t] = runs[t] /\ SameLock(t) /\ copy'[t] = copy[t] /\ run'[t] = run[t]
        /\ team'[t] = team[t] /\ team[t].state = "review" /\ applying'[t] = team[t]
    BY <1>17, ApplyDoes DEF SameBooks
  <2>2. Over(t) /\ ~Copying(t)
    BY <2>1 DEF Order, InReview, Over, Loops, Copying
  <2>3. Under(team[t], team[t])
    BY <1>1, UnderSame
  <2>4. Over(t)'
    BY <2>1, <2>2 DEF Over, Loops, Read, SameLock
  <2>5. FirstOnce(t)'
    BY <2>1 DEF Order, FirstOnce, Read, Copying, SameLock
  <2>6. InOrder(t)'
    BY <2>1, <2>2, <2>3 DEF Order, InOrder, Read, Copying, SameLock
  <2> QED
    BY <2>4, <2>5, <2>6 DEF Order
<1>18. CASE CompleteReview(t)
  <2>1. /\ runs'[t] = runs[t] /\ SameLock(t) /\ copy'[t] = copy[t] /\ run'[t] = run[t]
        /\ applying[t].state = "review" /\ applying'[t] = Configured(t)
    BY <1>18, CompleteReviewDoes DEF SameBooks
  <2>2. Over(t) /\ ~Copying(t)'
    BY <2>1 DEF Order, InReview, Over, Loops, Copying
  <2>3. AllCompleted(applying[t])
    BY <1>1, <2>1 DEF Sound, Finished
  <2>4. Configured(t).state = "configured"
    BY ConfiguredKept
  <2>5. holder[t].op \notin {"capture", "allocate"}
    BY <1>7, <2>1 DEF InReview
  <2>6. CASE team'[t] = team[t]
    <3>1. Over(t)'
      BY <2>1, <2>2, <2>6 DEF Over, Loops, Read, SameLock
    <3>2. FirstOnce(t)'
      BY <2>1, <2>6, <2>2 DEF Order, FirstOnce, Read, SameLock
    <3>3. InOrder(t)'
      BY <2>1, <2>2, <2>4, <2>6 DEF Order, InOrder, Read, SameLock
    <3> QED
      BY <3>1, <3>2, <3>3 DEF Order
  <2>7. CASE team'[t] = [To(applying[t], "completed") EXCEPT !.base = FALSE]
    <3>1. /\ team'[t].state = "completed"
          /\ Follows(t, applying[t], team'[t])
      <4>1. \A state \in TeamStates, base \in BOOLEAN :
               /\ Follows(t, applying[t], [To(applying[t], state) EXCEPT !.base = base])
               /\ [To(applying[t], state) EXCEPT !.base = base].state = state
        BY <1>1, OpsFollow
      <4> QED
        BY <1>3, <2>7, <4>1
    <3>2. team'[t].handoffs = applying[t].handoffs /\ team'[t].used = applying[t].used
      BY <1>1, <2>7 DEF To, Sound, Records
    <3>3. Grows(applying[t], team'[t])
      BY <2>1, <3>1 DEF Follows, Grows
    <3>4. Ended(team'[t])
      BY <1>1, <2>3, <3>3, EndedUnder DEF Ended
    <3>5. Over(t)'
      BY <2>1, <2>2, <3>4 DEF Over, Loops, Read, SameLock
    <3>6. FirstOnce(t)'
      BY <2>1, <2>2, <2>5, <3>1 DEF Order, FirstOnce, Read, SameLock, Early
    <3>7. Read(t) => Under(applying[t], seen[t])
      BY <2>1 DEF Order, InOrder
    <3>8. Read(t) => Under(team'[t], seen[t])
      BY <3>2, <3>7 DEF Under
    <3>9. InOrder(t)'
      BY <2>1, <2>2, <2>4, <3>1, <3>8 DEF InOrder, Read, SameLock
    <3> QED
      BY <3>5, <3>6, <3>9 DEF Order
  <2> QED
    BY <1>18, <2>6, <2>7, CompleteReviewDoes
<1>19. CASE RemoveRun(t)
  <2>1. /\ runs'[t] = runs[t] /\ SameLock(t) /\ SameRest(t) /\ holder[t] = Nobody
        /\ run'[t].pc = "none" /\ run[t].pc \in {"none", "done"}
        /\ team'[t] = [Configured(t) EXCEPT !.state = "removed"]
    BY <1>19, RemoveRunDoes DEF SameBooks
  <2>2. team'[t].state = "removed"
    BY <2>1 DEF Configured
  <2>3. ~Read(t)' /\ ~Copying(t)' /\ ~Loops(t)' /\ holder'[t].op = "none"
    BY <1>2, <2>1 DEF Read, Copying, Loops, SameLock
  <2>4. FirstOnce(t)'
    BY <2>2, <2>3 DEF FirstOnce, Early
  <2>5. InOrder(t)'
    BY <2>2, <2>3 DEF InOrder, Under
  <2>6. InReview(t)' => Over(t)'
    BY <2>1, <2>2, <2>3 DEF InReview, Over, Ended, Order, SameRest
  <2> QED
    BY <2>4, <2>5, <2>6 DEF Order
<1> QED
  BY <1>8, <1>9, <1>10, <1>11, <1>12, <1>13, <1>14, <1>15, <1>16, <1>17, <1>18, <1>19 DEF User

(* What pausing leaves of the ledger. *)
LEMMA PausingPast ==
    ASSUME NEW t \in Teams, NEW r, Sound(t, r)
    PROVE  /\ Pausing(r).handoffs = r.handoffs /\ Pausing(r).used = r.used
           /\ \A state \in TeamStates : /\ To(r, state).handoffs = r.handoffs
                                        /\ To(r, state).used = r.used
                                        /\ To(r, state).state = state
  BY DEF Pausing, PauseRunning, To, Sound, Records

(* The run loop keeps it: what it saves without the lock puts nobody ahead. *)
LEMMA LoopOrder ==
    ASSUME Shape, NEW t \in Teams, Sounds(t), Order(t), Loop(t), Shape', Sounds(t)'
    PROVE  Order(t)'
<1>1. /\ Sound(t, team[t]) /\ Sound(t, seen[t]) /\ Sound(t, copy[t])
      /\ Sound(t, team'[t])
  BY DEF Sounds, Kept
<1>2. /\ "none" \notin Readers /\ "capture" \notin Readers /\ "allocate" \notin Readers
      /\ "start" \in Readers /\ Nobody.op = "none"
  BY DEF Readers, RoleOps, Nobody
<1>3. \A state \in {"paused", "failed", "review", "conflict", "completed", "merging"} :
         state \in TeamStates /\ state \notin Early \cup {"cancelled"}
  BY DEF TeamStates, Early
<1>4. ASSUME Loops(t)
      PROVE  /\ runs[t] >= 1 /\ ~InReview(t) /\ holder[t].op \notin {"capture", "allocate"}
             /\ team[t].state \notin Early
  <2>1. runs[t] >= 1 /\ holder[t].op \notin {"capture", "allocate"}
    BY <1>4 DEF Shape, Control, Loops
  <2> QED
    BY <1>4, <2>1 DEF Order, Over, FirstOnce
<1>5. \A pc \in {"loop", "scan", "queued", "starting", "waiting", "merge", "fail", "pause",
                 "caught", "done"} :
         pc \notin {"failing", "pausing", "save", "merging", "importing"}
  OBVIOUS
<1>6. ASSUME NEW from, from \notin {"none", "done"}, run[t].pc = from
      PROVE  Loops(t)
  BY <1>6 DEF Loops
<1>7. ASSUME run'[t].pc \in {"loop", "scan", "queued", "starting", "waiting", "merge", "fail",
                             "pause", "caught", "done"}
      PROVE  ~Copying(t)'
  BY <1>7 DEF Copying
<1>8. CASE Turn(t)
  <2>1. /\ runs'[t] = runs[t] /\ SameRest(t) /\ SameLock(t) /\ team'[t] = team[t]
        /\ Loops(t) /\ ~Copying(t)'
    BY <1>6, <1>7, <1>8, TurnDoes DEF SameBooks
  <2> QED
    BY <2>1, OrderQuiet
<1>9. CASE Scanned(t)
  <2>1. /\ runs'[t] = runs[t] /\ SameRest(t) /\ SameLock(t) /\ team'[t] = team[t]
        /\ Loops(t) /\ ~Copying(t)'
    BY <1>6, <1>7, <1>9, ScannedDoes DEF SameBooks
  <2> QED
    BY <2>1, OrderQuiet
<1>10. CASE StartCheck(t)
  <2>1. /\ runs'[t] = runs[t] /\ SameRest(t) /\ team'[t] = team[t]
        /\ Loops(t) /\ ~Copying(t)'
        /\ \/ SameLock(t)
           \/ holder'[t].op \in Readers /\ seen'[t] = team[t]
    BY <1>2, <1>6, <1>7, <1>10, StartCheckDoes DEF SameBooks
  <2> QED
    BY <2>1, OrderQuiet
<1>11. CASE StartSave(t)
  <2>1. /\ runs'[t] = runs[t] /\ SameRest(t) /\ Loops(t) /\ ~Copying(t)' /\ Read(t)
        /\ holder'[t].op = "none"
        /\ team'[t] = team[t] \/ team'[t] = StartNode(seen[t], run[t].node)
    BY <1>2, <1>6, <1>7, <1>11, StartSaveDoes DEF SameBooks, Freed, Read
  <2>2. CASE team'[t] = team[t]
    BY <2>1, <2>2, OrderQuiet
  <2>3. CASE team'[t] = StartNode(seen[t], run[t].node)
    <3>1. seen[t].state = "running" /\ run[t].node \in Ready(seen[t])
      BY <1>11, StartSaveDoes DEF Sounds
    <3>2. Follows(t, seen[t], team'[t]) /\ team'[t].state = "running"
      BY <1>1, <2>3, <3>1, OpsFollow
    <3>3. Grows(seen[t], team'[t])
      BY <3>1, <3>2 DEF Follows, Grows
    <3> QED
      BY <1>1, <2>1, <3>1, <3>2, <3>3, OrderSeen
  <2> QED
    BY <2>1, <2>2, <2>3
<1>12. ASSUME SameBooks(t), SameLock(t), team'[t] = team[t], applying'[t] = applying[t],
              Loops(t), copy'[t].handoffs = team[t].handoffs, copy'[t].used = team[t].used,
              copy'[t].state \notin Early
       PROVE  Order(t)'
  <2>1. Under(team[t], team[t])
    BY <1>1, UnderSame
  <2>2. Read(t) => Under(team[t], seen[t])
    BY DEF Order, InOrder
  <2>3. /\ Under(copy'[t], team[t])
        /\ Read(t) => Under(copy'[t], seen[t])
    BY <1>12, <2>1, <2>2 DEF Under
  <2>4. FirstOnce(t)'
    BY <1>12 DEF Order, FirstOnce, SameBooks, SameLock, Read
  <2>5. ~InReview(t)'
    BY <1>4, <1>12 DEF InReview, SameLock, Read
  <2>6. InOrder(t)'
    BY <1>12, <2>3 DEF Order, InOrder, SameLock, Read
  <2> QED
    BY <2>4, <2>5, <2>6 DEF Order
<1>13. CASE EndRead(t)
  <2>1. /\ SameBooks(t) /\ SameLock(t) /\ team'[t] = team[t] /\ applying'[t] = applying[t]
        /\ Loops(t) /\ copy'[t] = team[t]
    BY <1>6, <1>13, EndReadDoes
  <2> QED
    BY <1>4, <1>12, <2>1
<1>14. CASE MergeRead(t)
  <2>1. /\ SameBooks(t) /\ SameLock(t) /\ team'[t] = team[t] /\ applying'[t] = applying[t]
        /\ Loops(t)
    BY <1>6, <1>14, MergeReadDoes
  <2>2. CASE copy'[t] = To(team[t], "merging")
    BY <1>1, <1>3, <1>12, <2>1, <2>2, PausingPast
  <2>3. CASE run'[t].pc = "caught" /\ copy'[t] = copy[t]
    BY <1>7, <2>1, <2>3, OrderQuiet DEF SameBooks, SameRest
  <2> QED
    BY <1>14, <2>2, <2>3, MergeReadDoes
(* The saves without the lock. *)
<1>15. ASSUME Copying(t), SameBooks(t), SameLock(t), applying'[t] = applying[t],
              Copying(t)' => copy'[t] = copy[t], copy[t].state \notin Early \cup {"review"},
              \/ team'[t] = team[t]
              \/ team'[t] = copy[t] /\ copy[t].state \notin {"cancelled"}
              \/ team'[t] = Pausing(copy[t])
              \/ \E state \in {"paused", "failed", "conflict", "completed"} :
                    team'[t] = To(copy[t], state)
              \/ /\ team'[t] = To(copy[t], "review") /\ run'[t].pc = "done"
                 /\ copy[t].state = "merging"
       PROVE  Order(t)'
  <2>1. Loops(t)
    BY <1>15 DEF Copying, Loops
  <2>2. ASSUME team'[t].handoffs = copy[t].handoffs, team'[t].used = copy[t].used,
               team'[t].state \notin Early \cup {"cancelled"},
               team'[t].state = "review" => AllCompleted(copy[t]) /\ ~Loops(t)'
        PROVE  Order(t)'
    BY <1>1, <1>15, <2>2, OrderCopy
  <2>3. CASE team'[t] = team[t]
    <3>1. Copying(t)' => Copying(t)
      BY <1>15
    <3>2. CASE Copying(t)'
      BY <1>15, <2>1, <2>3, <3>2, OrderQuiet DEF SameBooks, SameRest
    <3>3. CASE ~Copying(t)'
      <4>1. FirstOnce(t)'
        BY <1>15, <2>3, <3>3 DEF Order, FirstOnce, SameBooks, SameLock, Read
      <4>2. ~InReview(t)'
        BY <1>4, <1>15, <2>1, <2>3 DEF InReview, SameLock, Read
      <4>3. InOrder(t)'
        BY <1>15, <2>3, <3>3 DEF Order, InOrder, SameLock, Read
      <4> QED
        BY <4>1, <4>2, <4>3 DEF Order
    <3> QED
      BY <3>2, <3>3
  <2>4. CASE team'[t] = copy[t] /\ copy[t].state \notin {"cancelled"}
    BY <1>15, <2>2, <2>4
  <2>5. CASE team'[t] = Pausing(copy[t])
    BY <1>1, <1>3, <2>2, <2>5, PausingPast, PausingSound
  <2>6. ASSUME NEW state \in {"paused", "failed", "conflict", "completed"},
               team'[t] = To(copy[t], state)
        PROVE  Order(t)'
    BY <1>1, <1>3, <2>2, <2>6, PausingPast
  <2>7. CASE /\ team'[t] = To(copy[t], "review") /\ run'[t].pc = "done"
             /\ copy[t].state = "merging"
    <3>1. AllCompleted(copy[t]) /\ ~Loops(t)'
      BY <1>1, <2>7 DEF Sound, Finished, Loops
    <3> QED
      BY <1>1, <1>3, <2>2, <2>7, <3>1, PausingPast
  <2> QED
    BY <1>15, <2>3, <2>4, <2>5, <2>6, <2>7
<1>16. run[t].pc \in {"save", "merging", "importing"} => copy[t].state = "merging"
  BY DEF Sounds
<1>17. Copying(t) => copy[t].state \notin Early
  BY DEF Order, FirstOnce
<1>18. CASE EndSave(t)
  <2>1. /\ SameBooks(t) /\ SameLock(t) /\ applying'[t] = applying[t]
        /\ Copying(t) /\ ~Copying(t)'
    BY <1>7, <1>18, EndSaveDoes DEF Copying
  <2>2. CASE team'[t] # team[t]
    <3>1. copy[t].state # "review"
      BY <1>18, <2>2, EndSaveDoes DEF May, Transitions
    <3> QED
      BY <1>15, <1>17, <1>18, <2>1, <3>1, EndSaveDoes
  <2>3. CASE team'[t] = team[t]
    <3>1. FirstOnce(t)'
      BY <2>1, <2>3 DEF Order, FirstOnce, SameBooks, SameLock, Read
    <3>2. ~InReview(t)'
      BY <1>4, <2>1, <2>3 DEF InReview, SameLock, Read, Copying, Loops
    <3>3. InOrder(t)'
      BY <2>1, <2>3 DEF Order, InOrder, SameLock, Read
    <3> QED
      BY <3>1, <3>2, <3>3 DEF Order
  <2> QED
    BY <2>2, <2>3
<1>19. CASE Caught(t)
  <2>1. /\ SameBooks(t) /\ SameRest(t) /\ SameLock(t) /\ Loops(t) /\ ~Copying(t)'
        /\ holder[t] = Nobody
    BY <1>6, <1>7, <1>19, CaughtDoes
  <2>2. CASE team'[t] = team[t]
    BY <2>1, <2>2, OrderQuiet DEF SameBooks
  <2>3. CASE team'[t] = Pausing(team[t])
    <3>1. team'[t].state = "paused"
      BY <1>1, <2>3, PausingSound
    <3> QED
      BY <1>1, <1>4, <2>1, <3>1, OrderFree DEF Early, SameBooks
  <2> QED
    BY <1>19, <2>2, <2>3, CaughtDoes
<1>20. ASSUME run[t].pc \in {"save", "merging", "importing"}
       PROVE  /\ Copying(t) /\ copy[t].state \notin Early \cup {"review", "cancelled"}
              /\ copy[t].state = "merging"
  BY <1>16, <1>20 DEF Copying, Early
<1>21. CASE MergeSave(t)
  <2>1. /\ SameBooks(t) /\ SameLock(t) /\ applying'[t] = applying[t]
        /\ Copying(t) /\ copy[t].state \notin Early \cup {"review", "cancelled"}
    BY <1>20, <1>21, MergeSaveDoes
  <2>2. /\ Copying(t)' => copy'[t] = copy[t]
        /\ team'[t] = copy[t] \/ team'[t] = team[t]
    BY <1>7, <1>21, MergeSaveDoes
  <2> QED
    BY <1>15, <2>1, <2>2
<1>22. CASE MergeDecided(t)
  <2>1. /\ SameBooks(t) /\ SameLock(t) /\ applying'[t] = applying[t]
        /\ Copying(t) /\ copy[t].state \notin Early \cup {"review", "cancelled"}
    BY <1>20, <1>22, MergeDecidedDoes
  <2>2. /\ ~Copying(t)'
        /\ \/ team'[t] = team[t]
           \/ \E state \in {"conflict", "completed"} : team'[t] = To(copy[t], state)
    BY <1>7, <1>22, MergeDecidedDoes
  <2> QED
    BY <1>15, <2>1, <2>2
<1>23. CASE MergeImport(t)
  <2>1. /\ SameBooks(t) /\ SameLock(t) /\ applying'[t] = applying[t]
        /\ Copying(t) /\ copy[t].state \notin Early \cup {"review", "cancelled"}
        /\ copy'[t] = copy[t] /\ team'[t] = copy[t]
    BY <1>20, <1>23, MergeImportDoes DEF SameRest
  <2> QED
    BY <1>15, <2>1
<1>24. CASE MergeEnd(t)
  <2>1. /\ SameBooks(t) /\ SameLock(t) /\ applying'[t] = applying[t]
        /\ Copying(t) /\ copy[t].state \notin Early \cup {"review", "cancelled"}
        /\ copy[t].state = "merging"
    BY <1>20, <1>24, MergeEndDoes
  <2>2. /\ ~Copying(t)'
        /\ \/ team'[t] = team[t]
           \/ run'[t].pc = "done" /\ team'[t] = To(copy[t], "review")
           \/ team'[t] = To(copy[t], "paused")
    BY <1>7, <1>24, MergeEndDoes
  <2> QED
    BY <1>15, <2>1, <2>2
<1>25. ASSUME NEW n \in Plan(t), Consider(t, n)
       PROVE  Order(t)'
  <2>1. /\ runs'[t] = runs[t] /\ SameRest(t) /\ SameLock(t) /\ team'[t] = team[t]
        /\ Loops(t) /\ ~Copying(t)'
    BY <1>6, <1>7, <1>25, ConsiderDoes DEF SameBooks
  <2> QED
    BY <2>1, OrderQuiet
<1>26. ASSUME NEW n \in Plan(t), NoRoute(t, n)
       PROVE  Order(t)'
  <2>1. /\ SameBooks(t) /\ SameRest(t) /\ SameLock(t) /\ Loops(t) /\ ~Copying(t)'
        /\ holder[t] = Nobody
    BY <1>6, <1>7, <1>26, NoRouteDoes
  <2>2. CASE team'[t] = team[t]
    BY <2>1, <2>2, OrderQuiet DEF SameBooks
  <2>3. CASE team'[t] # team[t]
    <3>1. team'[t].state = "running"
      BY <1>1, <1>26, <2>3, NoRouteDoes, OpsFollow
    <3> QED
      BY <1>1, <1>4, <2>1, <3>1, OrderFree DEF Early, SameBooks
  <2> QED
    BY <2>2, <2>3
<1> QED
  BY <1>8, <1>9, <1>10, <1>11, <1>13, <1>14, <1>18, <1>19, <1>21, <1>22, <1>23, <1>24, <1>25,
     <1>26 DEF Loop

(* The roles keep it: they save what they read under the same lock. *)
LEMMA RoleOrder ==
    ASSUME Shape, NEW t \in Teams, Sounds(t), Order(t), NEW a \in AgentsOf(t), Role(t, a),
           Shape', Sounds(t)'
    PROVE  Order(t)'
<1>1. /\ Sound(t, team[t]) /\ Sound(t, seen[t]) /\ Sound(t, team'[t])
  BY DEF Sounds, Kept
<1>2. /\ "none" \notin Readers /\ RoleOps \subseteq Readers /\ Nobody.op = "none"
      /\ \A op \in {"reserve", "settle", "close", "report"} : op \in Readers
      /\ "running" \notin Early \cup {"review"} /\ "paused" \notin Early \cup {"review"}
  BY DEF Readers, RoleOps, Nobody, Early
<1>3. ASSUME \/ run'[t] = run[t]
             \/ run[t].pc = "queued" /\ run'[t].pc \in {"scan", "starting"}
             \/ run[t].pc = "waiting" /\ run'[t].pc \in {"loop", "caught"}
      PROVE  /\ Loops(t)' => Loops(t)
             /\ Copying(t)' => Copying(t)
  BY <1>3 DEF Loops, Copying
<1>4. ASSUME runs'[t] = runs[t], SameRest(t), Freed(t), Read(t),
             Loops(t)' => Loops(t), Copying(t)' => Copying(t),
             \/ team'[t] = team[t]
             \/ /\ Grows(seen[t], team'[t])
                /\ team'[t].state = seen[t].state \/ team'[t].state \in {"running", "paused"}
      PROVE  Order(t)'
  <2>1. holder'[t].op = "none"
    BY <1>2, <1>4 DEF Freed
  <2>2. CASE team'[t] = team[t]
    BY <1>4, <2>1, <2>2, OrderQuiet
  <2>3. CASE /\ Grows(seen[t], team'[t])
             /\ team'[t].state = seen[t].state \/ team'[t].state \in {"running", "paused"}
    BY <1>1, <1>2, <1>4, <2>1, <2>3, OrderSeen
  <2> QED
    BY <1>4, <2>2, <2>3
<1>5. ASSUME NEW s, Follows(t, seen[t], s), seen[t].state = "removed" => s.state = "removed"
      PROVE  Grows(seen[t], s)
  BY <1>5 DEF Follows, Grows
<1>6. \A S \in SUBSET seen[t].reserved : /\ Grows(seen[t], Settle(seen[t], S))
                                         /\ Settle(seen[t], S).state = seen[t].state
  BY <1>1, <1>5, OpsFollow
<1>7. CASE Take(t, a)
  <2>1. /\ runs'[t] = runs[t] /\ SameRest(t) /\ team'[t] = team[t] /\ run'[t] = run[t]
        /\ holder'[t].op \in Readers /\ seen'[t] = team[t]
    BY <1>2, <1>7, TakeDoes DEF SameBooks
  <2>2. (Loops(t)' => Loops(t)) /\ (Copying(t)' => Copying(t))
    BY <1>3, <2>1
  <2> QED
    BY <2>1, <2>2, OrderQuiet
<1>8. CASE ReserveSave(t, a)
  <2>1. /\ runs'[t] = runs[t] /\ SameRest(t) /\ Freed(t) /\ run'[t] = run[t] /\ Read(t)
        /\ \/ team'[t] = team[t]
           \/ \E tokens \in Sizes :
                 /\ MayAsk(seen[t], a[1])
                 /\ team'[t] = Reserve(seen[t], [agent |-> a, tokens |-> tokens,
                                                 id |-> spent[t]])
    BY <1>2, <1>8, ReserveSaveDoes, SMTT(30) DEF Read
  <2>2. (Loops(t)' => Loops(t)) /\ (Copying(t)' => Copying(t))
    BY <1>3, <2>1
  <2>3. ASSUME NEW tokens \in Sizes, MayAsk(seen[t], a[1]),
               team'[t] = Reserve(seen[t], [agent |-> a, tokens |-> tokens, id |-> spent[t]])
        PROVE  Order(t)'
    <3>1. /\ team'[t].handoffs = seen[t].handoffs /\ team'[t].used = seen[t].used
          /\ team'[t].state = seen[t].state
      BY <1>1, <2>3 DEF Reserve, Sound, Records
    <3>2. seen[t].used \in Nat
      BY <1>1, RecordShape DEF Sound
    <3>3. Grows(seen[t], team'[t])
      BY <3>1, <3>2 DEF Grows
    <3> QED
      BY <1>4, <2>1, <2>2, <3>1, <3>3
  <2>4. CASE team'[t] = team[t]
    BY <1>4, <2>1, <2>2, <2>4
  <2> QED
    BY <2>1, <2>3, <2>4
<1>9. CASE SettleSave(t, a)
  <2>1. /\ runs'[t] = runs[t] /\ SameRest(t) /\ Freed(t) /\ run'[t] = run[t] /\ Read(t)
        /\ \/ team'[t] = team[t]
           \/ \E S \in SUBSET seen[t].reserved : team'[t] = Settle(seen[t], S)
    BY <1>2, <1>9, SettleSaveDoes DEF Read, SameBooks
  <2>2. (Loops(t)' => Loops(t)) /\ (Copying(t)' => Copying(t))
    BY <1>3, <2>1
  <2> QED
    BY <1>4, <1>6, <2>1, <2>2
<1>10. CASE RunnerEnds(a)
  <2>1. /\ runs'[t] = runs[t] /\ SameRest(t) /\ SameLock(t) /\ team'[t] = team[t]
        /\ run'[t] = run[t]
    BY <1>10, RunnerEndsDoes DEF SameBooks
  <2>2. (Loops(t)' => Loops(t)) /\ (Copying(t)' => Copying(t))
    BY <1>3, <2>1
  <2> QED
    BY <2>1, <2>2, OrderQuiet
<1>11. CASE CloseSave(t, a)
  <2>1. /\ runs'[t] = runs[t] /\ SameRest(t) /\ Freed(t) /\ Onward(t, a) /\ Read(t)
        /\ \/ team'[t] = team[t]
           \/ \E S \in SUBSET seen[t].reserved : team'[t] = Settle(seen[t], S)
    BY <1>2, <1>11, CloseSaveDoes DEF Read, SameBooks
  <2>2. (Loops(t)' => Loops(t)) /\ (Copying(t)' => Copying(t))
    BY <1>3, <2>1 DEF Onward
  <2> QED
    BY <1>4, <1>6, <2>1, <2>2
<1>12. CASE ReportSave(t, a)
  <2>1. /\ runs'[t] = runs[t] /\ SameRest(t) /\ Freed(t) /\ Onward(t, a) /\ Read(t)
    BY <1>2, <1>12, ReportSaveDoes DEF Read, SameBooks
  <2>2. (Loops(t)' => Loops(t)) /\ (Copying(t)' => Copying(t))
    BY <1>3, <2>1 DEF Onward
  <2>3. a[1] \in Plan(t)
    BY AgentShape
  <2>4. CASE team'[t] # team[t]
    <3>1. /\ seen[t].state = "running"
          /\ Follows(t, seen[t], team'[t])
          /\ team'[t].state \in {"running", "paused"}
      BY <1>1, <1>12, <2>3, <2>4, ReportSaveDoes, OpsFollow
    <3> QED
      BY <1>4, <1>5, <2>1, <2>2, <3>1
  <2>5. CASE team'[t] = team[t]
    BY <1>4, <2>1, <2>2, <2>5
  <2> QED
    BY <2>4, <2>5
<1> QED
  BY <1>7, <1>8, <1>9, <1>10, <1>11, <1>12 DEF Role

(* The teams a step is not about. *)
LEMMA OrderApart ==
    ASSUME Shape, NEW t \in Teams, Apart(t), Handed(t), NEW u \in Teams, u # t, Sounds(u),
           Order(u)
    PROVE  Order(u)'
<1>1. /\ team'[u] = team[u] /\ SameLock(u) /\ SameRest(u) /\ runs'[u] = runs[u]
  BY DEF Apart, SameLock, SameRest
<1>2. \/ run'[u] = run[u]
      \/ run[u].pc = "queued" /\ run'[u].pc = "starting"
  <2>1. run[u] \in RunsOf(u)
    BY DEF Shape, Control
  <2>2. [run[u] EXCEPT !.pc = "starting"].pc = "starting"
    BY <2>1, StartingRun
  <2> QED
    BY <2>2 DEF Handed
<1>3. (Loops(u)' => Loops(u)) /\ (Copying(u)' => Copying(u))
  BY <1>2 DEF Loops, Copying
<1> QED
  BY <1>1, <1>3, OrderQuiet

(* Both, for every team. *)
Ordered == SoundShape /\ \A t \in Teams : Order(t)

(* A restart leaves no copies at all. *)
LEMMA RestartOrder ==
    ASSUME Ordered, Restart
    PROVE  \A t \in Teams : Order(t)'
<1>1. SUFFICES ASSUME NEW t \in Teams PROVE Order(t)'
  OBVIOUS
<1>2. SoundShape /\ Order(t) /\ Sound(t, team[t])
  BY DEF Ordered, SoundShape, Sounds, Kept
<1>3. /\ run'[t] = Idle /\ holder'[t] = Nobody /\ applying'[t] = Configured(t)
      /\ runs'[t] = runs[t]
      /\ \/ /\ team[t].state = "review"
            /\ team'[t] = [To(team[t], "completed") EXCEPT !.base = FALSE]
         \/ team'[t] = Recovered(team[t])
  BY <1>2, RestartDoes DEF AllRested, Rested, SameBooks
<1>4. Idle.pc = "none" /\ Nobody.op = "none" /\ Configured(t).state = "configured"
  BY ConfiguredKept DEF Idle, Nobody
<1>5. ~Read(t)' /\ ~Copying(t)' /\ ~Loops(t)' /\ holder'[t].op = "none"
  BY <1>3, <1>4 DEF Read, Readers, RoleOps, Copying, Loops
<1>6. \A state \in TeamStates, base \in BOOLEAN :
         [To(team[t], state) EXCEPT !.base = base].state = state
  BY <1>2, OpsFollow
<1>7. /\ Recovered(team[t]).state \in {team[t].state, "paused"}
      /\ Recovered(team[t]).state \notin {"preparing", "running", "merging"}
  BY <1>2, RecoveredSound
<1>8. /\ team'[t].state \in Early => team[t].state \in Early
      /\ team'[t].state = "review" => team[t].state = "review" /\ team'[t] = team[t]
  <2>1. "completed" \in TeamStates
    BY DEF TeamStates
  <2>2. CASE team'[t] = [To(team[t], "completed") EXCEPT !.base = FALSE]
    BY <1>6, <2>1, <2>2 DEF Early
  <2>3. CASE team'[t] = Recovered(team[t])
    <3>1. team[t].state = "review" => Recovered(team[t]) = team[t]
      BY DEF Recovered
    <3> QED
      BY <1>7, <2>3, <3>1 DEF Early
  <2> QED
    BY <1>3, <2>2, <2>3
<1>9. FirstOnce(t)'
  BY <1>2, <1>3, <1>5, <1>8 DEF Order, FirstOnce
<1>10. InReview(t)' => Over(t)'
  BY <1>2, <1>3, <1>4, <1>5, <1>8 DEF Order, InReview, Over
<1>11. InOrder(t)'
  BY <1>3, <1>4, <1>5 DEF InOrder
<1> QED
  BY <1>9, <1>10, <1>11 DEF Order

(* The order holds at first, ... *)
LEMMA InitOrdered == Init => Ordered
<1> SUFFICES ASSUME Init PROVE Ordered
  OBVIOUS
<1>1. SoundShape
  BY InitSound
<1>2. ASSUME NEW t \in Teams
      PROVE  Order(t)
  <2>1. /\ run[t].pc = "none" /\ holder[t].op = "none" /\ runs[t] = 0
        /\ team[t].state = "configured" /\ applying[t].state = "configured"
    BY ConfiguredKept DEF Init, Idle, Nobody
  <2>2. ~Read(t) /\ ~Copying(t) /\ ~InReview(t)
    BY <2>1 DEF Read, Readers, RoleOps, Copying, InReview
  <2> QED
    BY <2>1, <2>2 DEF Order, FirstOnce, InOrder
<1> QED
  BY <1>1, <1>2 DEF Ordered

(* ... and after every step. *)
LEMMA NextOrdered == Ordered /\ [Next]_vars => Ordered'
<1> SUFFICES ASSUME Ordered, [Next]_vars PROVE Ordered'
  OBVIOUS
<1>1. SoundShape /\ SoundShape'
  BY NextSound DEF Ordered
<1>2. ASSUME NEW t \in Teams, Acts(t)
      PROVE  \A u \in Teams : Order(u)'
  <2>1. Apart(t) /\ Handed(t)
    BY <1>1, <1>2, ActsSound
  <2>2. Order(t)'
    BY <1>1, <1>2, UserOrder, LoopOrder, RoleOrder DEF Ordered, SoundShape, Acts
  <2> QED
    BY <1>1, <2>1, <2>2, OrderApart DEF Ordered, SoundShape
<1>3. CASE UNCHANGED vars
  <2>1. ASSUME NEW t \in Teams
        PROVE  Order(t)'
    <3>1. /\ team' = team /\ seen' = seen /\ copy' = copy /\ applying' = applying
          /\ runs' = runs /\ run' = run /\ holder' = holder
      BY <1>3 DEF vars
    <3>2. Sounds(t) /\ Order(t)
      BY DEF Ordered, SoundShape
    <3>3. SameLock(t) /\ SameRest(t) /\ (Loops(t)' => Loops(t)) /\ (Copying(t)' => Copying(t))
      BY <3>1 DEF SameLock, SameRest, Loops, Copying
    <3> QED
      BY <3>1, <3>2, <3>3, OrderQuiet
  <2> QED
    BY <1>1, <2>1 DEF Ordered
<1>4. CASE Restart
  BY <1>1, <1>4, RestartOrder DEF Ordered
<1> QED
  BY <1>1, <1>2, <1>3, <1>4, StepsAre DEF Ordered

-----------------------------------------------------------------------------
(* Only the saves without the lock take anything back.                      *)

(* A record that is not behind keeps what happened. *)
LEMMA KeepsUnder ==
    ASSUME NEW t \in Teams, NEW r, NEW s, Sound(t, r), Sound(t, s), Under(r, s),
           r.state = "cancelled" => s.state \in {"cancelled", "removed"}
    PROVE  KeepsWhatHappened(r, s)
<1>1. r.handoffs \subseteq Plan(t)
  BY RecordShape DEF Sound
<1>2. \A n \in Plan(t) : s.node[n] = "completed" <=> n \in s.handoffs
  BY DEF Sound
<1> QED
  BY <1>1, <1>2 DEF KeepsWhatHappened, Under

(* So does the record itself. *)
LEMMA KeepsSame ==
    ASSUME NEW t \in Teams, NEW r, Sound(t, r)
    PROVE  KeepsWhatHappened(r, r)
  BY KeepsUnder, UnderSame

(* The next record comes from the one on disk. *)
LEMMA KeepsGrows ==
    ASSUME NEW t \in Teams, NEW r, NEW s, Sound(t, r), Sound(t, s), Follows(t, r, s),
           r.state # "cancelled"
    PROVE  KeepsWhatHappened(r, s)
  BY KeepsUnder DEF Follows, Under

(* It comes from what the holder of the lock has read. *)
LEMMA KeepsSeen ==
    ASSUME NEW t \in Teams, Sounds(t), Order(t), Read(t), NEW s, Sound(t, s),
           Follows(t, seen[t], s),
           s.state = seen[t].state \/ seen[t].state \notin {"cancelled", "removed"}
    PROVE  KeepsWhatHappened(team[t], s)
<1>1. Sound(t, team[t]) /\ Sound(t, seen[t])
  BY DEF Sounds, Kept
<1>2. /\ Under(team[t], seen[t])
      /\ team[t].state = "cancelled" => seen[t].state = "cancelled"
  BY DEF Order, InOrder
<1>3. Grows(seen[t], s)
  BY DEF Follows, Grows
<1>4. Under(team[t], s)
  BY <1>1, <1>2, <1>3, UnderGrows
<1> QED
  BY <1>1, <1>2, <1>4, KeepsUnder

(* Of what the user does, only completeReview saves without the lock. *)
LEMMA UserKeeps ==
    ASSUME Shape, NEW t \in Teams, Sounds(t), Order(t), User(t), Sounds(t)'
    PROVE  KeepsWhatHappened(team[t], team'[t]) \/ SavesUnlocked(t)
<1>1. /\ Sound(t, team[t]) /\ Sound(t, seen[t]) /\ Sound(t, team'[t])
  BY DEF Sounds, Kept
<1>2. "cancel" \in Readers
  BY DEF Readers
<1>3. \A state \in {"preparing", "paused", "running"} : state \in TeamStates
  BY DEF TeamStates
<1>4. CASE team'[t] = team[t]
  BY <1>1, <1>4, KeepsSame
<1>5. CASE Confirm(t)
  BY <1>1, <1>3, <1>5, ConfirmDoes, OpsFollow, KeepsGrows
<1>6. ASSUME holder[t].op \in {"capture", "allocate"}
      PROVE  team[t].state = "preparing"
  BY <1>6 DEF Order, FirstOnce
<1>7. CASE CaptureBase(t)
  <2>1. team[t].state = "preparing"
    BY <1>6, <1>7, CaptureBaseDoes
  <2>2. /\ Follows(t, team[t], [team[t] EXCEPT !.base = TRUE])
        /\ Follows(t, team[t], To(team[t], "paused"))
    BY <1>1, <1>3, OpsFollow
  <2> QED
    BY <1>1, <1>4, <1>7, <2>1, <2>2, CaptureBaseDoes, KeepsGrows
<1>8. CASE Allocate(t)
  <2>1. team[t].state = "preparing"
    BY <1>6, <1>8, AllocateDoes
  <2>2. /\ Follows(t, team[t], To(team[t], "running"))
        /\ \A kept \in BOOLEAN : Follows(t, team[t], [To(team[t], "paused") EXCEPT !.base = kept])
    BY <1>1, <1>3, OpsFollow
  <2>3. team'[t] # team[t] => Follows(t, team[t], team'[t])
    BY <1>8, <2>2, AllocateDoes
  <2> QED
    BY <1>1, <1>4, <2>1, <2>3, KeepsGrows
<1>9. CASE Resume(t)
  <2>1. CanResume(team[t]) /\ team'[t] = Resumed(team[t])
    BY <1>9, ResumeDoes
  <2>2. team[t].state = "paused" /\ team[t].used \in Nat
    BY <1>1, <2>1, RecordShape DEF CanResume, Sound
  <2>3. Under(team[t], team'[t])
    BY <1>1, <2>1, <2>2, ResumedSound DEF Under
  <2> QED
    BY <1>1, <2>2, <2>3, KeepsUnder
<1>10. CASE Cancel(t)
  BY <1>4, <1>10, CancelDoes
<1>11. CASE CancelRead(t)
  BY <1>4, <1>11, CancelReadDoes
<1>12. CASE CancelSave(t)
  <2>1. Read(t)
    BY <1>2, <1>12, CancelSaveDoes DEF Read
  <2>2. CASE May(seen[t], "cancelled") /\ team'[t] = PauseRunning(To(seen[t], "cancelled"))
    <3>1. seen[t].state \notin {"cancelled", "removed"}
      BY <2>2 DEF May, Transitions
    <3>2. Follows(t, seen[t], team'[t])
      BY <1>1, <2>2, OpsFollow
    <3> QED
      BY <1>1, <2>1, <3>1, <3>2, KeepsSeen
  <2> QED
    BY <1>4, <1>12, <2>2, CancelSaveDoes
<1>13. CASE CancelClean(t)
  <2>1. Read(t)
    BY <1>2, <1>13, CancelCleanDoes DEF Read
  <2>2. CASE team'[t] = [seen[t] EXCEPT !.base = FALSE]
    <3>1. \A base \in BOOLEAN : /\ Follows(t, seen[t], [seen[t] EXCEPT !.base = base])
                                /\ [seen[t] EXCEPT !.base = base].state = seen[t].state
      BY <1>1, OpsFollow
    <3> QED
      BY <1>1, <2>1, <2>2, <3>1, KeepsSeen
  <2> QED
    BY <1>4, <1>13, <2>2, CancelCleanDoes
<1>14. CASE CancelReturn(t)
  BY <1>4, <1>14, CancelReturnDoes
<1>15. CASE Apply(t)
  BY <1>4, <1>15, ApplyDoes
<1>16. CASE CompleteReview(t)
  BY <1>16, CompleteReviewDoes, ConfiguredKept DEF SavesUnlocked
<1>17. CASE RemoveRun(t)
  <2>1. team'[t].state = "removed"
    BY <1>17, RemoveRunDoes DEF Configured
  <2> QED
    BY <2>1 DEF KeepsWhatHappened
<1> QED
  BY <1>5, <1>7, <1>8, <1>9, <1>10, <1>11, <1>12, <1>13, <1>14, <1>15, <1>16, <1>17 DEF User

(* Of what the loop does, only fail, pause and the saves of the merge do. *)
LEMMA LoopKeeps ==
    ASSUME Shape, NEW t \in Teams, Sounds(t), Order(t), Loop(t), Sounds(t)'
    PROVE  KeepsWhatHappened(team[t], team'[t]) \/ SavesUnlocked(t)
<1>1. /\ Sound(t, team[t]) /\ Sound(t, seen[t]) /\ Sound(t, team'[t])
  BY DEF Sounds, Kept
<1>2. CASE team'[t] = team[t]
  BY <1>1, <1>2, KeepsSame
<1>3. CASE StartSave(t)
  <2>1. /\ Read(t) /\ seen[t].state = "running" /\ run[t].node \in Ready(seen[t])
    BY <1>3, StartSaveDoes DEF Read, Readers, Sounds
  <2>2. Follows(t, seen[t], StartNode(seen[t], run[t].node))
    BY <1>1, <2>1, OpsFollow
  <2>3. team'[t] # team[t] => Follows(t, seen[t], team'[t])
    BY <1>3, <2>2, StartSaveDoes
  <2> QED
    BY <1>1, <1>2, <2>1, <2>3, KeepsSeen
<1>4. CASE Caught(t)
  BY <1>1, <1>2, <1>4, CaughtDoes, OpsFollow, KeepsGrows
<1>5. ASSUME NEW n \in Plan(t), NoRoute(t, n)
      PROVE  KeepsWhatHappened(team[t], team'[t]) \/ SavesUnlocked(t)
  <2>1. team'[t] # team[t] => team[t].state = "running" /\ Follows(t, team[t], team'[t])
    BY <1>1, <1>5, NoRouteDoes, OpsFollow
  <2> QED
    BY <1>1, <1>2, <2>1, KeepsGrows
<1>6. CASE EndSave(t) \/ MergeSave(t) \/ MergeDecided(t) \/ MergeImport(t) \/ MergeEnd(t)
  <2>1. CASE EndSave(t)
    BY <2>1, EndSaveDoes DEF SavesUnlocked
  <2>2. CASE MergeSave(t)
    BY <2>2, MergeSaveDoes DEF SavesUnlocked
  <2>3. CASE MergeDecided(t)
    BY <2>3, MergeDecidedDoes DEF SavesUnlocked
  <2>4. CASE MergeImport(t)
    BY <2>4, MergeImportDoes DEF SavesUnlocked
  <2>5. CASE MergeEnd(t)
    BY <2>5, MergeEndDoes DEF SavesUnlocked
  <2> QED
    BY <1>6, <2>1, <2>2, <2>3, <2>4, <2>5
<1>7. CASE Turn(t) \/ Scanned(t) \/ StartCheck(t) \/ EndRead(t) \/ MergeRead(t)
  BY <1>2, <1>7, TurnDoes, ScannedDoes, StartCheckDoes, EndReadDoes, MergeReadDoes
<1>8. ASSUME NEW n \in Plan(t), Consider(t, n)
      PROVE  KeepsWhatHappened(team[t], team'[t]) \/ SavesUnlocked(t)
  BY <1>2, <1>8, ConsiderDoes
<1> QED
  BY <1>3, <1>4, <1>5, <1>6, <1>7, <1>8 DEF Loop

(* Nothing a role does takes anything back. *)
LEMMA RoleKeeps ==
    ASSUME Shape, NEW t \in Teams, Sounds(t), Order(t), NEW a \in AgentsOf(t), Role(t, a),
           Sounds(t)'
    PROVE  KeepsWhatHappened(team[t], team'[t])
<1>1. /\ Sound(t, team[t]) /\ Sound(t, seen[t]) /\ Sound(t, team'[t])
  BY DEF Sounds, Kept
<1>2. CASE team'[t] = team[t]
  BY <1>1, <1>2, KeepsSame
<1>3. \A op \in RoleOps : op \in Readers
  BY DEF Readers
<1>4. \A S \in SUBSET seen[t].reserved : /\ Follows(t, seen[t], Settle(seen[t], S))
                                         /\ Settle(seen[t], S).state = seen[t].state
  BY <1>1, OpsFollow
<1>5. ASSUME Read(t), NEW S \in SUBSET seen[t].reserved, team'[t] = Settle(seen[t], S)
      PROVE  KeepsWhatHappened(team[t], team'[t])
  BY <1>1, <1>4, <1>5, KeepsSeen
<1>6. CASE Take(t, a)
  BY <1>2, <1>6, TakeDoes
<1>7. CASE ReserveSave(t, a)
  <2>1. Read(t)
    BY <1>3, <1>7, ReserveSaveDoes DEF Read, RoleOps
  <2>2. ASSUME NEW tokens \in Sizes, MayAsk(seen[t], a[1]),
               team'[t] = Reserve(seen[t], [agent |-> a, tokens |-> tokens, id |-> spent[t]])
        PROVE  KeepsWhatHappened(team[t], team'[t])
    <3>1. /\ team'[t].handoffs = seen[t].handoffs /\ team'[t].used = seen[t].used
          /\ team'[t].state = seen[t].state /\ seen[t].state = "running"
      BY <1>1, <2>2 DEF Reserve, Sound, Records, MayAsk
    <3>2. /\ Under(team[t], seen[t])
          /\ team[t].state = "cancelled" => seen[t].state = "cancelled"
      BY <2>1 DEF Order, InOrder
    <3>3. Under(team[t], team'[t])
      BY <3>1, <3>2 DEF Under
    <3> QED
      BY <1>1, <3>1, <3>2, <3>3, KeepsUnder
  <2> QED
    BY <1>2, <1>7, <2>2, ReserveSaveDoes
<1>8. CASE SettleSave(t, a)
  <2>1. Read(t)
    BY <1>3, <1>8, SettleSaveDoes DEF Read, RoleOps
  <2> QED
    BY <1>2, <1>5, <1>8, <2>1, SettleSaveDoes
<1>9. CASE RunnerEnds(a)
  BY <1>2, <1>9, RunnerEndsDoes
<1>10. CASE CloseSave(t, a)
  <2>1. Read(t)
    BY <1>3, <1>10, CloseSaveDoes DEF Read, RoleOps
  <2> QED
    BY <1>2, <1>5, <1>10, <2>1, CloseSaveDoes
<1>11. CASE ReportSave(t, a)
  <2>1. Read(t)
    BY <1>3, <1>11, ReportSaveDoes DEF Read, RoleOps
  <2>2. a[1] \in Plan(t)
    BY AgentShape
  <2>3. team'[t] # team[t] => seen[t].state = "running" /\ Follows(t, seen[t], team'[t])
    BY <1>1, <1>11, <2>2, ReportSaveDoes, OpsFollow
  <2> QED
    BY <1>1, <1>2, <2>1, <2>3, KeepsSeen
<1> QED
  BY <1>6, <1>7, <1>8, <1>9, <1>10, <1>11 DEF Role

(* Of every team, in every step. *)
Undoes(t) == KeepsWhatHappened(team[t], team'[t]) \/ SavesUnlocked(t)

(* No other step takes anything back. *)
LEMMA NextKeeps ==
    ASSUME Ordered, [Next]_vars, NEW u \in Teams
    PROVE  Undoes(u)
<1>1. SoundShape /\ SoundShape'
  BY NextSound DEF Ordered
<1>2. Sound(u, team[u]) /\ Sound(u, team'[u]) /\ Sounds(u) /\ Order(u)
  BY <1>1 DEF Ordered, SoundShape, Sounds, Kept
<1>3. CASE team'[u] = team[u]
  BY <1>2, <1>3, KeepsSame DEF Undoes
<1>4. ASSUME NEW t \in Teams, Acts(t)
      PROVE  Undoes(u)
  <2>1. CASE u = t
    BY <1>1, <1>2, <1>4, <2>1, UserKeeps, LoopKeeps, RoleKeeps DEF SoundShape, Acts, Undoes
  <2>2. CASE u # t
    BY <1>1, <1>3, <1>4, <2>2, ActsSound DEF Apart
  <2> QED
    BY <2>1, <2>2
<1>5. CASE Restart
  <2>1. CASE /\ team[u].state = "review"
             /\ team'[u] = [To(team[u], "completed") EXCEPT !.base = FALSE]
    <3>1. \A state \in TeamStates, base \in BOOLEAN :
             Follows(u, team[u], [To(team[u], state) EXCEPT !.base = base])
      BY <1>2, OpsFollow
    <3>2. Follows(u, team[u], team'[u])
      BY <2>1, <3>1 DEF TeamStates
    <3> QED
      BY <1>2, <2>1, <3>2, KeepsGrows DEF Undoes
  <2>2. CASE team'[u] = Recovered(team[u])
    <3>1. CASE team[u].state = "cancelled"
      BY <1>3, <2>2, <3>1 DEF Recovered
    <3>2. CASE team[u].state # "cancelled"
      BY <1>2, <2>2, <3>2, RecoveredSound, KeepsGrows DEF Undoes
    <3> QED
      BY <3>1, <3>2
  <2> QED
    BY <1>1, <1>5, <2>1, <2>2, RestartDoes
<1>6. CASE UNCHANGED vars
  BY <1>3, <1>6 DEF vars
<1> QED
  BY <1>4, <1>5, <1>6, StepsAre

(* The strengthening, always. *)
THEOREM AlwaysOrdered == Spec => []Ordered
<1> QED
  BY InitOrdered, NextOrdered, PTL DEF Spec

(* aiTeamStore.ts:154, teamGraph.ts:86, teamBudget.ts:173: whatever happens *)
(* and whoever does it, a cancelled team stays cancelled, a completed task  *)
(* keeps its handoff and what was spent stays spent, except through the     *)
(* saves of the run loop and of completeReview, which have no lock.         *)
THEOREM OnlyStaleSavesCanUndo == Spec => OnlyStaleSavesUndo
<1>1. Ordered /\ [Next]_vars =>
         [\A t \in Teams : KeepsWhatHappened(team[t], team'[t]) \/ SavesUnlocked(t)]_vars
  BY NextKeeps DEF Undoes
<1> QED
  BY <1>1, AlwaysOrdered, PTL DEF Spec, OnlyStaleSavesUndo

(* The user starts no task, and a new run has no roles yet. *)
LEMMA UserFresh ==
    ASSUME Shape, NEW t \in Teams, Sounds(t), Order(t), Fresh(t), User(t)
    PROVE  Fresh(t)'
<1>1. /\ Sound(t, team[t]) /\ Sound(t, seen[t]) /\ Sound(t, applying[t])
      /\ Begun(t, team[t])
      /\ holder[t].op \in Readers => Begun(t, seen[t])
  BY DEF Sounds, Kept, Fresh, Read
<1>2. ASSUME runs'[t] = runs[t], agent' = agent, copy'[t] = copy[t],
             run'[t] = run[t] \/ run'[t].pc \in {"none", "loop", "scan"},
             Begun(t, team'[t]),
             holder'[t].op \in Readers => Begun(t, seen'[t])
      PROVE  Fresh(t)'
  <2>1. Alive' = Alive
    BY <1>2 DEF Alive
  <2>2. run'[t].pc \in {"failing", "pausing", "save", "merging", "importing"} =>
           Begun(t, copy'[t])
    BY <1>2 DEF Fresh, Copying
  <2> QED
    BY <1>2, <2>1, <2>2, FreshNext
<1>3. /\ "none" \notin Readers /\ "capture" \notin Readers /\ "allocate" \notin Readers
      /\ "cancel" \in Readers /\ Nobody.op = "none"
  BY DEF Readers, RoleOps, Nobody
<1>4. \A state \in {"preparing", "paused", "cancelled", "running", "completed"} :
         state \in TeamStates /\ state # "removed"
  BY DEF TeamStates
<1>5. \A r, s : Begun(t, r) /\ Follows(t, r, s) /\ (r.state = "removed" => s.state = "removed")
                  => Begun(t, s)
  BY BegunFollows
<1>6. \A s : s.state = "removed" => Begun(t, s)
  BY DEF Begun
<1>7. ASSUME holder[t].op \in {"capture", "allocate"}
      PROVE  team[t].state = "preparing"
  BY <1>7 DEF Order, FirstOnce
<1>8. ASSUME team[t].state # "removed", NEW state \in TeamStates
      PROVE  Begun(t, To(team[t], state))
  <2>1. Follows(t, team[t], To(team[t], state))
    BY <1>1, OpsFollow
  <2> QED
    BY <1>1, <1>5, <1>8, <2>1
<1>9. CASE Confirm(t)
  <2>1. Begun(t, To(team[t], "preparing"))
    BY <1>4, <1>8, <1>9, ConfirmDoes
  <2> QED
    BY <1>2, <1>3, <1>9, <2>1, ConfirmDoes DEF SameBooks, SameRest
<1>10. CASE CaptureBase(t)
  <2>1. team[t].state = "preparing"
    BY <1>7, <1>10, CaptureBaseDoes
  <2>2. Begun(t, To(team[t], "paused"))
    BY <1>4, <1>8, <2>1
  <2>3. Begun(t, [team[t] EXCEPT !.base = TRUE])
    <3>1. \A base \in BOOLEAN : Follows(t, team[t], [team[t] EXCEPT !.base = base])
      BY <1>1, OpsFollow
    <3> QED
      BY <1>1, <1>5, <2>1, <3>1
  <2> QED
    BY <1>1, <1>2, <1>3, <1>10, <2>2, <2>3, CaptureBaseDoes DEF SameBooks, SameRest, Freed
<1>11. CASE Allocate(t)
  <2>1. team[t].state = "preparing"
    BY <1>7, <1>11, AllocateDoes
  <2>2. \A kept \in BOOLEAN : Begun(t, [To(team[t], "paused") EXCEPT !.base = kept])
    <3>1. \A state \in TeamStates, base \in BOOLEAN :
             Follows(t, team[t], [To(team[t], state) EXCEPT !.base = base])
      BY <1>1, OpsFollow
    <3>2. \A kept \in BOOLEAN : Follows(t, team[t], [To(team[t], "paused") EXCEPT !.base = kept])
      BY <1>4, <3>1
    <3> QED
      BY <1>1, <1>5, <2>1, <3>2
  <2>3. CASE runs'[t] = runs[t] + 1
    BY <1>11, <2>3, AllocateDoes, FreshRun
  <2>4. CASE runs'[t] = runs[t] /\ run'[t] = run[t] /\ team'[t] = team[t]
    BY <1>1, <1>2, <1>3, <1>11, <2>4, AllocateDoes DEF SameRest, Freed
  <2>5. ASSUME runs'[t] = runs[t], run'[t] = run[t], NEW kept \in BOOLEAN,
               team'[t] = [To(team[t], "paused") EXCEPT !.base = kept]
        PROVE  Fresh(t)'
    BY <1>2, <1>3, <1>11, <2>2, <2>5, AllocateDoes DEF SameRest, Freed
  <2> QED
    BY <1>11, <2>3, <2>4, <2>5, AllocateDoes
<1>12. CASE Resume(t)
  BY <1>12, ResumeDoes, FreshRun
<1>13. CASE Cancel(t)
  BY <1>1, <1>2, <1>13, CancelDoes DEF SameBooks, SameRest, SameLock
<1>14. CASE CancelRead(t)
  BY <1>1, <1>2, <1>14, CancelReadDoes DEF SameBooks, SameRest
<1>15. CASE CancelSave(t)
  <2>1. Begun(t, seen[t])
    BY <1>1, <1>3, <1>15, CancelSaveDoes
  <2>2. ASSUME May(seen[t], "cancelled")
        PROVE  Begun(t, PauseRunning(To(seen[t], "cancelled")))
    <3>1. seen[t].state # "removed"
      BY <2>2 DEF May, Transitions
    <3>2. Follows(t, seen[t], PauseRunning(To(seen[t], "cancelled")))
      BY <1>1, OpsFollow
    <3> QED
      BY <1>5, <2>1, <3>1, <3>2
  <2> QED
    BY <1>1, <1>2, <1>3, <1>15, <2>2, CancelSaveDoes DEF SameBooks, SameRest, Freed
<1>16. CASE CancelClean(t)
  <2>1. Begun(t, seen[t])
    BY <1>1, <1>3, <1>16, CancelCleanDoes
  <2>2. Begun(t, [seen[t] EXCEPT !.base = FALSE])
    <3>1. \A base \in BOOLEAN : /\ Follows(t, seen[t], [seen[t] EXCEPT !.base = base])
                                /\ [seen[t] EXCEPT !.base = base].state = seen[t].state
      BY <1>1, OpsFollow
    <3> QED
      BY <1>5, <2>1, <3>1
  <2> QED
    BY <1>1, <1>2, <1>3, <1>16, <2>2, CancelCleanDoes DEF SameBooks, SameRest, Freed
<1>17. CASE CancelReturn(t)
  BY <1>1, <1>2, <1>17, CancelReturnDoes DEF SameBooks, SameRest, SameLock
<1>18. CASE Apply(t)
  BY <1>1, <1>2, <1>18, ApplyDoes DEF SameBooks, SameLock
<1>19. CASE CompleteReview(t)
  <2>1. AllCompleted(applying[t])
    BY <1>1, <1>19, CompleteReviewDoes DEF Sound, Finished
  <2>2. Begun(t, [To(applying[t], "completed") EXCEPT !.base = FALSE])
    <3> DEFINE s == [To(applying[t], "completed") EXCEPT !.base = FALSE]
    <3>1. s.node = applying[t].node
      BY <1>1 DEF To, Sound, Records
    <3>2. \A n \in Plan(t) : applying[t].node[n] = "completed"
      BY <1>1, <2>1, RecordShape DEF AllCompleted, Sound
    <3> HIDE DEF s
    <3>3. Begun(t, s)
      BY <3>1, <3>2 DEF Begun
    <3> QED
      BY <3>3 DEF s
  <2> QED
    BY <1>1, <1>2, <1>19, <2>2, CompleteReviewDoes DEF SameBooks, SameLock
<1>20. CASE RemoveRun(t)
  <2>1. Begun(t, [Configured(t) EXCEPT !.state = "removed"])
    <3>1. [Configured(t) EXCEPT !.state = "removed"].state = "removed"
      BY DEF Configured
    <3> QED
      BY <1>6, <3>1
  <2> QED
    BY <1>2, <1>3, <1>20, <2>1, RemoveRunDoes DEF SameBooks, SameRest, SameLock
<1> QED
  BY <1>9, <1>10, <1>11, <1>12, <1>13, <1>14, <1>15, <1>16, <1>17, <1>18, <1>19, <1>20 DEF User

(* The loop starts a role with its task, and saves no copy without it. *)
LEMMA LoopFresh ==
    ASSUME Shape, NEW t \in Teams, Sounds(t), Order(t), Fresh(t), Loop(t)
    PROVE  Fresh(t)'
<1>1. /\ Sound(t, team[t]) /\ Sound(t, seen[t]) /\ Sound(t, copy[t])
      /\ Begun(t, team[t])
      /\ holder[t].op \in Readers => Begun(t, seen[t])
      /\ run[t].pc \in {"failing", "pausing", "save", "merging", "importing"} =>
            Begun(t, copy[t])
  BY DEF Sounds, Kept, Fresh, Read, Copying
<1>2. ASSUME runs'[t] = runs[t], agent' = agent, SameLock(t), Begun(t, team'[t]),
             run'[t].pc \in {"failing", "pausing", "save", "merging", "importing"} =>
                Begun(t, copy'[t])
      PROVE  Fresh(t)'
  <2>1. Alive' = Alive
    BY <1>2 DEF Alive
  <2> QED
    BY <1>1, <1>2, <2>1, FreshNext DEF SameLock
<1>3. \A r, s : Begun(t, r) /\ Follows(t, r, s) /\ (r.state = "removed" => s.state = "removed")
                  => Begun(t, s)
  BY BegunFollows
<1>4. ASSUME NEW r, Sound(t, r), Begun(t, r), r.state # "removed"
      PROVE  /\ Begun(t, Pausing(r))
             /\ \A state \in TeamStates : Begun(t, To(r, state))
             /\ r.state = "running" => \A n \in Ready(r) :
                   Begun(t, StartNode(r, n)) /\ Begun(t, FailNode(StartNode(r, n), n))
  <2>1. /\ Follows(t, r, Pausing(r))
        /\ \A state \in TeamStates : Follows(t, r, To(r, state))
        /\ r.state = "running" => \A n \in Ready(r) :
              Follows(t, r, StartNode(r, n)) /\ Follows(t, r, FailNode(StartNode(r, n), n))
    BY <1>4, OpsFollow
  <2> QED
    BY <1>3, <1>4, <2>1
<1>5. CASE Turn(t)
  BY <1>1, <1>2, <1>5, TurnDoes DEF SameBooks
<1>6. CASE Scanned(t)
  BY <1>1, <1>2, <1>6, ScannedDoes DEF SameBooks
<1>7. "none" \notin Readers /\ Nobody.op = "none"
  BY DEF Readers, RoleOps, Nobody
<1>8. CASE StartCheck(t)
  <2>1. /\ runs'[t] = runs[t] /\ agent' = agent /\ team'[t] = team[t]
        /\ run'[t].pc \in {"scan", "starting"}
        /\ SameLock(t) \/ seen'[t] = team[t]
    BY <1>8, StartCheckDoes DEF SameBooks
  <2>2. Alive' = Alive
    BY <2>1 DEF Alive
  <2> QED
    BY <1>1, <2>1, <2>2, FreshNext DEF SameLock
<1>9. CASE StartSave(t)
  <2>1. /\ runs'[t] = runs[t] /\ holder'[t].op \notin Readers
        /\ run'[t].pc \in {"scan", "caught"}
        /\ Begun(t, seen[t]) /\ seen[t].state = "running" /\ run[t].node \in Ready(seen[t])
    BY <1>1, <1>7, <1>9, StartSaveDoes DEF SameBooks, Freed, Readers, Sounds
  <2>2. CASE team'[t] = team[t] /\ agent' = agent
    <3>1. Alive' = Alive
      BY <2>2 DEF Alive
    <3> QED
      BY <1>1, <2>1, <2>2, <3>1, FreshNext
  <2>3. CASE /\ team'[t] = StartNode(seen[t], run[t].node)
             /\ agent' = [agent EXCEPT ![<<run[t].node, runs[t]>>] =
                                          [Off EXCEPT !.phase = "working"]]
    <3> DEFINE n == run[t].node
    <3>1. Begun(t, team'[t])
      BY <1>1, <1>4, <2>1, <2>3
    <3>2. \A m \in Plan(t) : <<m, runs[t]>> \in Alive' => m = n \/ <<m, runs[t]>> \in Alive
      BY <2>3 DEF Alive
    <3>3. team'[t].node[n] = "running"
      BY <1>1, <2>1, <2>3, StartNodeSound
    <3>4. \A m \in Plan(t) : <<m, runs[t]>> \in Alive' /\ team'[t].state # "removed" =>
             team'[t].node[m] # "pending"
      BY <3>1, <3>2, <3>3 DEF Begun
    <3> QED
      BY <2>1, <3>4 DEF Fresh, Begun, Read, Copying
  <2> QED
    BY <1>9, <2>2, <2>3, StartSaveDoes
<1>10. CASE EndRead(t)
  BY <1>1, <1>2, <1>10, EndReadDoes DEF SameBooks
<1>11. CASE EndSave(t)
  <2>1. Begun(t, team'[t])
    <3>1. Begun(t, copy[t])
      BY <1>1, <1>11, EndSaveDoes
    <3>2. \A state \in {"failed", "paused"} :
             state \in TeamStates /\ (May(copy[t], state) => copy[t].state # "removed")
      BY DEF May, Transitions, TeamStates
    <3> QED
      BY <1>1, <1>4, <1>11, <3>1, <3>2, EndSaveDoes
  <2> QED
    BY <1>2, <1>11, <2>1, EndSaveDoes DEF SameBooks
<1>12. CASE Caught(t)
  <2>1. team[t].state = "running" => Begun(t, Pausing(team[t]))
    BY <1>1, <1>4
  <2> QED
    BY <1>1, <1>2, <1>12, <2>1, CaughtDoes DEF SameBooks
<1>13. CASE MergeRead(t)
  <2>1. team[t].state = "running" => Begun(t, To(team[t], "merging"))
    BY <1>1, <1>4 DEF TeamStates
  <2> QED
    BY <1>1, <1>2, <1>13, <2>1, MergeReadDoes DEF SameBooks
<1>14. ASSUME run[t].pc \in {"save", "merging", "importing"}
       PROVE  /\ Begun(t, copy[t])
              /\ \A state \in {"review", "conflict", "completed", "paused"} :
                    Begun(t, To(copy[t], state))
  <2>1. copy[t].state = "merging"
    BY <1>14 DEF Sounds
  <2> QED
    BY <1>1, <1>4, <1>14, <2>1 DEF TeamStates
<1>15. CASE MergeSave(t)
  BY <1>1, <1>2, <1>14, <1>15, MergeSaveDoes DEF SameBooks
<1>16. CASE MergeDecided(t)
  BY <1>1, <1>2, <1>14, <1>16, MergeDecidedDoes DEF SameBooks
<1>17. CASE MergeImport(t)
  BY <1>1, <1>2, <1>14, <1>17, MergeImportDoes DEF SameBooks, SameRest
<1>18. CASE MergeEnd(t)
  BY <1>1, <1>2, <1>14, <1>18, MergeEndDoes DEF SameBooks
<1>19. ASSUME NEW n \in Plan(t), Consider(t, n)
       PROVE  Fresh(t)'
  BY <1>1, <1>2, <1>19, ConsiderDoes DEF SameBooks
<1>20. ASSUME NEW n \in Plan(t), NoRoute(t, n)
       PROVE  Fresh(t)'
  <2>1. team[t].state = "running" => \A m \in Ready(team[t]) :
           /\ Begun(t, StartNode(team[t], m))
           /\ Begun(t, FailNode(StartNode(team[t], m), m))
    BY <1>1, <1>4
  <2> QED
    BY <1>1, <1>2, <1>20, <2>1, NoRouteDoes DEF SameBooks
<1> QED
  BY <1>5, <1>6, <1>8, <1>9, <1>10, <1>11, <1>12, <1>13, <1>15, <1>16, <1>17, <1>18, <1>19,
     <1>20 DEF Loop

(* A role that ends its task leaves. *)
LEMMA RoleFresh ==
    ASSUME Shape, NEW t \in Teams, Sounds(t), Fresh(t), NEW a \in AgentsOf(t), Role(t, a)
    PROVE  Fresh(t)'
<1>1. /\ Sound(t, team[t]) /\ Sound(t, seen[t])
      /\ Begun(t, team[t])
      /\ holder[t].op \in Readers => Begun(t, seen[t])
      /\ run[t].pc \in {"failing", "pausing", "save", "merging", "importing"} =>
            Begun(t, copy[t])
  BY DEF Sounds, Kept, Fresh, Read, Copying
<1>2. /\ "none" \notin Readers /\ Nobody.op = "none"
      /\ \A op \in {"reserve", "settle", "close", "report"} : op \in Readers
      /\ \A op \in RoleOps : op \in Readers
  BY DEF Readers, RoleOps, Nobody
<1>3. ASSUME runs'[t] = runs[t], copy'[t] = copy[t], Alive' \subseteq Alive,
             run'[t] = run[t] \/ run'[t].pc \in {"scan", "starting", "loop", "caught"},
             Begun(t, team'[t]),
             holder'[t].op \in Readers => Begun(t, seen'[t])
      PROVE  Fresh(t)'
  BY <1>1, <1>3, FreshNext
<1>4. ASSUME OthersStay(a), a \in Alive
      PROVE  Alive' \subseteq Alive
  BY <1>4 DEF OthersStay, Alive
<1>5. Freed(t) => holder'[t].op \notin Readers
  BY <1>2 DEF Freed
<1>6. \A r, s : Begun(t, r) /\ Follows(t, r, s) /\ (r.state = "removed" => s.state = "removed")
                  => Begun(t, s)
  BY BegunFollows
<1>7. ASSUME Begun(t, seen[t]), NEW S \in SUBSET seen[t].reserved
      PROVE  Begun(t, Settle(seen[t], S))
  <2>1. Follows(t, seen[t], Settle(seen[t], S)) /\ Settle(seen[t], S).state = seen[t].state
    BY <1>1, OpsFollow
  <2> QED
    BY <1>6, <1>7, <2>1
<1>8. CASE Take(t, a)
  <2>1. Alive' = Alive
    BY <1>8, TakeDoes DEF Alive
  <2> QED
    BY <1>1, <1>3, <1>8, <2>1, TakeDoes DEF SameBooks, SameRest
<1>9. CASE ReserveSave(t, a)
  <2>1. /\ runs'[t] = runs[t] /\ copy'[t] = copy[t] /\ run'[t] = run[t]
        /\ Alive' \subseteq Alive /\ holder'[t].op \notin Readers
        /\ Begun(t, seen[t])
        /\ \/ team'[t] = team[t]
           \/ \E tokens \in Sizes :
                 team'[t] = Reserve(seen[t], [agent |-> a, tokens |-> tokens,
                                              id |-> spent[t]])
    BY <1>1, <1>2, <1>4, <1>5, <1>9, ReserveSaveDoes DEF SameRest
  <2>2. ASSUME NEW q
        PROVE  Begun(t, Reserve(seen[t], q))
    <3>1. /\ Reserve(seen[t], q).node = seen[t].node
          /\ Reserve(seen[t], q).state = seen[t].state
      BY <1>1 DEF Reserve, Sound, Records
    <3> QED
      BY <2>1, <3>1 DEF Begun
  <2> QED
    BY <1>1, <1>3, <2>1, <2>2
<1>10. CASE SettleSave(t, a)
  BY <1>1, <1>2, <1>3, <1>4, <1>5, <1>7, <1>10, SettleSaveDoes DEF SameBooks, SameRest
<1>11. CASE RunnerEnds(a)
  <2>1. Alive' \subseteq Alive
    BY <1>4, <1>11, RunnerEndsDoes
  <2> QED
    BY <1>1, <1>3, <1>11, <2>1, RunnerEndsDoes DEF SameBooks, SameRest, SameLock
<1>12. Onward(t, a) => run'[t] = run[t] \/ run'[t].pc \in {"scan", "starting", "loop", "caught"}
  BY DEF Onward
<1>13. CASE CloseSave(t, a)
  BY <1>1, <1>2, <1>3, <1>4, <1>5, <1>7, <1>12, <1>13, CloseSaveDoes DEF SameBooks, SameRest
<1>14. CASE ReportSave(t, a)
  <2>1. /\ runs'[t] = runs[t] /\ copy'[t] = copy[t] /\ Onward(t, a)
        /\ Alive' \subseteq Alive /\ holder'[t].op \notin Readers
        /\ Begun(t, seen[t])
    BY <1>1, <1>2, <1>4, <1>5, <1>14, ReportSaveDoes DEF SameBooks, SameRest
  <2>2. a[1] \in Plan(t)
    BY AgentShape
  <2>3. team'[t] # team[t] => seen[t].state = "running" /\ Follows(t, seen[t], team'[t])
    BY <1>1, <1>14, <2>2, ReportSaveDoes, OpsFollow
  <2>4. Begun(t, team'[t])
    BY <1>1, <1>6, <2>1, <2>3
  <2> QED
    BY <1>1, <1>3, <1>12, <2>1, <2>4
<1> QED
  BY <1>8, <1>9, <1>10, <1>11, <1>13, <1>14 DEF Role

(* What other teams do changes nothing of this. *)
LEMMA FreshApart ==
    ASSUME Shape, NEW t \in Teams, Apart(t), Handed(t), NEW u \in Teams, u # t, Fresh(u)
    PROVE  Fresh(u)'
<1>1. /\ team'[u] = team[u] /\ seen'[u] = seen[u] /\ copy'[u] = copy[u]
      /\ holder'[u] = holder[u] /\ runs'[u] = runs[u]
  BY DEF Apart
<1>2. \/ run'[u] = run[u]
      \/ run[u].pc = "queued" /\ run'[u].pc = "starting"
  <2>1. run[u] \in RunsOf(u)
    BY DEF Shape, Control
  <2>2. [run[u] EXCEPT !.pc = "starting"].pc = "starting"
    BY <2>1, StartingRun
  <2> QED
    BY <2>2 DEF Handed
<1>3. \A n \in Plan(u) : <<n, runs[u]>> \in Alive' => <<n, runs[u]>> \in Alive
  <2>1. \A n \in Plan(u) : <<n, runs[u]>> \notin AgentsOf(t)
    BY DEF AgentsOf, Plan
  <2> QED
    BY <2>1 DEF Apart, Alive
<1> QED
  BY <1>1, <1>2, <1>3, FreshNext DEF Fresh, Read, Copying

-----------------------------------------------------------------------------
(* The slots. *)

StartingIn(r) == {t \in Teams : r[t].pc = "starting"}

InUse == Cardinality(Alive) + Cardinality(StartingIn(run))

Accounted == /\ slots \in 0..SlotLimit
             /\ InUse <= slots
             /\ slots <= InUse + failures

(* What a step may do: keep the balance, or lose one slot to a failed save. *)
Balanced == \/ slots' - InUse' = slots - InUse /\ failures' >= failures
            \/ slots' - InUse' = slots - InUse + 1 /\ failures' = failures + 1

(* There are finitely many roles and runs with a slot in hand. *)
LEMMA FiniteUse ==
    ASSUME NEW A, A \subseteq Agents, NEW r
    PROVE  /\ IsFiniteSet(A) /\ Cardinality(A) \in Nat
           /\ IsFiniteSet(StartingIn(r)) /\ Cardinality(StartingIn(r)) \in Nat
<1>1. IsFiniteSet(1..MaxRuns)
  BY FS_Interval, LimitAssumption
<1>2. IsFiniteSet(Agents)
  BY <1>1, FiniteAssumption, FS_Product DEF Agents
<1>3. IsFiniteSet(A) /\ IsFiniteSet(StartingIn(r))
  BY <1>2, FiniteAssumption, FS_Subset DEF StartingIn
<1> QED
  BY <1>3, FS_CardinalityType

(* A balanced step keeps the slots accounted for. *)
LEMMA BalancedCounts ==
    ASSUME Shape, Shape', Accounted, Balanced,
           slots' <= slots \/ (slots < SlotLimit /\ slots' = slots + 1)
    PROVE  Accounted'
<1>1. InUse \in Nat /\ InUse' \in Nat
  <2>1. Alive \subseteq Agents /\ Alive' \subseteq Agents
    BY DEF Alive
  <2>2. /\ Cardinality(Alive) \in Nat /\ Cardinality(StartingIn(run)) \in Nat
        /\ Cardinality(Alive') \in Nat /\ Cardinality(StartingIn(run')) \in Nat
    BY <2>1, FiniteUse
  <2> QED
    BY <2>2 DEF InUse
<1>2. /\ slots \in Int /\ slots' \in Int /\ failures \in Nat /\ failures' \in Nat
      /\ SlotLimit \in Nat
  BY BoundsAssumption DEF Shape, Globals
<1>3. slots \in 0..SlotLimit /\ InUse <= slots /\ slots <= InUse + failures
  BY DEF Accounted
<1>4. InUse' <= slots' /\ slots' <= InUse' + failures'
  <2>1. \A s, r, i, j \in Int, f, g \in Nat :
           /\ i <= s /\ s <= i + f
           /\ \/ r - j = s - i /\ g >= f
              \/ r - j = s - i + 1 /\ g = f + 1
           => j <= r /\ r <= j + g
    OBVIOUS
  <2>2. InUse \in Int /\ InUse' \in Int
    BY <1>1
  <2>3. \/ slots' - InUse' = slots - InUse /\ failures' >= failures
        \/ slots' - InUse' = slots - InUse + 1 /\ failures' = failures + 1
    BY DEF Balanced
  <2> QED
    BY <1>2, <1>3, <2>1, <2>2, <2>3
<1>5. slots' \in 0..SlotLimit
  BY <1>1, <1>2, <1>3, <1>4
<1> QED
  BY <1>4, <1>5 DEF Accounted

(* Nothing that counts changes. *)
LEMMA QuietBalance ==
    ASSUME slots' = slots, agent' = agent, failures' >= failures,
           \A u \in Teams : run'[u].pc = "starting" <=> run[u].pc = "starting"
    PROVE  Balanced
<1>1. Alive' = Alive
  BY DEF Alive
<1>2. StartingIn(run)' = StartingIn(run)
  BY DEF StartingIn
<1>3. InUse' = InUse
  BY <1>1, <1>2 DEF InUse
<1> QED
  BY <1>3 DEF Balanced

(* Saves that fail are counted. *)
LEMMA FailuresCount ==
    ASSUME Shape, NEW t \in Teams, Acts(t)
    PROVE  failures' >= failures
<1> USE DEF Save, SaveFails, NoSave
<1>0. failures \in Nat
  BY DEF Shape, Globals
<1>1. CASE User(t)
  <2>1. failures' = failures \/ failures' = failures + 1
    BY <1>1 DEF User, Confirm, CaptureBase, Allocate, Resume, Cancel, CancelRead, CancelSave,
       CancelClean, CancelReturn, Apply, CompleteReview, RemoveRun
  <2> QED
    BY <1>0, <2>1
<1>2. CASE Loop(t)
  <2>1. failures' = failures \/ failures' = failures + 1
    <3>1. CASE Turn(t) \/ Scanned(t) \/ StartCheck(t) \/ StartSave(t) \/ EndRead(t)
               \/ EndSave(t) \/ Caught(t)
      BY <3>1 DEF Turn, Scanned, StartCheck, StartSave, EndRead, EndSave, Caught
    <3>2. CASE MergeRead(t) \/ MergeSave(t) \/ MergeDecided(t) \/ MergeImport(t) \/ MergeEnd(t)
      BY <3>2 DEF MergeRead, MergeSave, MergeDecided, MergeImport, MergeEnd
    <3>3. ASSUME NEW n \in Plan(t), Consider(t, n) \/ NoRoute(t, n)
          PROVE  failures' = failures \/ failures' = failures + 1
      BY <3>3, Zenon DEF Consider, NoRoute
    <3> QED
      BY <1>2, <3>1, <3>2, <3>3 DEF Loop
  <2> QED
    BY <1>0, <2>1
<1>3. ASSUME NEW a \in AgentsOf(t), Role(t, a)
      PROVE  failures' >= failures
  <2>1. failures' = failures \/ failures' = failures + 1
    <3>1. CASE Take(t, a) \/ ReserveSave(t, a) \/ RunnerEnds(a)
      BY <3>1 DEF Take, ReserveSave, RunnerEnds
    <3>2. CASE SettleSave(t, a)
      BY <3>2, Zenon DEF SettleSave
    <3>3. CASE CloseSave(t, a) \/ ReportSave(t, a)
      BY <3>3 DEF CloseSave, ReportSave
    <3> QED
      BY <1>3, <3>1, <3>2, <3>3 DEF Role
  <2> QED
    BY <1>0, <2>1
<1> QED
  BY <1>1, <1>2, <1>3 DEF Acts

(* The user starts and ends runs, but none that has a slot in hand. *)
LEMMA UserBalance ==
    ASSUME Shape, NEW t \in Teams, User(t)
    PROVE  Balanced /\ slots' = slots
<1>1. failures' >= failures
  BY FailuresCount DEF Acts
<1>2. slots' = slots /\ agent' = agent
  BY <1>1 DEF User, Confirm, CaptureBase, Allocate, Resume, Cancel, CancelRead, CancelSave,
     CancelClean, CancelReturn, Apply, CompleteReview, RemoveRun, agentVars, slotVars
<1>3. \A u \in Teams \ {t} : run'[u] = run[u]
  <2>1. CASE Confirm(t) \/ CaptureBase(t) \/ CancelRead(t) \/ CancelSave(t) \/ CancelClean(t)
             \/ CancelReturn(t) \/ Apply(t) \/ CompleteReview(t)
    BY <2>1 DEF Confirm, CaptureBase, CancelRead, CancelSave, CancelClean, CancelReturn, Apply,
       CompleteReview
  <2>2. CASE Allocate(t) \/ Resume(t) \/ Cancel(t) \/ RemoveRun(t)
    <3>1. CASE Allocate(t)
      <4>1. run' = run \/ run' = [run EXCEPT ![t] = [Idle EXCEPT !.pc = "loop"]]
        BY <3>1, Zenon DEF Allocate
      <4> QED
        BY <4>1 DEF Shape, Domains
    <3>2. CASE Resume(t)
      BY <3>2 DEF Resume
    <3>3. CASE Cancel(t)
      BY <3>3 DEF Cancel, Unqueued, Shape, Domains
    <3>4. CASE RemoveRun(t)
      BY <3>4 DEF RemoveRun
    <3> QED
      BY <2>2, <3>1, <3>2, <3>3, <3>4
  <2> QED
    BY <2>1, <2>2 DEF User
<1>4. run'[t].pc = "starting" <=> run[t].pc = "starting"
  <2>1. CASE Confirm(t) \/ CaptureBase(t) \/ Resume(t) \/ Cancel(t) \/ CancelRead(t)
    BY <2>1, ConfirmDoes, CaptureBaseDoes, ResumeDoes, CancelDoes, CancelReadDoes
  <2>2. CASE CancelSave(t) \/ CancelClean(t) \/ CancelReturn(t)
    BY <2>2, CancelSaveDoes, CancelCleanDoes, CancelReturnDoes
  <2>3. CASE Apply(t) \/ CompleteReview(t) \/ RemoveRun(t)
    BY <2>3, ApplyDoes, CompleteReviewDoes, RemoveRunDoes
  <2>4. CASE Allocate(t)
    BY <2>4, AllocateDoes DEF Shape, Control
  <2> QED
    BY <2>1, <2>2, <2>3, <2>4 DEF User
<1> QED
  BY <1>1, <1>2, <1>3, <1>4, QuietBalance

(* A release gives one slot back, or hands it on. *)
LEMMA ReleaseBalance ==
    ASSUME Shape, NEW r, DOMAIN r = Teams, NEW q, Waiting(r, q), Release(r, q)
    PROVE  /\ slots' - Cardinality(StartingIn(run')) = slots - 1 - Cardinality(StartingIn(r))
           /\ slots' <= slots
<1>1. slots \in Int
  BY DEF Shape, Globals
<1>2. /\ IsFiniteSet(StartingIn(r)) /\ Cardinality(StartingIn(r)) \in Nat
  BY FiniteUse
<1>3. CASE slots' = slots - 1 /\ run' = r
  BY <1>1, <1>2, <1>3
<1>4. ASSUME slots' = slots, NEW u \in Teams, r[u].pc = "queued",
             run' = [r EXCEPT ![u].pc = "starting"]
      PROVE  /\ slots' - Cardinality(StartingIn(run')) = slots - 1 - Cardinality(StartingIn(r))
             /\ slots' <= slots
  <2>1. run'[u].pc = "starting" /\ \A v \in Teams \ {u} : run'[v] = r[v]
    BY <1>4
  <2>2. StartingIn(run') = StartingIn(r) \cup {u} /\ u \notin StartingIn(r)
    BY <1>4, <2>1 DEF StartingIn
  <2>3. Cardinality(StartingIn(run')) = Cardinality(StartingIn(r)) + 1
    BY <1>2, <2>2, FS_AddElement
  <2> QED
    BY <1>1, <1>2, <1>4, <2>3
<1>5. \/ slots' = slots - 1 /\ run' = r
      \/ /\ slots' = slots
         /\ \E u \in Teams : r[u].pc = "queued" /\ run' = [r EXCEPT ![u].pc = "starting"]
  BY Released
<1> QED
  BY <1>3, <1>4, <1>5

(* One run more, or one fewer, has a slot in hand. *)
LEMMA StartingMore ==
    ASSUME NEW t \in Teams, NEW r, NEW s, r[t].pc # "starting", s[t].pc = "starting",
           \A u \in Teams \ {t} : s[u] = r[u]
    PROVE  Cardinality(StartingIn(s)) = Cardinality(StartingIn(r)) + 1
<1>1. IsFiniteSet(StartingIn(r)) /\ Cardinality(StartingIn(r)) \in Nat
  BY FiniteUse
<1>2. StartingIn(s) = StartingIn(r) \cup {t} /\ t \notin StartingIn(r)
  BY DEF StartingIn
<1> QED
  BY <1>1, <1>2, FS_AddElement

(* The loop thinks, reads and saves without touching the slots. *)
LEMMA LoopQuiet ==
    ASSUME Shape, NEW t \in Teams,
           \/ Turn(t) \/ Scanned(t) \/ EndRead(t) \/ EndSave(t) \/ Caught(t)
           \/ MergeRead(t) \/ MergeSave(t) \/ MergeDecided(t) \/ MergeImport(t) \/ MergeEnd(t)
           \/ \E n \in Plan(t) : NoRoute(t, n)
    PROVE  Balanced /\ slots' = slots
<1>1. Loop(t)
  BY DEF Loop
<1>2. failures' >= failures
  BY <1>1, FailuresCount DEF Acts
<1>3. /\ slots' = slots /\ agent' = agent
      /\ run[t].pc # "starting" /\ run'[t].pc # "starting"
      /\ \A u \in Teams \ {t} : run'[u] = run[u]
  <2> USE DEF Shape, Domains, Throw, Return, Step, slotVars
  <2>1. CASE Turn(t)
    BY <2>1, TurnDoes DEF Turn
  <2>2. CASE Scanned(t)
    BY <2>2, ScannedDoes DEF Scanned
  <2>3. CASE EndRead(t)
    <3>1. /\ run[t].pc \in {"fail", "pause"} /\ run'[t].pc \in {"failing", "pausing"}
          /\ agent' = agent
      BY <2>3, EndReadDoes
    <3>2. slots' = slots /\ \A u \in Teams \ {t} : run'[u] = run[u]
      BY <2>3 DEF EndRead
    <3> QED
      BY <3>1, <3>2
  <2>4. CASE EndSave(t)
    BY <2>4, EndSaveDoes, ZenonT(60) DEF EndSave
  <2>5. CASE Caught(t)
    BY <2>5, CaughtDoes DEF Caught
  <2>6. CASE MergeRead(t)
    BY <2>6, MergeReadDoes DEF MergeRead
  <2>7. CASE MergeSave(t)
    BY <2>7, MergeSaveDoes DEF MergeSave
  <2>8. CASE MergeDecided(t)
    BY <2>8, MergeDecidedDoes, ZenonT(60) DEF MergeDecided
  <2>9. CASE MergeImport(t)
    BY <2>9, MergeImportDoes DEF MergeImport
  <2>10. CASE MergeEnd(t)
    BY <2>10, MergeEndDoes, ZenonT(60) DEF MergeEnd
  <2>11. ASSUME NEW n \in Plan(t), NoRoute(t, n)
         PROVE  /\ slots' = slots /\ agent' = agent
                /\ run[t].pc # "starting" /\ run'[t].pc # "starting"
                /\ \A u \in Teams \ {t} : run'[u] = run[u]
    <3>1. \/ run' = [run EXCEPT ![t].todo = @ \ {n}]
          \/ Throw(t)
      BY <2>11, Zenon DEF NoRoute
    <3>2. slots' = slots
      BY <2>11 DEF NoRoute
    <3> QED
      BY <2>11, <3>1, <3>2, NoRouteDoes
  <2> QED
    BY <2>1, <2>2, <2>3, <2>4, <2>5, <2>6, <2>7, <2>8, <2>9, <2>10, <2>11
<1>4. \A u \in Teams : run'[u].pc = "starting" <=> run[u].pc = "starting"
  BY <1>3
<1> QED
  BY <1>2, <1>3, <1>4, QuietBalance

(* A slot is taken for a task the loop wants to start, if one is free. *)
LEMMA ConsiderBalance ==
    ASSUME Shape, NEW t \in Teams, NEW n \in Plan(t), Consider(t, n)
    PROVE  Balanced /\ (slots' = slots \/ (slots < SlotLimit /\ slots' = slots + 1))
<1>1. Loop(t)
  BY DEF Loop
<1>2. failures' >= failures /\ slots \in Int
  BY <1>1, FailuresCount DEF Acts, Shape, Globals
<1>3. /\ agent' = agent /\ run[t].pc = "scan" /\ run'[t].pc \in {"scan", "starting", "queued"}
  BY ConsiderDoes
<1>4. \A u \in Teams \ {t} : run'[u] = run[u]
  BY DEF Consider, Shape, Domains
<1>5. \/ slots' = slots /\ run'[t].pc # "starting"
      \/ slots < SlotLimit /\ slots' = slots + 1 /\ run'[t].pc = "starting"
  <2>1. run[t] \in RunsOf(t) /\ DOMAIN run = Teams
    BY DEF Shape, Control, Domains
  <2> QED
    BY <1>3, <2>1 DEF Consider, slotVars, RunsOf
<1>6. CASE slots' = slots /\ run'[t].pc # "starting"
  BY <1>2, <1>3, <1>4, <1>6, QuietBalance
<1>7. CASE slots < SlotLimit /\ slots' = slots + 1 /\ run'[t].pc = "starting"
  <2>1. Cardinality(StartingIn(run')) = Cardinality(StartingIn(run)) + 1
    BY <1>3, <1>4, <1>7, StartingMore
  <2>2. Alive' = Alive
    BY <1>3 DEF Alive
  <2>3. Cardinality(Alive) \in Nat /\ Cardinality(StartingIn(run)) \in Nat
    BY FiniteUse DEF Alive
  <2>4. InUse' = InUse + 1 /\ InUse \in Nat
    BY <2>1, <2>2, <2>3 DEF InUse
  <2> QED
    BY <1>2, <1>7, <2>4 DEF Balanced
<1> QED
  BY <1>5, <1>6, <1>7

(* The slot is given back when the task can no longer be started. *)
LEMMA StartCheckBalance ==
    ASSUME Shape, NEW t \in Teams, StartCheck(t)
    PROVE  Balanced /\ slots' <= slots
<1>1. Loop(t)
  BY DEF Loop
<1>2. failures' >= failures /\ slots \in Int /\ agent' = agent
  BY <1>1, FailuresCount, StartCheckDoes DEF Acts, Shape, Globals
<1> DEFINE r == [run EXCEPT ![t].pc = "scan", ![t].node = NoNode]
<1>3. UNCHANGED <<run, slotVars>> \/ Release(r, queue)
  BY Zenon DEF StartCheck
<1>4. CASE UNCHANGED <<run, slotVars>>
  BY <1>2, <1>4, QuietBalance DEF slotVars
<1>5. CASE Release(r, queue)
  <2>1. run[t].pc = "starting" /\ run[t] \in RunsOf(t) /\ DOMAIN run = Teams
    BY DEF StartCheck, Shape, Control, Domains
  <2>2. DOMAIN r = Teams /\ r[t].pc = "scan" /\ \A u \in Teams \ {t} : r[u] = run[u]
    BY <2>1 DEF RunsOf
  <2>3. Release(r, queue)
    BY <1>5
  <2> HIDE DEF r
  <2>4. Waiting(r, queue)
    BY <2>1, <2>2, StillWaiting
  <2>5. /\ slots' - Cardinality(StartingIn(run')) = slots - 1 - Cardinality(StartingIn(r))
        /\ slots' <= slots
    BY <2>2, <2>3, <2>4, ReleaseBalance
  <2>6. Cardinality(StartingIn(run)) = Cardinality(StartingIn(r)) + 1
    BY <2>1, <2>2, StartingMore
  <2>7. Alive' = Alive
    BY <1>2 DEF Alive
  <2>8. /\ Cardinality(Alive) \in Nat /\ Cardinality(StartingIn(run)) \in Nat
        /\ Cardinality(StartingIn(run')) \in Nat /\ Cardinality(StartingIn(r)) \in Nat
    BY FiniteUse DEF Alive
  <2>9. slots' \in Int
    BY <1>1, ActsApart DEF Acts, Apart, Globals
  <2>10. slots' - InUse' = slots - InUse
    BY <1>2, <2>5, <2>6, <2>7, <2>8, <2>9 DEF InUse
  <2> QED
    BY <1>2, <2>5, <2>10 DEF Balanced
<1> QED
  BY <1>2, <1>3, <1>4, <1>5

(* The role takes the slot over; if the save fails, nobody has it. *)
LEMMA StartSaveBalance ==
    ASSUME Shape, NEW t \in Teams, Sounds(t), Fresh(t), StartSave(t)
    PROVE  Balanced /\ slots' = slots
<1>1. Loop(t)
  BY DEF Loop
<1> DEFINE a == <<run[t].node, runs[t]>>
<1>2. slots \in Int /\ slots' = slots /\ failures \in Nat
  BY DEF StartSave, slotVars, Shape, Globals
<1>3. /\ run[t].pc = "starting" /\ run[t].node \in Plan(t) /\ holder[t].op = "start"
      /\ \/ run'[t].pc = "scan" /\ agent' = [agent EXCEPT ![a] = [Off EXCEPT !.phase = "working"]]
         \/ run'[t].pc = "caught" /\ agent' = agent
  BY StartSaveDoes
<1>4. \A u \in Teams \ {t} : run[u] = run'[u]
  BY DEF StartSave, Throw, Shape, Domains
<1>5. Cardinality(StartingIn(run)) = Cardinality(StartingIn(run')) + 1
  <2>1. run'[t].pc # "starting"
    BY <1>3
  <2> QED
    BY <1>3, <1>4, <2>1, StartingMore
<1>6. /\ IsFiniteSet(Alive) /\ Cardinality(Alive) \in Nat
      /\ Cardinality(StartingIn(run)) \in Nat /\ Cardinality(StartingIn(run')) \in Nat
  BY FiniteUse DEF Alive
<1>7. \/ /\ Save(t, StartNode(seen[t], run[t].node)) /\ run'[t].pc = "scan"
         /\ agent' = [agent EXCEPT ![a] = [Off EXCEPT !.phase = "working"]]
      \/ SaveFails /\ agent' = agent
  <2>1. \/ /\ Save(t, StartNode(seen[t], run[t].node))
           /\ agent' = [agent EXCEPT ![a] = [Off EXCEPT !.phase = "working"]]
           /\ run' = [run EXCEPT ![t].pc = "scan", ![t].node = NoNode,
                                 ![t].busy = @ \cup {run[t].node}]
        \/ SaveFails /\ agent' = agent
    BY Zenon DEF StartSave
  <2>2. run[t] \in RunsOf(t) /\ DOMAIN run = Teams
    BY DEF Shape, Control, Domains
  <2> QED
    BY <2>1, <2>2 DEF RunsOf
<1>8. CASE /\ Save(t, StartNode(seen[t], run[t].node)) /\ run'[t].pc = "scan"
           /\ agent' = [agent EXCEPT ![a] = [Off EXCEPT !.phase = "working"]]
  <2>1. failures' = failures
    BY <1>8 DEF Save
  <2>2. a \in AgentsOf(t) /\ a \in Agents
    <3>1. runs[t] >= 1
      BY <1>3 DEF Shape, Control, Loops
    <3> QED
      BY <1>3, <3>1, AgentOfRun, AgentShape
  <2>3. a \notin Alive
    <3>1. seen[t].state = "running" /\ run[t].node \in Ready(seen[t])
      BY <1>3 DEF Sounds
    <3>2. seen[t].node[run[t].node] = "pending"
      BY <3>1 DEF Ready
    <3>3. Begun(t, seen[t])
      BY <1>3 DEF Fresh, Read, Readers
    <3> QED
      BY <1>3, <3>1, <3>2, <3>3 DEF Begun
  <2>4. Alive' = Alive \cup {a}
    <3> HIDE DEF a
    <3>1. agent \in [Agents -> AgentStates]
      BY DEF Shape, Globals
    <3>2. agent'[a].phase = "working" /\ \A b \in Agents : b # a => agent'[b] = agent[b]
      BY <1>8, <2>2, <3>1 DEF Off
    <3> QED
      BY <2>2, <3>2 DEF Alive
  <2>5. Cardinality(Alive') = Cardinality(Alive) + 1
    BY <1>6, <2>3, <2>4, FS_AddElement
  <2>6. InUse' = InUse
    BY <1>5, <1>6, <2>5 DEF InUse
  <2>7. InUse \in Nat /\ InUse' \in Nat
    BY <1>6, <2>6 DEF InUse
  <2> QED
    BY <1>2, <2>1, <2>6, <2>7 DEF Balanced
<1>9. CASE SaveFails /\ agent' = agent
  <2>1. failures' = failures + 1
    BY <1>9 DEF SaveFails
  <2>2. Alive' = Alive
    BY <1>9 DEF Alive
  <2>3. InUse = InUse' + 1 /\ InUse \in Nat /\ InUse' \in Nat
    BY <1>5, <1>6, <2>2 DEF InUse
  <2>4. slots' - InUse' = slots - InUse + 1
    BY <1>2, <2>3
  <2> QED
    BY <1>2, <2>1, <2>4 DEF Balanced
<1> QED
  BY <1>2, <1>7, <1>8, <1>9

(* Every step of the run loop is balanced. *)
LEMMA LoopBalance ==
    ASSUME Shape, NEW t \in Teams, Sounds(t), Fresh(t), Loop(t)
    PROVE  Balanced /\ (slots' <= slots \/ (slots < SlotLimit /\ slots' = slots + 1))
<1>1. slots \in Int
  BY DEF Shape, Globals
<1>2. CASE StartCheck(t)
  BY <1>2, StartCheckBalance
<1>3. CASE StartSave(t)
  BY <1>1, <1>3, StartSaveBalance
<1>4. ASSUME NEW n \in Plan(t), Consider(t, n)
      PROVE  Balanced /\ (slots' <= slots \/ (slots < SlotLimit /\ slots' = slots + 1))
  BY <1>1, <1>4, ConsiderBalance
<1>5. CASE \/ Turn(t) \/ Scanned(t) \/ EndRead(t) \/ EndSave(t) \/ Caught(t)
           \/ MergeRead(t) \/ MergeSave(t) \/ MergeDecided(t) \/ MergeImport(t) \/ MergeEnd(t)
           \/ \E n \in Plan(t) : NoRoute(t, n)
  BY <1>1, <1>5, LoopQuiet
<1> QED
  BY <1>2, <1>3, <1>4, <1>5 DEF Loop

(* A role that leaves gives its slot back, or hands it on. *)
LEMMA LeavesBalance ==
    ASSUME Shape, NEW t \in Teams, NEW a \in AgentsOf(t), a \in Alive,
           NEW threw \in BOOLEAN, Leaves(t, a, threw),
           failures' >= failures, slots' \in Int
    PROVE  Balanced /\ slots' <= slots
<1>1. /\ DOMAIN run = Teams /\ run[t] \in RunsOf(t) /\ slots \in Int /\ a \in Agents
      /\ Waiting(run, queue)
  BY AgentShape DEF Shape, Domains, Control, Globals
<1>2. \E r, q : /\ DOMAIN r = Teams /\ Waiting(r, q) /\ Release(r, q)
                /\ StartingIn(r) = StartingIn(run)
  <2>1. ASSUME run[t].pc = "waiting", NEW x, x.pc \in {"caught", "loop"},
               Release([run EXCEPT ![t] = x], queue)
        PROVE  \E r, q : /\ DOMAIN r = Teams /\ Waiting(r, q) /\ Release(r, q)
                         /\ StartingIn(r) = StartingIn(run)
    <3> DEFINE r == [run EXCEPT ![t] = x]
    <3>1. DOMAIN r = Teams /\ r[t] = x /\ \A u \in Teams \ {t} : r[u] = run[u]
      BY <1>1
    <3>2. Release(r, queue)
      BY <2>1
    <3> HIDE DEF r
    <3>3. Waiting(r, queue)
      BY <2>1, <3>1, StillWaiting
    <3>4. StartingIn(r) = StartingIn(run)
      BY <2>1, <3>1 DEF StartingIn
    <3> QED
      BY <3>1, <3>2, <3>3, <3>4
  <2>2. CASE Release(Unqueued(t), Others(t, queue))
    <3> DEFINE r == Unqueued(t)
    <3>1. /\ DOMAIN r = Teams /\ Waiting(r, Others(t, queue))
          /\ \A u \in Teams \ {t} : r[u] = run[u]
      BY UnqueuedWait
    <3>2. r[t].pc = IF run[t].pc = "queued" THEN "scan" ELSE run[t].pc
      BY UnqueuedRun
    <3> HIDE DEF r
    <3>3. StartingIn(r) = StartingIn(run)
      BY <3>1, <3>2 DEF StartingIn
    <3> QED
      BY <2>2, <3>1, <3>3 DEF r
  <2>3. /\ [Idle EXCEPT !.pc = "caught"].pc = "caught"
        /\ [run[t] EXCEPT !.pc = "loop"].pc = "loop"
    BY <1>1 DEF RunsOf, Idle
  <2>4. \/ Release(run, queue)
        \/ Release(Unqueued(t), Others(t, queue))
        \/ /\ run[t].pc = "waiting"
           /\ \/ Release([run EXCEPT ![t] = [Idle EXCEPT !.pc = "caught"]], queue)
              \/ Release([run EXCEPT ![t] = [run[t] EXCEPT !.pc = "loop"]], queue)
    BY <1>1, Zenon DEF Leaves
  <2>5. CASE Release(run, queue)
    BY <1>1, <2>5
  <2>6. CASE /\ run[t].pc = "waiting"
             /\ \/ Release([run EXCEPT ![t] = [Idle EXCEPT !.pc = "caught"]], queue)
                \/ Release([run EXCEPT ![t] = [run[t] EXCEPT !.pc = "loop"]], queue)
    <3>1. CASE Release([run EXCEPT ![t] = [Idle EXCEPT !.pc = "caught"]], queue)
      <4> DEFINE x == [Idle EXCEPT !.pc = "caught"]
      <4>1. x.pc \in {"caught", "loop"}
        BY <2>3
      <4>2. Release([run EXCEPT ![t] = x], queue)
        BY <3>1
      <4> HIDE DEF x
      <4> QED
        BY <2>1, <2>6, <4>1, <4>2
    <3>2. CASE Release([run EXCEPT ![t] = [run[t] EXCEPT !.pc = "loop"]], queue)
      <4> DEFINE x == [run[t] EXCEPT !.pc = "loop"]
      <4>1. x.pc \in {"caught", "loop"}
        BY <2>3
      <4>2. Release([run EXCEPT ![t] = x], queue)
        BY <3>2
      <4> HIDE DEF x
      <4> QED
        BY <2>1, <2>6, <4>1, <4>2
    <3> QED
      BY <2>6, <3>1, <3>2
  <2> QED
    BY <2>2, <2>4, <2>5, <2>6
<1>3. /\ slots' - Cardinality(StartingIn(run')) = slots - 1 - Cardinality(StartingIn(run))
      /\ slots' <= slots
  BY <1>2, ReleaseBalance
<1>4. Alive' = Alive \ {a}
  <2>1. agent' = [agent EXCEPT ![a] = Off]
    BY DEF Leaves
  <2>2. agent'[a] = Off /\ \A b \in Agents : b # a => agent'[b] = agent[b]
    BY <1>1, <2>1, GoneFor DEF Shape, Globals
  <2> QED
    BY <2>2 DEF Alive, Off
<1>5. /\ IsFiniteSet(Alive) /\ Cardinality(Alive) \in Nat
      /\ Cardinality(StartingIn(run)) \in Nat /\ Cardinality(StartingIn(run')) \in Nat
  BY FiniteUse DEF Alive
<1>6. Cardinality(Alive') = Cardinality(Alive) - 1
  BY <1>4, <1>5, FS_RemoveElement
<1>7. slots' - InUse' = slots - InUse
  BY <1>1, <1>3, <1>5, <1>6 DEF InUse
<1> QED
  BY <1>3, <1>7 DEF Balanced

(* A role at work keeps its slot until it leaves. *)
LEMMA RoleBalance ==
    ASSUME Shape, NEW t \in Teams, NEW a \in AgentsOf(t), Role(t, a)
    PROVE  Balanced /\ slots' <= slots
<1>1. failures' >= failures /\ slots \in Int /\ slots' \in Int
  BY FailuresCount, ActsApart DEF Acts, Apart, Shape, Globals
<1>2. ASSUME slots' = slots, run' = run, agent' = agent \/ (a \in Alive' /\ OthersStay(a)),
             a \in Alive
      PROVE  Balanced /\ slots' <= slots
  <2>1. Alive' = Alive
    BY <1>2 DEF Alive, OthersStay
  <2>2. InUse' = InUse
    BY <1>2, <2>1 DEF InUse
  <2> QED
    BY <1>1, <1>2, <2>2 DEF Balanced
<1>3. CASE Take(t, a)
  <2>1. slots' = slots /\ run' = run
    BY <1>3 DEF Take, slotVars
  <2> QED
    BY <1>2, <1>3, <2>1, TakeDoes
<1>4. CASE ReserveSave(t, a)
  <2>1. slots' = slots /\ run' = run
    BY <1>4 DEF ReserveSave, agentRest, slotVars
  <2> QED
    BY <1>2, <1>4, <2>1, ReserveSaveDoes
<1>5. CASE SettleSave(t, a)
  <2>1. slots' = slots /\ run' = run
    BY <1>5, Zenon DEF SettleSave, agentRest, slotVars
  <2> QED
    BY <1>2, <1>5, <2>1, SettleSaveDoes
<1>6. CASE RunnerEnds(a)
  <2>1. slots' = slots /\ run' = run
    BY <1>6 DEF RunnerEnds, slotVars
  <2> QED
    BY <1>2, <1>6, <2>1, RunnerEndsDoes
<1>7. ASSUME Goes(a, "reporting", agent[a].end) \/ Goes(a, "closing", "error"),
             run' = run, slots' = slots, a \in Alive
      PROVE  Balanced /\ slots' <= slots
  <2>1. a \in Agents /\ agent[a].end \in Ends /\ "error" \in Ends
    BY <1>7 DEF Alive, Shape, Globals, AgentStates, Ends
  <2>2. "reporting" \in Phases \ {"off"} /\ "closing" \in Phases \ {"off"}
    BY DEF Phases
  <2>3. OthersStay(a) /\ a \in Alive'
    BY <1>7, <2>1, <2>2, GoesAlive
  <2> QED
    BY <1>2, <1>7, <2>3
<1>8. CASE CloseSave(t, a)
  <2>1. a \in Alive
    BY <1>8, CloseSaveDoes
  <2>2. \/ Leaves(t, a, TRUE)
        \/ /\ Goes(a, "reporting", agent[a].end) \/ Goes(a, "closing", "error")
           /\ run' = run /\ slots' = slots
    BY <1>8 DEF CloseSave, slotVars
  <2> QED
    BY <1>1, <1>7, <2>1, <2>2, LeavesBalance
<1>9. CASE ReportSave(t, a)
  <2>1. a \in Alive
    BY <1>9, ReportSaveDoes
  <2>2. \/ \E threw \in BOOLEAN : Leaves(t, a, threw)
        \/ Goes(a, "closing", "error") /\ run' = run /\ slots' = slots
    BY <1>9 DEF ReportSave, slotVars
  <2> QED
    BY <1>1, <1>7, <2>1, <2>2, LeavesBalance
<1> QED
  BY <1>3, <1>4, <1>5, <1>6, <1>8, <1>9 DEF Role

(* The whole invariant behind the slots. *)
Placed == /\ Ordered
          /\ \A t \in Teams : Fresh(t)
          /\ Accounted

(* Every step of a team is. *)
LEMMA ActsPlaced ==
    ASSUME Placed, Shape', NEW t \in Teams, Acts(t), Apart(t), Handed(t)
    PROVE  Accounted' /\ \A u \in Teams : Fresh(u)'
<1>1. Shape /\ Sounds(t) /\ Order(t) /\ Fresh(t) /\ Accounted
  BY DEF Placed, Ordered, SoundShape
<1>2. Balanced /\ (slots' <= slots \/ (slots < SlotLimit /\ slots' = slots + 1))
  <2>1. slots \in Int
    BY <1>1 DEF Shape, Globals
  <2> QED
    BY <1>1, <2>1, UserBalance, LoopBalance, RoleBalance DEF Acts
<1>3. Accounted'
  BY <1>1, <1>2, BalancedCounts
<1>4. Fresh(t)'
  BY <1>1, UserFresh, LoopFresh, RoleFresh DEF Acts
<1>5. ASSUME NEW u \in Teams, u # t
      PROVE  Fresh(u)'
  BY <1>1, <1>5, FreshApart DEF Placed
<1> QED
  BY <1>3, <1>4, <1>5

(* Where nothing is under way, no slot is in use. *)
LEMMA RestedPlaced == AllRested /\ slots = 0 /\ failures \in Nat
                         => Accounted /\ \A t \in Teams : Fresh(t)
<1> SUFFICES ASSUME AllRested, slots = 0, failures \in Nat
             PROVE  Accounted /\ \A t \in Teams : Fresh(t)
  OBVIOUS
<1>1. \A t \in Teams : run[t].pc = "none" /\ holder[t].op = "none"
  BY DEF AllRested, Rested, Idle, Nobody
<1>2. Alive = {}
  BY DEF AllRested, Alive, Off
<1>3. StartingIn(run) = {}
  BY <1>1 DEF StartingIn
<1>4. InUse = 0
  BY <1>2, <1>3, FS_EmptySet DEF InUse
<1>5. Accounted
  BY <1>4, BoundsAssumption DEF Accounted
<1>6. \A t \in Teams : Fresh(t)
  BY <1>1, <1>2 DEF Fresh, Begun, Read, Readers, RoleOps, Copying
<1> QED
  BY <1>5, <1>6

(* The invariant holds at first, ... *)
LEMMA InitPlaced == Init => Placed
<1> SUFFICES ASSUME Init
             PROVE  Placed
  OBVIOUS
<1>1. slots = 0 /\ failures \in Nat
  BY DEF Init
<1> QED
  BY <1>1, InitOrdered, InitRested, RestedPlaced DEF Placed

(* ... and after every step. *)
LEMMA NextPlaced == Placed /\ [Next]_vars => Placed'
<1> SUFFICES ASSUME Placed, [Next]_vars
             PROVE  Placed'
  OBVIOUS
<1>1. Ordered /\ Ordered' /\ SoundShape /\ SoundShape' /\ Shape'
  BY NextOrdered DEF Placed, Ordered, SoundShape
<1>2. ASSUME NEW t \in Teams, Acts(t)
      PROVE  Placed'
  <2>1. Apart(t) /\ Handed(t)
    BY <1>1, <1>2, ActsSound
  <2> QED
    BY <1>1, <1>2, <2>1, ActsPlaced DEF Placed
<1>3. CASE Restart
  <2>1. AllRested' /\ failures' = failures
    BY <1>1, <1>3, RestartDoes
  <2>2. slots' = 0 /\ failures \in Nat
    BY <1>1, <1>3 DEF Restart, SoundShape, Shape, Globals
  <2>3. (AllRested /\ slots = 0 /\ failures \in Nat)'
    BY <2>1, <2>2
  <2>4. (Accounted /\ \A t \in Teams : Fresh(t))'
    BY <2>3, RestedPlaced, PTL
  <2> QED
    BY <1>1, <2>4 DEF Placed
<1>4. CASE UNCHANGED vars
  <2>1. Accounted'
    BY <1>4 DEF Placed, Accounted, InUse, Alive, StartingIn, vars
  <2>2. \A t \in Teams : Fresh(t)'
    BY <1>4 DEF Placed, Fresh, Begun, Read, Copying, Alive, vars
  <2> QED
    BY <1>1, <2>1, <2>2 DEF Placed
<1> QED
  BY <1>2, <1>3, <1>4, StepsAre

(* The invariant holds throughout. *)
THEOREM AlwaysPlaced == Spec => []Placed
<1> QED
  BY InitPlaced, NextPlaced, PTL DEF Spec

(* slotPool.ts:4-5: slots are never handed out beyond the limit, and but    *)
(* for one per failed save, those taken are the ones in use.                *)
THEOREM SlotsAreAccountedFor == Spec => []SlotsAccountedFor
<1>1. Placed => SlotsAccountedFor
  BY DEF Placed, Accounted, InUse, SlotsAccountedFor, StartingIn
<1> QED
  BY <1>1, AlwaysPlaced, PTL

(* Every variable keeps to its shape, the slots taken to the limit.         *)
THEOREM TypesAreKept == Spec => []TypeOK
<1>1. Placed => TypeOK
  <2> SUFFICES ASSUME Placed
               PROVE  TypeOK
    OBVIOUS
  <2>1. Shape /\ slots \in 0..SlotLimit
    BY DEF Placed, Accounted, Ordered, SoundShape
  <2>2. \A t \in Teams : /\ team[t] \in Records(t) /\ copy[t] \in Records(t)
                         /\ seen[t] \in Records(t) /\ applying[t] \in Records(t)
    <3>1. \A t \in Teams : Sounds(t)
      BY DEF Placed, Ordered, SoundShape
    <3>2. ASSUME NEW t \in Teams
          PROVE  /\ team[t] \in Records(t) /\ copy[t] \in Records(t)
                 /\ seen[t] \in Records(t) /\ applying[t] \in Records(t)
      <4>1. Kept(t, team[t]) /\ Kept(t, copy[t]) /\ Kept(t, seen[t]) /\ Kept(t, applying[t])
        BY <3>1 DEF Sounds
      <4> QED
        BY <4>1 DEF Kept, Sound
    <3> QED
      BY <3>2
  <2>3. \A t \in Teams :
          /\ run[t].pc \in RunStates
          /\ run[t].todo \subseteq Plan(t) /\ run[t].busy \subseteq Plan(t)
          /\ runs[t] \in 0..MaxRuns
          /\ stop[t] \in {"no", "asked", "saving", "cleaning", "waiting"}
          /\ spent[t] \in Nat
    BY <2>1 DEF Shape, Control, RunsOf
  <2> QED
    BY <2>1, <2>2, <2>3 DEF TypeOK, Shape, Globals, Waiting
<1> QED
  BY <1>1, AlwaysPlaced, PTL

-----------------------------------------------------------------------------
(* What the requests cost is on the books: in the record on disk, and in    *)
(* every record that is still to be saved.  A role asks for budget only     *)
(* while its team runs.  Until the run loop has decided how a run ends, what *)
(* the holder of the lock has read is what is on disk.                      *)
(*                                                                         *)
(* One interleaving breaks this: a role of an earlier run that nobody can   *)
(* abort any more asks for budget, and finds its task under way in a later  *)
(* run, while the loop of that run, which has no roles left, saves a pause. *)

Deciding == {"loop", "scan", "queued", "starting", "waiting", "fail", "failing",
             "pause", "pausing", "merge", "save"}

(* What was sent is used or set aside in r. *)
Covered(t, r) == r.state # "removed" => spent[t] <= Committed(r)

(* A role has read that it may ask, and is about to be granted a request. *)
Asking(t) == holder[t].op = "reserve" /\ MayAsk(seen[t], holder[t].agent[1])

Still(t, r) == \A n \in Plan(t) : r.node[n] # "running"

Current(t) == /\ Read(t) /\ run[t].pc \in Deciding => seen[t] = team[t]
              /\ run[t].pc \in {"fail", "failing"} => Still(t, team[t])

(* The budget of one team. *)
Spending(t) ==
    /\ Current(t)
    /\ Covered(t, team[t])
    /\ Read(t) => Covered(t, seen[t])
    /\ Copying(t) => Covered(t, copy[t])
    /\ applying[t].state = "review" => Covered(t, applying[t])
    /\ Asking(t) => team[t].state = "running"

(* The condition of the theorems below. *)
PausesAlone == \A t \in Teams : ~(run[t].pc = "pausing" /\ Asking(t))

(* While a role may ask, nobody has a save in hand that could undo it.      *)
LEMMA NobodyElse ==
    ASSUME Shape, NEW t \in Teams, Sounds(t), Order(t), Current(t), PausesAlone, Asking(t)
    PROVE  /\ ~Copying(t) /\ run[t].pc \notin {"fail", "failing"}
           /\ applying[t].state # "review"
<1>1. Sound(t, team[t]) /\ Sound(t, seen[t]) /\ Sound(t, copy[t]) /\ Sound(t, applying[t])
  BY DEF Sounds, Kept
<1>2. Read(t) /\ holder[t].agent[1] \in Plan(t)
  <2>1. holder[t].op \in RoleOps /\ holder[t] \in Holders(t)
    BY DEF Asking, Shape, Control, RoleOps
  <2>2. holder[t].agent \in AgentsOf(t)
    BY <2>1 DEF Holders, WithLock, RoleOps
  <2> QED
    BY <2>1, <2>2, AgentShape DEF Read, Readers
<1>3. ~Still(t, seen[t]) /\ ~Ended(seen[t])
  <2>1. /\ seen[t].state = "running" /\ seen[t].node[holder[t].agent[1]] = "running"
        /\ DOMAIN seen[t].node = Plan(t)
    BY <1>1, RecordShape DEF Asking, MayAsk, Sound
  <2> QED
    BY <1>2, <2>1 DEF Still, Ended, AllCompleted
<1>4. run[t].pc \notin {"fail", "failing"}
  BY <1>2, <1>3 DEF Current, Deciding
<1>5. run[t].pc # "pausing"
  BY DEF PausesAlone
<1>6. run[t].pc \notin {"save", "merging", "importing"}
  <2>1. SUFFICES ASSUME run[t].pc \in {"save", "merging", "importing"} PROVE FALSE
    OBVIOUS
  <2>2. AllCompleted(copy[t])
    BY <1>1, <2>1 DEF Sounds, Sound, Finished
  <2>3. Under(copy[t], seen[t])
    BY <1>2, <2>1 DEF Order, InOrder, Copying
  <2> QED
    BY <1>1, <1>3, <2>2, <2>3, EndedUnder
<1>7. applying[t].state # "review"
  <2>1. SUFFICES ASSUME applying[t].state = "review" PROVE FALSE
    OBVIOUS
  <2>2. AllCompleted(applying[t])
    BY <1>1, <2>1 DEF Sound, Finished
  <2>3. Under(applying[t], seen[t])
    BY <1>2, <2>1 DEF Order, InOrder
  <2> QED
    BY <1>1, <1>3, <2>2, <2>3, EndedUnder
<1> QED
  BY <1>4, <1>5, <1>6, <1>7 DEF Copying

(* What follows a record is covered with it. *)
LEMMA CoveredFollows ==
    ASSUME NEW t \in Teams, NEW r, NEW s, Covered(t, r), Follows(t, r, s),
           r.state = "removed" => s.state = "removed"
    PROVE  Covered(t, s)
  BY DEF Covered, Follows

(* Nothing is saved; the lock is taken, kept or freed, a copy made. *)
LEMMA SpendQuiet ==
    ASSUME NEW t \in Teams, Spending(t), team'[t] = team[t], spent'[t] = spent[t],
           Copying(t)' => \/ Copying(t) /\ copy'[t] = copy[t]
                          \/ Covered(t, copy'[t]),
           applying'[t].state = "review" => applying'[t] \in {applying[t], team[t]},
           run'[t].pc \in Deciding => run[t].pc \in Deciding,
           run'[t].pc \in {"fail", "failing"} =>
               run[t].pc \in {"fail", "failing"} \/ Still(t, team[t]),
           \/ SameLock(t)
           \/ holder'[t].op \in Readers /\ seen'[t] = team[t]
           \/ holder'[t].op \notin Readers
    PROVE  Spending(t)'
<1>1. Read(t)' <=> holder'[t].op \in Readers
  BY DEF Read
<1>2. "reserve" \in Readers
  BY DEF Readers, RoleOps
<1>4. Current(t)'
  BY <1>1 DEF Spending, Current, Still, Read, SameLock
<1>5. Covered(t, team[t])'
  BY DEF Spending, Covered
<1>6. Read(t)' => Covered(t, seen[t])'
  BY <1>1 DEF Spending, Covered, Read, SameLock
<1>7. Copying(t)' => Covered(t, copy[t])'
  BY DEF Spending, Covered
<1>8. applying'[t].state = "review" => Covered(t, applying[t])'
  BY DEF Spending, Covered
<1>9. Asking(t)' => team'[t].state = "running"
  BY <1>2 DEF Spending, Asking, SameLock, MayAsk
<1> QED
  BY <1>4, <1>5, <1>6, <1>7, <1>8, <1>9 DEF Spending

(* The holder of the lock saves what became of the record he has read. *)
LEMMA SpendSeen ==
    ASSUME NEW t \in Teams, Spending(t), Read(t), spent'[t] = spent[t],
           Follows(t, seen[t], team'[t]), seen[t].state = "removed" => team'[t].state = "removed",
           SameRest(t), Copying(t)' => Copying(t),
           run'[t].pc \in Deciding => run[t].pc \in Deciding,
           run'[t].pc \in {"fail", "failing"} =>
               run[t].pc \in {"fail", "failing"} /\ (Still(t, seen[t]) => Still(t, team'[t])),
           \/ holder'[t].op \notin Readers
           \/ holder'[t].op # "reserve" /\ seen'[t] = team'[t]
    PROVE  Spending(t)'
<1>1. Read(t)' <=> holder'[t].op \in Readers
  BY DEF Read
<1>2. "reserve" \in Readers
  BY DEF Readers, RoleOps
<1>3. Covered(t, team'[t])
  BY CoveredFollows DEF Spending
<1>4. Current(t)'
  <2>1. run[t].pc \in {"fail", "failing"} => Still(t, seen[t])
    BY DEF Spending, Current, Deciding
  <2> QED
    BY <1>1, <2>1 DEF Current, Still
<1>5. Covered(t, team[t])'
  BY <1>3 DEF Covered
<1>6. Read(t)' => Covered(t, seen[t])'
  BY <1>1, <1>3 DEF Covered
<1>7. Copying(t)' => Covered(t, copy[t])'
  BY DEF Spending, Covered, SameRest
<1>8. applying'[t].state = "review" => Covered(t, applying[t])'
  BY DEF Spending, Covered, SameRest
<1>9. ~Asking(t)'
  BY <1>2 DEF Asking
<1> QED
  BY <1>4, <1>5, <1>6, <1>7, <1>8, <1>9 DEF Spending

(* A save without the lock, when nobody may ask. *)
LEMMA SpendStale ==
    ASSUME NEW t \in Teams, Spending(t), ~Asking(t), Covered(t, team'[t]), spent'[t] = spent[t],
           run'[t].pc \notin Deciding, SameLock(t),
           Copying(t)' => Copying(t) /\ copy'[t] = copy[t],
           applying'[t].state = "review" => applying'[t] = applying[t]
    PROVE  Spending(t)'
<1>1. Current(t)'
  BY DEF Current, Deciding
<1>2. Covered(t, team[t])'
  BY DEF Covered
<1>3. Read(t)' => Covered(t, seen[t])'
  BY DEF Spending, Covered, Read, SameLock
<1>4. Copying(t)' => Covered(t, copy[t])'
  BY DEF Spending, Covered
<1>5. applying'[t].state = "review" => Covered(t, applying[t])'
  BY DEF Spending, Covered
<1>6. ~Asking(t)'
  BY DEF Asking, SameLock
<1> QED
  BY <1>1, <1>2, <1>3, <1>4, <1>5, <1>6 DEF Spending

(* A save that nobody has read the record for. *)
LEMMA SpendFree ==
    ASSUME NEW t \in Teams, Spending(t), Covered(t, team'[t]), spent'[t] = spent[t],
           holder'[t].op \notin Readers, run'[t].pc \notin {"fail", "failing"},
           ~Copying(t)', applying'[t].state = "review" => applying'[t] = applying[t]
    PROVE  Spending(t)'
<1>1. ~Read(t)' /\ ~Asking(t)'
  BY DEF Read, Asking, Readers, RoleOps
<1>2. Current(t)'
  BY <1>1 DEF Current
<1>3. Covered(t, team[t])'
  BY DEF Covered
<1>4. applying'[t].state = "review" => Covered(t, applying[t])'
  BY DEF Spending, Covered
<1> QED
  BY <1>1, <1>2, <1>3, <1>4 DEF Spending

(* What the user does keeps the requests on the books. *)
LEMMA UserSpends ==
    ASSUME Shape, NEW t \in Teams, Sounds(t), Order(t), Spending(t), PausesAlone, User(t)
    PROVE  Spending(t)'
<1>1. /\ Sound(t, team[t]) /\ Sound(t, seen[t]) /\ Sound(t, applying[t])
      /\ Covered(t, team[t]) /\ Current(t)
  BY DEF Sounds, Kept, Spending
<1>2. /\ "none" \notin Readers /\ "capture" \notin Readers /\ "allocate" \notin Readers
      /\ "cancel" \in Readers /\ "reserve" # "cancel" /\ Nobody.op = "none"
  BY DEF Readers, RoleOps, Nobody
<1>3. \A state \in {"preparing", "paused", "cancelled", "running", "completed"} :
         state \in TeamStates /\ state # "removed"
  BY DEF TeamStates
<1>4. ASSUME \/ run'[t] = run[t]
             \/ run'[t].pc = "scan" /\ run[t].pc = "queued"
      PROVE  /\ Copying(t)' => Copying(t)
             /\ run'[t].pc \in Deciding => run[t].pc \in Deciding
             /\ run'[t].pc \in {"fail", "failing"} => run[t].pc \in {"fail", "failing"}
  BY <1>4 DEF Copying, Deciding
<1>5. ASSUME holder[t].op \in {"capture", "allocate"}
      PROVE  team[t].state = "preparing" /\ run[t].pc = "none" /\ ~Copying(t)
  BY <1>5 DEF Order, FirstOnce, Shape, Control, Copying
(* Nothing is saved. *)
<1>6. ASSUME SameBooks(t), SameRest(t), team'[t] = team[t],
             \/ run'[t] = run[t]
             \/ run'[t].pc = "scan" /\ run[t].pc = "queued",
             \/ SameLock(t)
             \/ holder'[t].op \in Readers /\ seen'[t] = team[t]
             \/ holder'[t].op \notin Readers
      PROVE  Spending(t)'
  <2>1. /\ Copying(t)' => Copying(t)
        /\ run'[t].pc \in Deciding => run[t].pc \in Deciding
        /\ run'[t].pc \in {"fail", "failing"} => run[t].pc \in {"fail", "failing"}
    BY <1>4, <1>6
  <2> QED
    BY <1>6, <2>1, SpendQuiet DEF SameBooks, SameRest
<1>7. CASE Confirm(t)
  <2>1. /\ SameBooks(t) /\ SameRest(t) /\ run'[t].pc = "none" /\ holder'[t].op \notin Readers
        /\ team[t].state = "configured" /\ team'[t] = To(team[t], "preparing")
    BY <1>2, <1>7, ConfirmDoes
  <2>2. Follows(t, team[t], team'[t])
    BY <1>1, <1>3, <2>1, OpsFollow
  <2>3. Covered(t, team'[t]) /\ ~Copying(t)'
    BY <1>1, <2>1, <2>2, CoveredFollows DEF Copying
  <2> QED
    BY <2>1, <2>3, SpendFree DEF SameBooks, SameRest
<1>8. CASE CaptureBase(t)
  <2>1. /\ SameBooks(t) /\ SameRest(t) /\ run'[t].pc = "none" /\ holder'[t].op \notin Readers
        /\ team[t].state = "preparing"
        /\ \/ team'[t] = team[t]
           \/ team'[t] = To(team[t], "paused")
           \/ team'[t] = [team[t] EXCEPT !.base = TRUE]
    BY <1>2, <1>5, <1>8, CaptureBaseDoes DEF Freed
  <2>2. /\ Follows(t, team[t], team[t]) /\ Follows(t, team[t], To(team[t], "paused"))
        /\ \A base \in BOOLEAN : Follows(t, team[t], [team[t] EXCEPT !.base = base])
    BY <1>1, <1>3, OpsFollow
  <2>3. Follows(t, team[t], team'[t])
    BY <2>1, <2>2
  <2>4. Covered(t, team'[t]) /\ ~Copying(t)'
    BY <1>1, <2>1, <2>3, CoveredFollows DEF Copying
  <2> QED
    BY <2>1, <2>4, SpendFree DEF SameBooks, SameRest
<1>9. CASE Allocate(t)
  <2>1. /\ SameRest(t) /\ spent'[t] = spent[t] /\ run'[t].pc \in {"none", "loop"}
        /\ holder'[t].op \notin Readers /\ team[t].state = "preparing"
        /\ \/ team'[t] = team[t]
           \/ team'[t] = To(team[t], "running")
           \/ \E kept \in BOOLEAN : team'[t] = [To(team[t], "paused") EXCEPT !.base = kept]
    BY <1>2, <1>5, <1>9, AllocateDoes DEF Freed
  <2>2. /\ Follows(t, team[t], team[t]) /\ Follows(t, team[t], To(team[t], "running"))
        /\ \A base \in BOOLEAN :
              Follows(t, team[t], [To(team[t], "paused") EXCEPT !.base = base])
    BY <1>1, <1>3, OpsFollow
  <2>3. Follows(t, team[t], team'[t])
    BY <2>1, <2>2
  <2>4. Covered(t, team'[t]) /\ ~Copying(t)'
    BY <1>1, <2>1, <2>3, CoveredFollows DEF Copying
  <2> QED
    BY <2>1, <2>4, SpendFree DEF SameRest
<1>10. CASE Resume(t)
  <2>1. /\ SameRest(t) /\ spent'[t] = spent[t] /\ run'[t].pc = "loop"
        /\ holder'[t].op \notin Readers /\ team[t].state = "paused"
        /\ Committed(team'[t]) = Committed(team[t])
    BY <1>1, <1>2, <1>10, ResumeDoes, ResumedSound DEF SameLock, CanResume
  <2>2. Covered(t, team'[t]) /\ ~Copying(t)'
    BY <1>1, <2>1 DEF Covered, Copying
  <2> QED
    BY <2>1, <2>2, SpendFree DEF SameRest
<1>11. CASE Cancel(t)
  BY <1>6, <1>11, CancelDoes
<1>12. CASE CancelRead(t)
  BY <1>2, <1>6, <1>12, CancelReadDoes
<1>13. CASE CancelSave(t)
  <2>1. /\ SameBooks(t) /\ SameRest(t) /\ run'[t] = run[t] /\ holder[t].op = "cancel" /\ Read(t)
    BY <1>2, <1>13, CancelSaveDoes DEF Read
  <2>2. CASE /\ May(seen[t], "cancelled")
             /\ team'[t] = PauseRunning(To(seen[t], "cancelled"))
             /\ seen'[t] = team'[t] /\ holder'[t] = holder[t]
    <3>1. seen[t].state # "removed"
      BY <2>2 DEF May, Transitions
    <3>2. Follows(t, seen[t], team'[t])
      BY <1>1, <2>2, OpsFollow
    <3>3. Still(t, team'[t])
      <4>1. "cancelled" \notin Finished
        BY DEF Finished
      <4>2. /\ Sound(t, To(seen[t], "cancelled"))
            /\ To(seen[t], "cancelled").state = "cancelled"
        BY <1>1, <1>3, <4>1, ToSound
      <4> QED
        BY <2>2, <4>1, <4>2, PauseRunningSound DEF Still
    <3>4. /\ Copying(t)' => Copying(t)
          /\ run'[t].pc \in Deciding => run[t].pc \in Deciding
          /\ run'[t].pc \in {"fail", "failing"} => run[t].pc \in {"fail", "failing"}
      BY <1>4, <2>1
    <3> QED
      BY <1>2, <2>1, <2>2, <3>1, <3>2, <3>3, <3>4, SpendSeen DEF SameBooks
  <2>3. CASE team'[t] = team[t] /\ Freed(t)
    BY <1>2, <1>6, <2>1, <2>3 DEF Freed
  <2> QED
    BY <1>13, <2>2, <2>3, CancelSaveDoes
<1>14. CASE CancelClean(t)
  <2>1. /\ SameBooks(t) /\ SameRest(t) /\ run'[t] = run[t] /\ holder'[t].op \notin Readers
        /\ Read(t)
    BY <1>2, <1>14, CancelCleanDoes DEF Read, Freed
  <2>2. CASE team'[t] = [seen[t] EXCEPT !.base = FALSE]
    <3>0. \A base \in BOOLEAN : /\ Follows(t, seen[t], [seen[t] EXCEPT !.base = base])
                                /\ [seen[t] EXCEPT !.base = base].state = seen[t].state
      BY <1>1, OpsFollow
    <3>1. Follows(t, seen[t], team'[t]) /\ team'[t].state = seen[t].state
      BY <2>2, <3>0
    <3>2. team'[t].node = seen[t].node
      BY <1>1, <2>2 DEF Sound, Records
    <3>3. /\ Copying(t)' => Copying(t)
          /\ run'[t].pc \in Deciding => run[t].pc \in Deciding
          /\ run'[t].pc \in {"fail", "failing"} => run[t].pc \in {"fail", "failing"}
      BY <1>4, <2>1
    <3> QED
      BY <2>1, <3>1, <3>2, <3>3, SpendSeen DEF SameBooks, Still
  <2>3. CASE team'[t] = team[t]
    BY <1>6, <2>1, <2>3
  <2> QED
    BY <1>14, <2>2, <2>3, CancelCleanDoes
<1>15. CASE CancelReturn(t)
  BY <1>6, <1>15, CancelReturnDoes
<1>16. CASE Apply(t)
  <2>1. /\ SameBooks(t) /\ SameLock(t) /\ copy'[t] = copy[t] /\ run'[t] = run[t]
        /\ team'[t] = team[t] /\ applying'[t] = team[t]
    BY <1>16, ApplyDoes
  <2>2. Copying(t)' => Copying(t)
    BY <1>4, <2>1
  <2> QED
    BY <2>1, <2>2, SpendQuiet DEF SameBooks
<1>17. CASE CompleteReview(t)
  <2>1. /\ SameBooks(t) /\ SameLock(t) /\ copy'[t] = copy[t] /\ run'[t] = run[t]
        /\ applying[t].state = "review" /\ applying'[t] = Configured(t)
        /\ \/ team'[t] = team[t]
           \/ team'[t] = [To(applying[t], "completed") EXCEPT !.base = FALSE]
    BY <1>17, CompleteReviewDoes
  <2>2. ~Asking(t)
    BY <1>1, <2>1, NobodyElse
  <2>3. run'[t].pc \in {"none", "done"}
    BY <2>1 DEF Order, InReview, Over, Loops
  <2>4. \A state \in TeamStates, base \in BOOLEAN :
           Follows(t, applying[t], [To(applying[t], state) EXCEPT !.base = base])
    BY <1>1, OpsFollow
  <2>5. Follows(t, applying[t], [To(applying[t], "completed") EXCEPT !.base = FALSE])
    BY <1>3, <2>4
  <2>6. Covered(t, applying[t])
    BY <2>1 DEF Spending
  <2>7. Covered(t, team'[t])
    BY <1>1, <2>1, <2>5, <2>6, CoveredFollows
  <2>8. run'[t].pc \notin Deciding /\ ~Copying(t)'
    BY <2>3 DEF Deciding, Copying
  <2>9. applying'[t].state # "review"
    BY <2>1, ConfiguredKept
  <2> QED
    BY <2>1, <2>2, <2>7, <2>8, <2>9, SpendStale DEF SameBooks
<1>18. CASE RemoveRun(t)
  <2>1. /\ SameBooks(t) /\ SameRest(t) /\ SameLock(t) /\ holder[t] = Nobody
        /\ run'[t].pc = "none"
        /\ team'[t] = [Configured(t) EXCEPT !.state = "removed"]
    BY <1>18, RemoveRunDoes
  <2>2. team'[t].state = "removed"
    BY <2>1 DEF Configured
  <2>3. Covered(t, team'[t]) /\ ~Copying(t)' /\ holder'[t].op \notin Readers
    BY <1>2, <2>1, <2>2 DEF Covered, Copying, SameLock
  <2> QED
    BY <2>1, <2>3, SpendFree DEF SameBooks, SameRest
<1> QED
  BY <1>7, <1>8, <1>9, <1>10, <1>11, <1>12, <1>13, <1>14, <1>15, <1>16, <1>17, <1>18 DEF User

(* A plan that has failed has no task under way. *)
LEMMA FailedIsStill ==
    ASSUME NEW t \in Teams, NEW r, Sound(t, r), GraphState(r) = "failed"
    PROVE  Still(t, r)
<1>1. DOMAIN r.node = Plan(t)
  BY RecordShape DEF Sound
<1>2. SUFFICES ASSUME ~Still(t, r) PROVE FALSE
  OBVIOUS
<1>3. PICK n \in Plan(t) : r.node[n] = "running"
  BY <1>2 DEF Still
<1>4. ~AllCompleted(r) /\ \E m \in DOMAIN r.node : r.node[m] \in {"running", "paused"}
  BY <1>1, <1>3 DEF AllCompleted
<1>5. GraphState(r) = "active"
  BY <1>4, Zenon DEF GraphState
<1> QED
  BY <1>5

(* So does the run loop, if its pauses keep clear of the roles. *)
LEMMA LoopSpends ==
    ASSUME Shape, NEW t \in Teams, Sounds(t), Order(t), Spending(t), PausesAlone, Loop(t)
    PROVE  Spending(t)'
<1>1. /\ Sound(t, team[t]) /\ Sound(t, seen[t]) /\ Sound(t, copy[t])
      /\ Covered(t, team[t]) /\ Current(t)
  BY DEF Sounds, Kept, Spending
<1>2. "none" \notin Readers /\ "start" \in Readers /\ "start" # "reserve" /\ Nobody.op = "none"
  BY DEF Readers, RoleOps, Nobody
<1>3. \A state \in {"paused", "failed", "review", "conflict", "completed", "merging"} :
         state \in TeamStates
  BY DEF TeamStates
<1>4. /\ \A pc \in {"loop", "scan", "queued", "starting", "waiting", "merge", "fail", "pause",
                    "save"} : pc \in Deciding
      /\ \A pc \in {"done", "caught", "merging", "importing"} : pc \notin Deciding
  BY DEF Deciding
(* The loop makes up its mind. *)
<1>5. ASSUME SameBooks(t), SameRest(t), team'[t] = team[t],
             run[t].pc \in {"loop", "scan", "starting"},
             run'[t].pc \in {"done", "merge", "scan", "waiting", "pause", "loop", "queued",
                             "starting", "caught"}
             \/ (run'[t].pc = "fail" /\ Still(t, team[t])),
             \/ SameLock(t)
             \/ holder'[t].op \in Readers /\ seen'[t] = team[t]
             \/ holder'[t].op \notin Readers
      PROVE  Spending(t)'
  <2>1. ~Copying(t)' /\ (run'[t].pc \in {"fail", "failing"} => Still(t, team[t]))
    BY <1>5 DEF Copying
  <2>2. run'[t].pc \in Deciding => run[t].pc \in Deciding
    BY <1>4, <1>5
  <2> QED
    BY <1>5, <2>1, <2>2, SpendQuiet DEF SameBooks, SameRest
<1>6. CASE Turn(t)
  <2>1. run'[t].pc = "fail" => Still(t, team[t])
    BY <1>1, <1>6, TurnDoes, FailedIsStill
  <2> QED
    BY <1>5, <1>6, <2>1, TurnDoes
<1>7. CASE Scanned(t)
  BY <1>5, <1>7, ScannedDoes
<1>8. CASE StartCheck(t)
  BY <1>2, <1>5, <1>8, StartCheckDoes
<1>9. ASSUME NEW n \in Plan(t), Consider(t, n)
      PROVE  Spending(t)'
  BY <1>5, <1>9, ConsiderDoes
<1>10. CASE StartSave(t)
  <2>1. /\ SameBooks(t) /\ SameRest(t) /\ Freed(t) /\ Read(t)
        /\ run[t].pc = "starting" /\ run'[t].pc \in {"scan", "caught"}
        /\ team'[t] = team[t] \/ team'[t] = StartNode(seen[t], run[t].node)
    BY <1>2, <1>10, StartSaveDoes DEF Read
  <2>2. CASE team'[t] = team[t]
    BY <1>2, <1>5, <2>1, <2>2 DEF Freed
  <2>3. CASE team'[t] = StartNode(seen[t], run[t].node)
    <3>1. seen[t].state = "running" /\ run[t].node \in Ready(seen[t])
      BY <1>10, StartSaveDoes DEF Sounds
    <3>2. Follows(t, seen[t], team'[t])
      BY <1>1, <2>3, <3>1, OpsFollow
    <3>3. /\ ~Copying(t)' /\ run[t].pc \in Deciding /\ holder'[t].op \notin Readers
          /\ run'[t].pc \notin {"fail", "failing"}
      BY <1>2, <1>4, <2>1 DEF Copying, Freed
    <3> QED
      BY <2>1, <3>1, <3>2, <3>3, SpendSeen DEF SameBooks
  <2> QED
    BY <2>1, <2>2, <2>3
(* The record is read for a save without the lock. *)
<1>11. CASE EndRead(t)
  <2>1. /\ SameBooks(t) /\ SameLock(t) /\ team'[t] = team[t] /\ applying'[t] = applying[t]
        /\ run[t].pc \in {"fail", "pause"} /\ copy'[t] = team[t]
        /\ run'[t].pc \in {"fail", "failing"} => run[t].pc \in {"fail", "failing"}
    BY <1>11, EndReadDoes
  <2> QED
    BY <1>1, <1>4, <2>1, SpendQuiet DEF SameBooks
<1>12. CASE MergeRead(t)
  <2>1. /\ SameBooks(t) /\ SameLock(t) /\ team'[t] = team[t] /\ applying'[t] = applying[t]
        /\ run[t].pc = "merge"
        /\ \/ /\ run'[t].pc = "save" /\ copy'[t] = To(team[t], "merging")
              /\ team[t].state = "running"
           \/ run'[t].pc = "caught"
    BY <1>12, MergeReadDoes
  <2>2. Copying(t)' => Covered(t, copy'[t])
    <3>1. Follows(t, team[t], To(team[t], "merging"))
      BY <1>1, <1>3, OpsFollow
    <3>2. team[t].state = "running" => Covered(t, To(team[t], "merging"))
      BY <1>1, <3>1, CoveredFollows
    <3> QED
      BY <2>1, <3>2 DEF Copying
  <2> QED
    BY <1>4, <2>1, <2>2, SpendQuiet DEF SameBooks
(* It is saved without the lock. *)
<1>13. ASSUME Copying(t), SameBooks(t), SameLock(t), applying'[t] = applying[t],
              run'[t].pc \notin Deciding, Copying(t)' => copy'[t] = copy[t],
              copy[t].state # "removed" \/ team'[t] = team[t],
              team'[t] = team[t] \/ Follows(t, copy[t], team'[t])
       PROVE  Spending(t)'
  <2>1. ~Asking(t)
    BY <1>1, <1>13, NobodyElse
  <2>2. Covered(t, copy[t])
    BY <1>13 DEF Spending
  <2>3. Covered(t, team'[t])
    BY <1>1, <1>13, <2>2, CoveredFollows
  <2> QED
    BY <1>13, <2>1, <2>3, SpendStale DEF SameBooks
<1>14. /\ \A state \in TeamStates : Follows(t, copy[t], To(copy[t], state))
       /\ Follows(t, copy[t], Pausing(copy[t])) /\ Follows(t, copy[t], copy[t])
  BY <1>1, OpsFollow
<1>15. run[t].pc \in {"save", "merging", "importing"} => copy[t].state # "removed"
  BY DEF Sounds
<1>16. CASE EndSave(t)
  <2>1. /\ SameBooks(t) /\ SameLock(t) /\ applying'[t] = applying[t]
        /\ Copying(t) /\ ~Copying(t)' /\ run'[t].pc \notin Deciding
    BY <1>4, <1>16, EndSaveDoes DEF Copying
  <2>2. \/ team'[t] = team[t]
        \/ May(copy[t], "failed") /\ team'[t] = To(copy[t], "failed")
        \/ May(copy[t], "paused") /\ team'[t] = Pausing(copy[t])
    BY <1>16, EndSaveDoes
  <2>3. \A state : May(copy[t], state) => copy[t].state # "removed"
    BY DEF May, Transitions
  <2> QED
    BY <1>3, <1>13, <1>14, <2>1, <2>2, <2>3
<1>17. CASE MergeSave(t)
  <2>1. /\ SameBooks(t) /\ SameLock(t) /\ applying'[t] = applying[t]
        /\ Copying(t) /\ run'[t].pc \notin Deciding /\ run[t].pc = "save"
        /\ \/ team'[t] = copy[t] /\ copy'[t] = copy[t]
           \/ team'[t] = team[t] /\ ~Copying(t)'
    BY <1>4, <1>17, MergeSaveDoes DEF Copying
  <2> QED
    BY <1>13, <1>14, <1>15, <2>1
<1>18. CASE MergeDecided(t)
  <2>1. /\ SameBooks(t) /\ SameLock(t) /\ applying'[t] = applying[t]
        /\ Copying(t) /\ ~Copying(t)' /\ run'[t].pc \notin Deciding /\ run[t].pc = "merging"
        /\ \/ team'[t] = team[t]
           \/ \E state \in {"conflict", "completed"} : team'[t] = To(copy[t], state)
    BY <1>4, <1>18, MergeDecidedDoes DEF Copying
  <2>2. team'[t] = team[t] \/ Follows(t, copy[t], team'[t])
    BY <1>3, <1>14, <2>1
  <2> QED
    BY <1>13, <1>15, <2>1, <2>2
<1>19. CASE MergeImport(t)
  <2>1. /\ SameBooks(t) /\ SameLock(t) /\ SameRest(t) /\ team'[t] = copy[t]
        /\ Copying(t) /\ run'[t].pc \notin Deciding /\ run[t].pc = "merging"
    BY <1>4, <1>19, MergeImportDoes DEF Copying
  <2> QED
    BY <1>13, <1>14, <1>15, <2>1 DEF SameRest
<1>20. CASE MergeEnd(t)
  <2>1. /\ SameBooks(t) /\ SameLock(t) /\ applying'[t] = applying[t]
        /\ Copying(t) /\ ~Copying(t)' /\ run'[t].pc \notin Deciding
        /\ run[t].pc \in {"merging", "importing"}
        /\ \/ team'[t] = team[t]
           \/ team'[t] = To(copy[t], "review")
           \/ team'[t] = To(copy[t], "paused")
    BY <1>4, <1>20, MergeEndDoes DEF Copying
  <2>2. team'[t] = team[t] \/ Follows(t, copy[t], team'[t])
    BY <1>3, <1>14, <2>1
  <2> QED
    BY <1>13, <1>15, <2>1, <2>2
(* Saved under the lock, in one go. *)
<1>21. ASSUME SameBooks(t), SameRest(t), SameLock(t), holder[t] = Nobody,
              run'[t].pc \in {"scan", "caught", "done"},
              \/ team'[t] = team[t]
              \/ team[t].state = "running" /\ Follows(t, team[t], team'[t])
       PROVE  Spending(t)'
  <2>1. Covered(t, team'[t])
    BY <1>1, <1>21, CoveredFollows
  <2>2. ~Copying(t)' /\ holder'[t].op \notin Readers
    BY <1>2, <1>21 DEF Copying, SameLock
  <2> QED
    BY <1>21, <2>1, <2>2, SpendFree DEF SameBooks, SameRest
<1>22. CASE Caught(t)
  <2>1. Follows(t, team[t], Pausing(team[t]))
    BY <1>1, OpsFollow
  <2> QED
    BY <1>21, <1>22, <2>1, CaughtDoes
<1>23. ASSUME NEW n \in Plan(t), NoRoute(t, n)
       PROVE  Spending(t)'
  <2>1. team[t].state = "running" /\ n \in Ready(team[t]) =>
           /\ Follows(t, team[t], FailNode(StartNode(team[t], n), n))
           /\ Follows(t, team[t], StartNode(team[t], n))
    BY <1>1, OpsFollow
  <2> QED
    BY <1>21, <1>23, <2>1, NoRouteDoes
<1> QED
  BY <1>6, <1>7, <1>8, <1>9, <1>10, <1>11, <1>12, <1>16, <1>17, <1>18, <1>19, <1>20, <1>22,
     <1>23 DEF Loop

(* So do the roles: a request is on the books when it is granted. *)
LEMMA RoleSpends ==
    ASSUME Shape, NEW t \in Teams, Sounds(t), Order(t), Spending(t), PausesAlone,
           NEW a \in AgentsOf(t), Role(t, a)
    PROVE  Spending(t)'
<1>1. /\ Sound(t, team[t]) /\ Sound(t, seen[t]) /\ Covered(t, team[t]) /\ Current(t)
  BY DEF Sounds, Kept, Spending
<1>2. /\ "none" \notin Readers /\ Nobody.op = "none"
      /\ \A op \in {"reserve", "settle", "close", "report"} : op \in Readers
      /\ \A op \in RoleOps : op \in Readers
  BY DEF Readers, RoleOps, Nobody
<1>3. ASSUME \/ run'[t] = run[t]
             \/ run[t].pc = "queued" /\ run'[t].pc \in {"scan", "starting"}
             \/ run[t].pc = "waiting" /\ run'[t].pc \in {"loop", "caught"}
      PROVE  /\ Copying(t)' => Copying(t)
             /\ run'[t].pc \in Deciding => run[t].pc \in Deciding
             /\ run'[t].pc \in {"fail", "failing"} => run[t].pc \in {"fail", "failing"}
  BY <1>3 DEF Copying, Deciding
<1>4. ASSUME SameBooks(t), SameRest(t),
             Copying(t)' => Copying(t), run'[t].pc \in Deciding => run[t].pc \in Deciding,
             run'[t].pc \in {"fail", "failing"} => run[t].pc \in {"fail", "failing"},
             \/ /\ team'[t] = team[t]
                /\ \/ SameLock(t)
                   \/ holder'[t].op \in Readers /\ seen'[t] = team[t]
                   \/ Freed(t)
             \/ /\ Freed(t) /\ Read(t) /\ Follows(t, seen[t], team'[t])
                /\ seen[t].state = "removed" => team'[t].state = "removed"
                /\ Still(t, seen[t]) => Still(t, team'[t])
      PROVE  Spending(t)'
  <2>1. Freed(t) => holder'[t].op \notin Readers
    BY <1>2 DEF Freed
  <2>2. CASE /\ team'[t] = team[t]
             /\ \/ SameLock(t)
                \/ holder'[t].op \in Readers /\ seen'[t] = team[t]
                \/ Freed(t)
    BY <1>4, <2>1, <2>2, SpendQuiet DEF SameBooks, SameRest
  <2>3. CASE /\ Freed(t) /\ Read(t) /\ Follows(t, seen[t], team'[t])
             /\ seen[t].state = "removed" => team'[t].state = "removed"
             /\ Still(t, seen[t]) => Still(t, team'[t])
    BY <1>4, <2>1, <2>3, SpendSeen DEF SameBooks
  <2> QED
    BY <1>4, <2>2, <2>3
<1>5. \A S \in SUBSET seen[t].reserved : /\ Follows(t, seen[t], Settle(seen[t], S))
                                         /\ Settle(seen[t], S).state = seen[t].state
                                         /\ Settle(seen[t], S).node = seen[t].node
  BY <1>1, OpsFollow, SettleSound
<1>6. CASE Take(t, a)
  <2>1. /\ SameBooks(t) /\ SameRest(t) /\ team'[t] = team[t] /\ run'[t] = run[t]
        /\ holder'[t].op \in Readers /\ seen'[t] = team[t]
    BY <1>2, <1>6, TakeDoes
  <2> QED
    BY <1>3, <1>4, <2>1
<1>7. CASE ReserveSave(t, a)
  <2>1. /\ runs'[t] = runs[t] /\ SameRest(t) /\ Freed(t) /\ run'[t] = run[t] /\ Read(t)
        /\ holder[t].op = "reserve" /\ holder[t].agent = a
    BY <1>2, <1>7, ReserveSaveDoes DEF Read
  <2>2. CASE team'[t] = team[t] /\ spent'[t] = spent[t]
    BY <1>3, <1>4, <2>1, <2>2 DEF SameBooks
  <2>3. ASSUME NEW tokens \in Sizes, MayAsk(seen[t], a[1]), HasBudget(seen[t], tokens),
               team'[t] = Reserve(seen[t], [agent |-> a, tokens |-> tokens, id |-> spent[t]]),
               spent'[t] = spent[t] + tokens
        PROVE  Spending(t)'
    <3>1. Asking(t)
      BY <2>1, <2>3 DEF Asking
    <3>2. /\ ~Copying(t) /\ run[t].pc \notin {"fail", "failing"}
          /\ applying[t].state # "review"
      BY <1>1, <3>1, NobodyElse
    <3>3. ~Copying(t)' /\ run'[t].pc \notin {"fail", "failing"} /\ applying'[t].state # "review"
      BY <2>1, <3>2 DEF Copying, SameRest
    <3>4. ~Read(t)' /\ ~Asking(t)'
      BY <1>2, <2>1 DEF Freed, Read, Asking
    <3>5. Covered(t, team[t])'
      <4> DEFINE q == [agent |-> a, tokens |-> tokens, id |-> spent[t]]
      <4>1. q \in Reservations(t) /\ q.tokens = tokens /\ q.id = spent[t]
        BY AgentShape DEF Reservations, Shape, Control
      <4>2. \A p \in seen[t].reserved : p.id # q.id
        <5>1. \A p \in seen[t].reserved : p.id < spent[t] /\ p.id \in Nat
          BY <1>1, RecordShape, ReservationShape DEF Sounds, Kept, Sound
        <5>2. spent[t] \in Nat
          BY DEF Shape, Control
        <5> QED
          BY <4>1, <5>1, <5>2
      <4> HIDE DEF q
      <4>3. Committed(Reserve(seen[t], q)) = Committed(seen[t]) + tokens
        BY <1>1, <2>3, <4>1, <4>2, ReserveSound
      <4>4. spent[t] <= Committed(seen[t])
        BY <2>1, <2>3 DEF Spending, Covered, MayAsk
      <4>5. spent[t] \in Nat /\ Committed(seen[t]) \in Nat /\ tokens \in Nat
        BY <1>1, CommittedType, LimitAssumption DEF Shape, Control
      <4>6. team'[t] = Reserve(seen[t], q)
        BY <2>3 DEF q
      <4>7. spent'[t] <= Committed(team'[t])
        BY <2>3, <4>3, <4>4, <4>5, <4>6
      <4> QED
        BY <4>7 DEF Covered
    <3> QED
      BY <3>3, <3>4, <3>5 DEF Spending, Current
  <2> QED
    BY <1>7, <2>2, <2>3, ReserveSaveDoes
<1>8. CASE SettleSave(t, a)
  <2>1. /\ SameBooks(t) /\ SameRest(t) /\ Freed(t) /\ run'[t] = run[t] /\ Read(t)
        /\ \/ team'[t] = team[t]
           \/ \E S \in SUBSET seen[t].reserved : team'[t] = Settle(seen[t], S)
    BY <1>2, <1>8, SettleSaveDoes DEF Read
  <2>2. \/ team'[t] = team[t]
        \/ /\ Follows(t, seen[t], team'[t]) /\ team'[t].state = seen[t].state
           /\ team'[t].node = seen[t].node
    BY <1>5, <2>1
  <2> QED
    BY <1>3, <1>4, <2>1, <2>2 DEF Still
<1>9. CASE RunnerEnds(a)
  <2>1. /\ SameBooks(t) /\ SameRest(t) /\ SameLock(t) /\ team'[t] = team[t]
        /\ run'[t] = run[t]
    BY <1>9, RunnerEndsDoes
  <2> QED
    BY <1>3, <1>4, <2>1
<1>10. CASE CloseSave(t, a)
  <2>1. /\ SameBooks(t) /\ SameRest(t) /\ Freed(t) /\ Onward(t, a) /\ Read(t)
        /\ \/ team'[t] = team[t]
           \/ \E S \in SUBSET seen[t].reserved : team'[t] = Settle(seen[t], S)
    BY <1>2, <1>10, CloseSaveDoes DEF Read
  <2>2. \/ team'[t] = team[t]
        \/ /\ Follows(t, seen[t], team'[t]) /\ team'[t].state = seen[t].state
           /\ team'[t].node = seen[t].node
    BY <1>5, <2>1
  <2>3. /\ Copying(t)' => Copying(t)
        /\ run'[t].pc \in Deciding => run[t].pc \in Deciding
        /\ run'[t].pc \in {"fail", "failing"} => run[t].pc \in {"fail", "failing"}
    BY <1>3, <2>1 DEF Onward
  <2> QED
    BY <1>4, <2>1, <2>2, <2>3 DEF Still
<1>11. CASE ReportSave(t, a)
  <2>1. /\ SameBooks(t) /\ SameRest(t) /\ Freed(t) /\ Onward(t, a) /\ Read(t)
    BY <1>2, <1>11, ReportSaveDoes DEF Read
  <2>2. a[1] \in Plan(t)
    BY AgentShape
  <2>3. /\ Copying(t)' => Copying(t)
        /\ run'[t].pc \in Deciding => run[t].pc \in Deciding
        /\ run'[t].pc \in {"fail", "failing"} => run[t].pc \in {"fail", "failing"}
    BY <1>3, <2>1 DEF Onward
  <2>4. CASE team'[t] # team[t]
    <3>1. seen[t].state = "running" /\ Follows(t, seen[t], team'[t])
      BY <1>1, <1>11, <2>2, <2>4, ReportSaveDoes, OpsFollow
    <3>2. Still(t, seen[t]) => Still(t, team'[t])
      <4>1. \/ seen[t].node[a[1]] = "running"
            \/ team'[t] = Pausing(seen[t])
        BY <1>11, <2>4, ReportSaveDoes
      <4> QED
        BY <1>1, <2>2, <4>1, PausingSound DEF Still
    <3> QED
      BY <1>4, <2>1, <2>3, <3>1, <3>2
  <2>5. CASE team'[t] = team[t]
    BY <1>4, <2>1, <2>3, <2>5
  <2> QED
    BY <2>4, <2>5
<1> QED
  BY <1>6, <1>7, <1>8, <1>9, <1>10, <1>11 DEF Role

(* What other teams do changes nothing of this. *)
LEMMA SpendApart ==
    ASSUME Shape, NEW t \in Teams, Apart(t), Handed(t), NEW u \in Teams, u # t, Spending(u)
    PROVE  Spending(u)'
<1>1. /\ team'[u] = team[u] /\ seen'[u] = seen[u] /\ copy'[u] = copy[u]
      /\ applying'[u] = applying[u] /\ holder'[u] = holder[u] /\ spent'[u] = spent[u]
  BY DEF Apart
<1>2. \/ run'[u] = run[u]
      \/ run[u].pc = "queued" /\ run'[u].pc = "starting"
  <2>1. run[u] \in RunsOf(u)
    BY DEF Shape, Control
  <2>2. [run[u] EXCEPT !.pc = "starting"].pc = "starting"
    BY <2>1, StartingRun
  <2> QED
    BY <2>2 DEF Handed
<1>3. /\ Copying(u)' => Copying(u)
      /\ run'[u].pc \in Deciding => run[u].pc \in Deciding
      /\ run'[u].pc \in {"fail", "failing"} => run[u].pc \in {"fail", "failing"}
  BY <1>2 DEF Copying, Deciding
<1> QED
  BY <1>1, <1>3, SpendQuiet DEF SameLock

(* The invariant behind the budget, and where it starts and goes on. *)
Billed == Ordered /\ \A t \in Teams : Spending(t)

(* It holds at first, ... *)
LEMMA InitBilled == Init => Billed
<1> SUFFICES ASSUME Init PROVE Billed
  OBVIOUS
<1>1. ASSUME NEW t \in Teams
      PROVE  Spending(t)
  <2>1. /\ run[t].pc = "none" /\ holder[t].op = "none" /\ spent[t] = 0
        /\ team[t] = Configured(t) /\ applying[t].state = "configured"
    BY ConfiguredKept DEF Init, Idle, Nobody
  <2>2. ~Read(t) /\ ~Copying(t) /\ ~Asking(t)
    BY <2>1 DEF Read, Readers, RoleOps, Copying, Asking
  <2>3. Committed(Configured(t)) = 0
    BY ConfiguredSound
  <2> QED
    BY <2>1, <2>2, <2>3 DEF Spending, Current, Covered
<1> QED
  BY <1>1, InitOrdered DEF Billed

(* ... and after every step from a state where no pause meets a role. *)
LEMMA NextBilled == Billed /\ PausesAlone /\ [Next]_vars => Billed'
<1> SUFFICES ASSUME Billed, PausesAlone, [Next]_vars PROVE Billed'
  OBVIOUS
<1>1. Ordered /\ Ordered' /\ SoundShape
  BY NextOrdered DEF Billed, Ordered
<1>2. ASSUME NEW t \in Teams, Acts(t)
      PROVE  \A u \in Teams : Spending(u)'
  <2>1. Apart(t) /\ Handed(t)
    BY <1>1, <1>2, ActsSound
  <2>2. Shape /\ Sounds(t) /\ Order(t) /\ Spending(t)
    BY <1>1 DEF Billed, Ordered, SoundShape
  <2>3. Spending(t)'
    BY <1>2, <2>2, UserSpends, LoopSpends, RoleSpends DEF Acts
  <2> QED
    BY <2>1, <2>2, <2>3, SpendApart DEF Billed
<1>3. ASSUME Restart, NEW t \in Teams
      PROVE  Spending(t)'
  <2>1. Sound(t, team[t]) /\ Covered(t, team[t]) /\ Spending(t)
    BY <1>1 DEF Billed, Spending, SoundShape, Sounds, Kept
  <2>2. /\ run'[t].pc = "none" /\ holder'[t].op = "none" /\ applying'[t] = Configured(t)
        /\ spent'[t] = spent[t]
        /\ \/ /\ team[t].state = "review"
              /\ team'[t] = [To(team[t], "completed") EXCEPT !.base = FALSE]
           \/ team'[t] = Recovered(team[t])
    BY <1>1, <1>3, RestartDoes DEF AllRested, Rested, SameBooks, Idle, Nobody
  <2>3. Covered(t, team'[t])
    <3>1. CASE /\ team[t].state = "review"
               /\ team'[t] = [To(team[t], "completed") EXCEPT !.base = FALSE]
      <4>1. \A state \in TeamStates, base \in BOOLEAN :
               Follows(t, team[t], [To(team[t], state) EXCEPT !.base = base])
        BY <2>1, OpsFollow
      <4>2. Follows(t, team[t], team'[t])
        BY <3>1, <4>1 DEF TeamStates
      <4> QED
        BY <2>1, <3>1, <4>2, CoveredFollows
    <3>2. CASE team'[t] = Recovered(team[t])
      <4>1. /\ Follows(t, team[t], Recovered(team[t]))
            /\ team[t].state = "removed" => Recovered(team[t]) = team[t]
        BY <2>1, RecoveredSound DEF Recovered
      <4> QED
        BY <2>1, <3>2, <4>1, CoveredFollows
    <3> QED
      BY <2>2, <3>1, <3>2
  <2>4. ~Copying(t)' /\ holder'[t].op \notin Readers /\ applying'[t].state # "review"
    BY <2>2, ConfiguredKept DEF Copying, Readers, RoleOps
  <2> QED
    BY <2>1, <2>2, <2>3, <2>4, SpendFree
<1>4. ASSUME UNCHANGED vars, NEW t \in Teams
      PROVE  Spending(t)'
  <2>1. /\ team' = team /\ seen' = seen /\ copy' = copy /\ applying' = applying
        /\ run' = run /\ holder' = holder /\ spent' = spent
    BY <1>4 DEF vars
  <2>2. Spending(t) /\ SameLock(t) /\ (Copying(t)' => Copying(t))
    BY <2>1 DEF Billed, SameLock, Copying
  <2> QED
    BY <2>1, <2>2, SpendQuiet
<1> QED
  BY <1>1, <1>2, <1>3, <1>4, StepsAre DEF Billed

(* teamBudget.ts: unless the run loop pauses a team while a role left over  *)
(* from an earlier run is about to be granted a request, what the requests  *)
(* really cost is on disk before they are sent and within the limit.        *)
THEOREM BudgetIsKept == Spec /\ []PausesAlone => []SpendWithinLimit
<1>1. Billed => SpendWithinLimit
  <2> SUFFICES ASSUME Billed, NEW t \in Teams, Has(t)
               PROVE  spent[t] <= Committed(team[t]) /\ Committed(team[t]) <= TokenLimit
    BY DEF SpendWithinLimit
  <2>1. Sound(t, team[t]) /\ Covered(t, team[t])
    BY DEF Billed, Spending, Ordered, SoundShape, Sounds, Kept
  <2> QED
    BY <2>1 DEF Sound, Covered, Has
<1> QED
  BY <1>1, InitBilled, NextBilled, PTL DEF Spec

(* A request is counted where it is granted. *)
LEMMA ActsSpend ==
    ASSUME Shape, NEW t \in Teams, Sounds(t), Spending(t), Acts(t), spent'[t] # spent[t]
    PROVE  team[t].state = "running"
<1>1. CASE User(t)
  <2>1. CASE Allocate(t) \/ Resume(t)
    BY <2>1, AllocateDoes, ResumeDoes
  <2>2. CASE Confirm(t) \/ CaptureBase(t) \/ Cancel(t) \/ CancelRead(t) \/ CancelSave(t)
    BY <2>2, ConfirmDoes, CaptureBaseDoes, CancelDoes, CancelReadDoes, CancelSaveDoes
       DEF SameBooks
  <2>3. CASE \/ CancelClean(t) \/ CancelReturn(t) \/ Apply(t) \/ CompleteReview(t)
             \/ RemoveRun(t)
    BY <2>3, CancelCleanDoes, CancelReturnDoes, ApplyDoes, CompleteReviewDoes, RemoveRunDoes
       DEF SameBooks
  <2> QED
    BY <1>1, <2>1, <2>2, <2>3 DEF User
<1>2. CASE Loop(t)
  <2>1. CASE Turn(t) \/ Scanned(t) \/ StartCheck(t) \/ StartSave(t) \/ EndRead(t)
    BY <2>1, TurnDoes, ScannedDoes, StartCheckDoes, StartSaveDoes, EndReadDoes DEF SameBooks
  <2>2. CASE EndSave(t) \/ Caught(t) \/ MergeRead(t) \/ MergeSave(t) \/ MergeDecided(t)
    BY <2>2, EndSaveDoes, CaughtDoes, MergeReadDoes, MergeSaveDoes, MergeDecidedDoes
       DEF SameBooks
  <2>3. CASE MergeImport(t) \/ MergeEnd(t)
    BY <2>3, MergeImportDoes, MergeEndDoes DEF SameBooks
  <2>4. ASSUME NEW n \in Plan(t), Consider(t, n) \/ NoRoute(t, n)
        PROVE  FALSE
    BY <2>4, ConsiderDoes, NoRouteDoes DEF SameBooks
  <2> QED
    BY <1>2, <2>1, <2>2, <2>3, <2>4 DEF Loop
<1>3. ASSUME NEW a \in AgentsOf(t), Role(t, a)
      PROVE  team[t].state = "running"
  <2>1. ReserveSave(t, a)
    BY <1>3, TakeDoes, SettleSaveDoes, RunnerEndsDoes, CloseSaveDoes, ReportSaveDoes
       DEF Role, SameBooks
  <2>2. Asking(t)
    BY <2>1, ReserveSaveDoes DEF Asking
  <2> QED
    BY <2>2 DEF Spending
<1> QED
  BY <1>1, <1>2, <1>3 DEF Acts

(* Nor is anything asked of a model for a team that does not run, if the    *)
(* pauses keep clear of the roles.                                          *)
THEOREM CancelledTeamsAskNothing == Spec /\ []PausesAlone => NothingSentAfterCancel
<1>1. Billed /\ [Next]_vars =>
         [\A t \in Teams : spent'[t] # spent[t] => team[t].state = "running"]_vars
  <2> SUFFICES ASSUME Billed, [Next]_vars, NEW u \in Teams, spent'[u] # spent[u]
               PROVE  team[u].state = "running"
    OBVIOUS
  <2>1. SoundShape /\ Spending(u) /\ Sounds(u) /\ Shape
    BY DEF Billed, Ordered, SoundShape
  <2>2. ASSUME NEW t \in Teams, Acts(t)
        PROVE  team[u].state = "running"
    <3>1. u = t
      BY <2>1, <2>2, ActsSound DEF Apart
    <3> QED
      BY <2>1, <2>2, <3>1, ActsSpend
  <2>3. CASE Restart
    BY <2>1, <2>3, RestartDoes DEF SameBooks
  <2>4. CASE UNCHANGED vars
    BY <2>4 DEF vars
  <2> QED
    BY <2>2, <2>3, <2>4, StepsAre
<1> QED
  BY <1>1, InitBilled, NextBilled, PTL DEF Spec, NothingSentAfterCancel

(* Who can meet a pause: no role of the run that pauses.                    *)
Deserted(t) == run[t].pc \in {"pause", "pausing"} =>
                  \A n \in Plan(t) : <<n, runs[t]>> \notin Alive

(* The one who does is a role of an earlier run. *)
LeftOver == \A t \in Teams : run[t].pc = "pausing" /\ Asking(t)
                                => holder[t].agent[2] < runs[t]

(* The loop gets there when it sees no role at work, and starts none there. *)
LEMMA ActsDesert ==
    ASSUME Shape, NEW t \in Teams, Deserted(t), Acts(t)
    PROVE  Deserted(t)'
<1>1. ASSUME runs'[t] = runs[t], \A b \in Alive' : b \in Alive,
             run'[t].pc \in {"pause", "pausing"} => run[t].pc \in {"pause", "pausing"}
      PROVE  Deserted(t)'
  BY <1>1 DEF Deserted
<1>2. agent' = agent => \A b \in Alive' : b \in Alive
  BY DEF Alive
<1>3. ASSUME run'[t].pc \notin {"pause", "pausing"}
      PROVE  Deserted(t)'
  BY <1>3 DEF Deserted
<1>4. CASE User(t)
  <2>1. CASE Allocate(t) \/ Resume(t)
    <3>1. run'[t].pc \in {"loop", "none"}
      BY <2>1, AllocateDoes, ResumeDoes DEF Shape, Control
    <3> QED
      BY <1>3, <3>1
  <2>2. CASE Confirm(t) \/ CaptureBase(t) \/ Cancel(t) \/ CancelRead(t) \/ CancelSave(t)
    BY <1>1, <1>2, <1>3, <2>2, ConfirmDoes, CaptureBaseDoes, CancelDoes, CancelReadDoes,
       CancelSaveDoes DEF SameBooks
  <2>3. CASE \/ CancelClean(t) \/ CancelReturn(t) \/ Apply(t) \/ CompleteReview(t)
             \/ RemoveRun(t)
    BY <1>1, <1>2, <1>3, <2>3, CancelCleanDoes, CancelReturnDoes, ApplyDoes,
       CompleteReviewDoes, RemoveRunDoes DEF SameBooks
  <2> QED
    BY <1>4, <2>1, <2>2, <2>3 DEF User
<1>5. CASE Loop(t)
  <2>1. CASE Turn(t) \/ StartCheck(t) \/ StartSave(t)
    <3>1. run'[t].pc \in {"done", "merge", "fail", "scan", "starting", "caught"}
      BY <2>1, TurnDoes, StartCheckDoes, StartSaveDoes, ZenonT(60)
    <3> QED
      BY <1>3, <3>1
  <2>2. CASE Scanned(t)
    <3>1. /\ runs'[t] = runs[t] /\ agent' = agent /\ run'[t].pc \in {"waiting", "pause", "loop"}
      BY <2>2, ScannedDoes DEF SameBooks
    <3>2. run'[t].pc = "pause" => Active(t) = {}
      <4>1. SUFFICES ASSUME Active(t) # {} PROVE run'[t].pc = "waiting"
        BY <3>1
      <4>2. Step(t, "waiting")
        BY <2>2, <4>1, Zenon DEF Scanned
      <4> QED
        BY <4>2 DEF Step, Shape, Domains, Control, RunsOf
    <3> QED
      BY <3>1, <3>2 DEF Deserted, Active, Alive
  <2>3. CASE EndRead(t)
    BY <1>1, <1>2, <2>3, EndReadDoes DEF SameBooks
  <2>4. CASE EndSave(t) \/ Caught(t) \/ MergeRead(t) \/ MergeSave(t) \/ MergeDecided(t)
    <3>1. run'[t].pc \in {"done", "caught", "save", "merging"}
      BY <2>4, EndSaveDoes, CaughtDoes, MergeReadDoes, MergeSaveDoes, MergeDecidedDoes
    <3> QED
      BY <1>3, <3>1
  <2>5. CASE MergeImport(t) \/ MergeEnd(t)
    <3>1. run'[t].pc \in {"importing", "done", "caught"}
      BY <2>5, MergeImportDoes, MergeEndDoes
    <3> QED
      BY <1>3, <3>1
  <2>6. ASSUME NEW n \in Plan(t), Consider(t, n) \/ NoRoute(t, n)
        PROVE  Deserted(t)'
    <3>1. run'[t].pc \in {"scan", "starting", "queued", "caught"}
      BY <2>6, ConsiderDoes, NoRouteDoes
    <3> QED
      BY <1>3, <3>1
  <2> QED
    BY <1>5, <2>1, <2>2, <2>3, <2>4, <2>5, <2>6 DEF Loop
<1>6. ASSUME NEW a \in AgentsOf(t), Role(t, a)
      PROVE  Deserted(t)'
  <2>1. /\ runs'[t] = runs[t] /\ a \in Alive
        /\ agent' = agent \/ OthersStay(a)
        /\ run'[t] = run[t] \/ run'[t].pc \in {"scan", "starting", "loop", "caught"}
    <3>1. CASE Take(t, a) \/ SettleSave(t, a) \/ RunnerEnds(a)
      BY <3>1, TakeDoes, SettleSaveDoes, RunnerEndsDoes DEF SameBooks
    <3>2. CASE ReserveSave(t, a)
      BY <3>2, ReserveSaveDoes
    <3>3. CASE CloseSave(t, a) \/ ReportSave(t, a)
      BY <3>3, CloseSaveDoes, ReportSaveDoes DEF SameBooks, Onward
    <3> QED
      BY <1>6, <3>1, <3>2, <3>3 DEF Role
  <2>2. \A b \in Alive' : b \in Alive
    BY <2>1 DEF Alive, OthersStay
  <2> QED
    BY <1>1, <1>3, <2>1, <2>2
<1> QED
  BY <1>4, <1>5, <1>6 DEF Acts

(* What other teams do starts no role of this one. *)
LEMMA DesertApart ==
    ASSUME Shape, NEW t \in Teams, Apart(t), Handed(t), NEW u \in Teams, u # t, Deserted(u)
    PROVE  Deserted(u)'
<1>1. runs'[u] = runs[u]
  BY DEF Apart
<1>2. \/ run'[u] = run[u]
      \/ run[u].pc = "queued" /\ run'[u].pc = "starting"
  <2>1. run[u] \in RunsOf(u)
    BY DEF Shape, Control
  <2>2. [run[u] EXCEPT !.pc = "starting"].pc = "starting"
    BY <2>1, StartingRun
  <2> QED
    BY <2>2 DEF Handed
<1>3. \A n \in Plan(u) : <<n, runs[u]>> \in Alive' => <<n, runs[u]>> \in Alive
  <2>1. \A n \in Plan(u) : <<n, runs[u]>> \notin AgentsOf(t)
    BY DEF AgentsOf, Plan
  <2> QED
    BY <2>1 DEF Apart, Alive
<1> QED
  BY <1>1, <1>2, <1>3 DEF Deserted

AllDeserted == SoundShape /\ \A t \in Teams : Deserted(t)

(* Every step of every team keeps this. *)
LEMMA NextDeserted == AllDeserted /\ [Next]_vars => AllDeserted'
<1> SUFFICES ASSUME AllDeserted, [Next]_vars PROVE AllDeserted'
  OBVIOUS
<1>1. SoundShape /\ Shape /\ SoundShape'
  BY NextSound DEF AllDeserted, SoundShape
<1>2. ASSUME NEW t \in Teams, Acts(t)
      PROVE  \A u \in Teams : Deserted(u)'
  BY <1>1, <1>2, ActsSound, ActsDesert, DesertApart DEF AllDeserted
<1>3. CASE Restart
  <2>1. \A t \in Teams : run'[t].pc = "none"
    BY <1>1, <1>3, RestartDoes DEF AllRested, Rested, Idle
  <2> QED
    BY <1>1, <2>1 DEF AllDeserted, Deserted
<1>4. CASE UNCHANGED vars
  BY <1>1, <1>4 DEF AllDeserted, Deserted, Alive, vars
<1> QED
  BY <1>1, <1>2, <1>3, <1>4, StepsAre DEF AllDeserted

(* A role that asks for budget while its team is being paused is left over  *)
(* from an earlier run of the team.                                         *)
THEOREM OnlyLeftOversMeetAPause == Spec => []LeftOver
<1>1. Init => AllDeserted
  <2>1. Init => \A t \in Teams : Deserted(t)
    BY DEF Init, Deserted, Idle
  <2> QED
    BY <2>1, InitSound DEF AllDeserted
<1>2. AllDeserted => LeftOver
  <2> SUFFICES ASSUME AllDeserted, NEW t \in Teams, run[t].pc = "pausing", Asking(t)
               PROVE  holder[t].agent[2] < runs[t]
    BY DEF LeftOver
  <2> DEFINE a == holder[t].agent
  <2>1. Shape /\ Deserted(t)
    BY DEF AllDeserted, SoundShape
  <2>2. Holds(t, "reserve", a)
    <3>1. holder[t] \in Holders(t) /\ holder[t].op = "reserve"
      BY <2>1 DEF Asking, Shape, Control
    <3> QED
      BY <3>1 DEF Holds, Holders
  <2>3. a \in AgentsOf(t) /\ a \in Alive
    BY <2>1, <2>2, HolderIsAlive DEF RoleOps
  <2> HIDE DEF a
  <2>4. /\ a = <<a[1], a[2]>> /\ a[1] \in Plan(t) /\ a[2] \in 1..MaxRuns
    BY <2>3, AgentShape
  <2>5. a[2] <= runs[t] /\ runs[t] \in 0..MaxRuns
    BY <2>1, <2>3 DEF Shape, Control
  <2>6. a[2] # runs[t]
    BY <2>1, <2>3, <2>4 DEF Deserted
  <2>7. a[2] < runs[t]
    BY <2>4, <2>5, <2>6, LimitAssumption
  <2> QED
    BY <2>7 DEF a
<1> QED
  BY <1>1, <1>2, NextDeserted, PTL DEF Spec

(* So a team that is never resumed keeps its budget without a condition.    *)
THEOREM FirstRunKeepsTheBudget ==
    ASSUME MaxRuns = 1
    PROVE  Spec => [](SpendWithinLimit /\ PausesAlone)
<1>1. SoundShape /\ LeftOver => PausesAlone
  <2> SUFFICES ASSUME SoundShape, LeftOver, NEW t \in Teams, run[t].pc = "pausing", Asking(t)
               PROVE  FALSE
    BY DEF PausesAlone
  <2> DEFINE a == holder[t].agent
  <2>1. Shape
    BY DEF SoundShape
  <2>2. Holds(t, "reserve", a)
    <3>1. holder[t] \in Holders(t) /\ holder[t].op = "reserve"
      BY <2>1 DEF Asking, Shape, Control
    <3> QED
      BY <3>1 DEF Holds, Holders
  <2>3. a \in AgentsOf(t)
    BY <2>1, <2>2, HolderIsAlive DEF RoleOps
  <2>4. a[2] < runs[t]
    BY DEF LeftOver
  <2> HIDE DEF a
  <2>5. a[2] \in 1..MaxRuns /\ runs[t] \in 0..MaxRuns
    BY <2>1, <2>3, AgentShape DEF Shape, Control
  <2> QED
    BY <2>4, <2>5
<1> QED
  BY <1>1, AlwaysSound, OnlyLeftOversMeetAPause, BudgetIsKept, PTL
==============================================================================
