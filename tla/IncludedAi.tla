----------------------------- MODULE IncludedAi -----------------------------
(***************************************************************************)
(* Included AI: what one account's requests hold and are charged for, in   *)
(* its two credit windows and its days                                     *)
(* (services/api/src/credits.ts, tagflow.ts, tagflowMemoryStore.ts and the *)
(* database functions reserve_unlimited_ai and settle_included_ai).        *)
(*                                                                         *)
(* A request holds, before it is sent, the most it may use; when it ends,  *)
(* the hold becomes a charge.  A window opens with the first request after *)
(* the last one ended, so a request may end after the window it was held   *)
(* in.  Reservation and settlement are transactions; the relay's worker    *)
(* may die, and a call's answer may be lost, before or after any of them.  *)
(* The relay always asks for an unlimited reservation: nothing is refused  *)
(* for want of credits.  Tokens, cost and credits are one amount here.     *)
(***************************************************************************)
EXTENDS Integers, FiniteSets, Functions

CONSTANTS
    Requests,       \* requests of the account
    Hold,           \* the most a request may use, held for it
    Usages,         \* what a provider may report that a request used
    SessionMs,      \* lengths the plan may give a session window
    WeekMs,         \* length of the weekly window
    DayMs,          \* length of a day
    MaxTime,        \* the clock's last value (a bound)
    MaxFaults       \* answers lost and calls failed (a bound)

ASSUME RequestsAssumption == IsFiniteSet(Requests)
ASSUME AmountsAssumption == Hold \in Nat \ {0} /\ Usages \subseteq Nat \ {0}
ASSUME LengthsAssumption == {WeekMs, DayMs} \cup SessionMs \subseteq Nat \ {0}
ASSUME BoundsAssumption == {MaxTime, MaxFaults} \subseteq Nat

VARIABLES
    clock,    \* the services' time
    win,      \* ai_credit_windows: the session and the week
    day,      \* tagflow_usage: a row per day
    resv,     \* tagflow_reservations
    req,      \* the relay's handler of each request
    call,     \* settlements on their way, by who asked
    faults    \* what is left of the bound

vars == <<clock, win, day, resv, req, call, faults>>

Kinds == {"session", "week"}
Callers == {"pull", "cancel"}   \* the request's own end, and its client's
Days == 0..(MaxTime \div DayMs)

NoWindow == [start |-> -1, end |-> 0, used |-> 0, held |-> 0]
NoReservation == [day |-> -1, start |-> [k \in Kinds |-> -1],
                  settled |-> FALSE, failed |-> FALSE, charged |-> 0]
NoCall == [failed |-> FALSE, used |-> 0, again |-> FALSE]

Reserved(r) == resv[r] # NoReservation

Init ==
    /\ clock = 0
    /\ win = [k \in Kinds |-> NoWindow]
    /\ day = [d \in Days |-> [requests |-> 0, used |-> 0, held |-> 0]]
    /\ resv = [r \in Requests |-> NoReservation]
    /\ req = [r \in Requests |-> [pc |-> "none", now |-> 0, settled |-> FALSE,
                                  served |-> 0]]
    /\ call = [r \in Requests |-> [c \in Callers |-> NoCall]]
    /\ faults = MaxFaults

Fault == faults > 0 /\ faults' = faults - 1

Tick ==
    /\ clock < MaxTime
    /\ clock' = clock + 1
    /\ UNCHANGED <<win, day, resv, req, call, faults>>

-----------------------------------------------------------------------------
(* The relay takes a request: the day and the time it goes by are read now.  *)
Ask(r) ==
    /\ req[r].pc = "none"
    /\ req' = [req EXCEPT ![r].pc = "asked", ![r].now = clock]
    /\ UNCHANGED <<clock, win, day, resv, call, faults>>

(* A window that has ended is replaced by a fresh one.                       *)
Opened(w, now, length) ==
    IF w.end <= now
    THEN [start |-> now, end |-> now + length, used |-> 0, held |-> 0]
    ELSE w

(* reserve_unlimited_ai                                                      *)
ReserveUnlimited(r, ms) ==
    LET now == req[r].now
        today == now \div DayMs
        opened == [k \in Kinds |-> Opened(win[k], now,
                                          IF k = "session" THEN ms ELSE WeekMs)]
    IN
    /\ resv' = [resv EXCEPT ![r] = [NoReservation EXCEPT
                   !.day = today, !.start = [k \in Kinds |-> opened[k].start]]]
    /\ day' = [day EXCEPT ![today].requests = @ + 1, ![today].held = @ + Hold]
    /\ win' = [k \in Kinds |-> [opened[k] EXCEPT !.held = @ + Hold]]

Reserve(r) ==
    /\ req[r].pc = "asked"
    /\ \E ms \in SessionMs : ReserveUnlimited(r, ms)
    /\ \/ req' = [req EXCEPT ![r].pc = "upstream"] /\ UNCHANGED faults
       \/ req' = [req EXCEPT ![r].pc = "over"] /\ Fault
    /\ UNCHANGED <<clock, call>>

ReserveFails(r) ==
    /\ req[r].pc = "asked"
    /\ Fault
    /\ req' = [req EXCEPT ![r].pc = "over"]
    /\ UNCHANGED <<clock, win, day, resv, call>>

-----------------------------------------------------------------------------
(* settle, in the relay: skipped once an answer said that it was done.       *)
Settle(r, c, what) ==
    call' = [call EXCEPT ![r][c] = IF req[r].settled THEN NoCall ELSE what]

(* What an end that is not known to be complete may be charged: what was      *)
(* reported; without a report all that the request might have used.         *)
Charges(r) == {u \in {req[r].served, Hold} : u >= req[r].served /\ u > 0}

(* The provider refuses, for good: the request is free.                      *)
Refuse(r) ==
    /\ req[r].pc = "upstream"
    /\ req' = [req EXCEPT ![r].pc = "refused"]
    /\ Settle(r, "pull", [NoCall EXCEPT !.failed = TRUE])
    /\ UNCHANGED <<clock, win, day, resv, faults>>

(* The answer is complete, streamed or whole; only a stream settles again     *)
(* when that fails.                                                         *)
Finish(r) ==
    /\ req[r].pc = "upstream"
    /\ \E used \in Usages, stream \in BOOLEAN :
          /\ req' = [req EXCEPT ![r].pc = IF stream THEN "streamed" ELSE "over",
                                ![r].served = used]
          /\ Settle(r, "pull", [NoCall EXCEPT !.used = used, !.again = stream])
    /\ UNCHANGED <<clock, win, day, resv, faults>>

(* No connection, a timeout, a broken or an invalid answer: what it used is   *)
(* not known.                                                               *)
Breaks_Free(r) ==               \* mutant: taken for a refusal
    /\ req[r].pc = "upstream"
    /\ req' = [req EXCEPT ![r].pc = "over"]
    /\ Settle(r, "pull", [NoCall EXCEPT !.failed = TRUE])
    /\ UNCHANGED <<clock, win, day, resv, faults>>

Breaks(r) ==
    /\ req[r].pc = "upstream"
    /\ req' = [req EXCEPT ![r].pc = "over"]
    /\ Settle(r, "pull", [NoCall EXCEPT !.used = Hold])
    /\ UNCHANGED <<clock, win, day, resv, faults>>

(* The client cancels the stream, which ends the read of it too: both settle. *)
Cancel(r) ==
    /\ req[r].pc \in {"upstream", "streamed"}
    /\ req' = [req EXCEPT ![r].pc = "over"]
    /\ \E used \in Charges(r) :
       LET what == [NoCall EXCEPT !.used = used] IN
       call' = [call EXCEPT ![r] = [c \in Callers |->
                  IF req[r].settled THEN NoCall
                  ELSE IF c = "cancel" THEN what
                  ELSE IF req[r].pc = "upstream"
                  THEN [what EXCEPT !.again = TRUE]
                  ELSE @[c]]]
    /\ UNCHANGED <<clock, win, day, resv, faults>>

-----------------------------------------------------------------------------
(* settle_included_ai                                                        *)

(* The first settlement of a reservation is the only one.                     *)
Settles_Again(r) == Reserved(r)         \* mutant: every one is carried out

Settles(r) == Reserved(r) /\ ~resv[r].settled

(* Only the windows it was held in, not those that began since.               *)
HeldIn_Any(r, k) == win[k].start >= 0   \* mutant: whichever window there is

HeldIn(r, k) == win[k].start = resv[r].start[k]

AtLeastZero(n) == IF n < 0 THEN 0 ELSE n

SettleIncluded(r, what) ==
    IF ~Settles(r) THEN UNCHANGED <<win, day, resv>>
    ELSE
    /\ resv' = [resv EXCEPT ![r].settled = TRUE, ![r].failed = what.failed,
                            ![r].charged = what.used]
    /\ day' = [day EXCEPT ![resv[r].day] =
                 [requests |-> @.requests - (IF what.failed THEN 1 ELSE 0),
                  used |-> @.used + what.used, held |-> @.held - Hold]]
    /\ win' = [k \in Kinds |->
                 IF HeldIn(r, k)
                 THEN [win[k] EXCEPT !.held = AtLeastZero(@ - Hold),
                                     !.used = @ + what.used]
                 ELSE win[k]]

SettleDone(r, c) ==
    /\ call[r][c] # NoCall
    /\ SettleIncluded(r, call[r][c])
    /\ call' = [call EXCEPT ![r][c] = NoCall]
    /\ req' = [req EXCEPT ![r].settled = TRUE]
    /\ UNCHANGED <<clock, faults>>

(* Done or not, the relay is told that it failed: a stream asks once more.    *)
SettleFails(r, c) ==
    /\ call[r][c] # NoCall
    /\ Fault
    /\ SettleIncluded(r, call[r][c]) \/ UNCHANGED <<win, day, resv>>
    /\ IF call[r][c].again
       THEN \E used \in Charges(r) :
              Settle(r, c, [NoCall EXCEPT !.used = used])
       ELSE call' = [call EXCEPT ![r][c] = NoCall]
    /\ UNCHANGED <<clock, req>>

(* The worker is gone, and the calls it had not sent with it.                 *)
WorkerDies(r) ==
    /\ req[r].pc \notin {"none", "asked"}
    /\ req[r].pc = "upstream" \/ \E c \in Callers : call[r][c] # NoCall
    /\ Fault
    /\ req' = [req EXCEPT ![r].pc = "over"]
    /\ call' = [call EXCEPT ![r] = [c \in Callers |-> NoCall]]
    /\ UNCHANGED <<clock, win, day, resv>>

Next ==
    \/ Tick
    \/ \E r \in Requests :
          \/ Ask(r) \/ Reserve(r) \/ ReserveFails(r)
          \/ Refuse(r) \/ Finish(r) \/ Breaks(r) \/ Cancel(r) \/ WorkerDies(r)
          \/ \E c \in Callers : SettleDone(r, c) \/ SettleFails(r, c)

Spec == Init /\ [][Next]_vars

-----------------------------------------------------------------------------
(* The checks of the tables (20261018184813_free_ai_credits.sql:11-12):      *)
(* nothing that is held or used is ever below zero.                         *)
TypeOK ==
    /\ clock \in 0..MaxTime
    /\ \A k \in Kinds : /\ win[k].start \in -1..MaxTime /\ win[k].end \in Nat
                        /\ win[k].used \in Nat /\ win[k].held \in Nat
    /\ day \in [Days -> [requests : Nat, used : Nat, held : Nat]]
    /\ \A r \in Requests :
         /\ resv[r].day \in Days \cup {-1}
         /\ \A k \in Kinds : resv[r].start[k] \in -1..MaxTime
         /\ req[r].pc \in {"none", "asked", "upstream", "refused", "streamed",
                          "over"}
         /\ req[r].served \in Usages \cup {0}

HeldBy(rs) == Hold * Cardinality({r \in rs : ~resv[r].settled})
ChargedTo(rs) == SumFunctionOnSet([r \in Requests |-> resv[r].charged], rs)
In(k) == {r \in Requests : resv[r].start[k] = win[k].start}
On(d) == {r \in Requests : resv[r].day = d}

(* tagflowTypes.ts:116, 20261018184813_free_ai_credits.sql:19: each window    *)
(* and each day holds what the requests reserved in it and not settled yet  *)
(* hold, and was charged what the others were settled for, once each,       *)
(* however late, and nothing of any other request.                          *)
BooksAddUp ==
    /\ \A k \in Kinds : win[k] # NoWindow =>
         /\ win[k].held = HeldBy(In(k))
         /\ win[k].used = ChargedTo(In(k))
    /\ \A d \in Days :
         /\ day[d].held = HeldBy(On(d))
         /\ day[d].used = ChargedTo(On(d))
         /\ day[d].requests = Cardinality({r \in On(d) : ~resv[r].failed})

(* 20261018184813_free_ai_credits.sql:90, tagflowTypes.ts:88, tagflow.ts:497: *)
(* only a request the provider refused is free; whatever breaks, dies or is *)
(* cancelled at any moment, what was served is charged or stays held.       *)
NothingServedIsFree ==
    \A r \in Requests : resv[r].settled =>
        IF resv[r].failed THEN req[r].pc = "refused"
        ELSE resv[r].charged > 0 /\ resv[r].charged >= req[r].served
=============================================================================
