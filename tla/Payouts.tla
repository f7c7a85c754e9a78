------------------------------ MODULE Payouts ------------------------------
(***************************************************************************)
(* The user side of the money service: the append-only ledger, the cached  *)
(* balance, and the life of a withdrawal (services/api/src/ledger.ts and   *)
(* withdrawals.ts, over the database functions reserve_withdrawal,         *)
(* transition_withdrawal, settle_receipt and                               *)
(* append_entry_and_update_balance).                                       *)
(*                                                                         *)
(* Every handler reads the store, decides, and only then asks for one      *)
(* atomic write; after an administrator's write comes a second one, the    *)
(* audit line.  Any number of handlers run at once and a handler may die   *)
(* between two of its steps.  So a handler here is a call with a read      *)
(* step, a commit step and (for an administrator) an audit step, and       *)
(* Crash may end a call anywhere.                                          *)
(*                                                                         *)
(* Eligibility rules about the person (address confirmed, account age,     *)
(* adult, payout details on file) only decide whether the read step lets a *)
(* request through, so a request may simply be made or not; the rules      *)
(* about money and about a request in progress are modelled.               *)
(***************************************************************************)
EXTENDS Integers, FiniteSets, Functions

CONSTANTS
    Users,          \* accounts with a ledger
    NoUser,         \* the owner of a withdrawal row that does not exist yet
    Wids,           \* withdrawal ids the id generator may hand out (a bound)
    Receipts,       \* receipt ids that may settle (a bound)
    AdjIds,         \* ids for administrators' corrections (a bound)
    Calls,          \* requests the service handles at once (a bound)
    Amounts,        \* sums a user may ask for
    Credits,        \* what one settled receipt may be worth
    Corrections,    \* what an administrator may add (signed)
    MinWithdrawal   \* PAYOUT_LIMITS.minWithdrawalMicros

ASSUME NoUserAssumption == NoUser \notin Users
ASSUME AmountsAssumption == Amounts \subseteq Nat
ASSUME CreditsAssumption == Credits \subseteq Nat
ASSUME CorrectionsAssumption == Corrections \subseteq Int \ {0}
ASSUME MinAssumption == MinWithdrawal \in Nat \ {0}

VARIABLES
    balance,    \* the cached balance of each user
    entries,    \* the ledger: a set of entries that only grows
    status,     \* withdrawals: the status column, "none" while there is no row
    owner,      \* withdrawals: whose request it is
    amount,     \* withdrawals: the sum asked for
    call,       \* what each running handler has read and will do next
    audit       \* audit lines <<outcome, withdrawal or user>> written so far

vars == <<balance, entries, status, owner, amount, call, audit>>

-----------------------------------------------------------------------------
(* Statuses and decisions. *)

Statuses == {"none", "requested", "approved", "paid",
             "rejected", "failed", "cancelled", "returned"}

InFlight == {"requested", "approved"}

(* The handlers that decide a withdrawal: the statuses each accepts when it *)
(* reads the row, and the status it writes.                                 *)
Decisions == {"cancel", "approve", "pay", "reject", "fail", "return"}

Accepts == [cancel  |-> {"requested"},
            approve |-> {"requested"},
            pay     |-> {"approved"},
            reject  |-> InFlight,
            fail    |-> {"approved"},
            return  |-> {"paid"}]

Writes == [cancel |-> "cancelled", approve |-> "approved", pay |-> "paid",
           reject |-> "rejected", fail |-> "failed", return |-> "returned"]

(* Mutant: releasing the hold expects any request still in progress.        *)
Expected_ReleaseAnyInFlight(d, seen) ==
    IF d \in {"cancel", "reject", "fail"} THEN InFlight ELSE Accepts[d]

(* release() - cancel, reject and fail - expects the very status it read.   *)
Expected(d, seen) ==
    IF d \in {"cancel", "reject", "fail"} THEN {seen} ELSE Accepts[d]

-----------------------------------------------------------------------------
(* The ledger. *)

Kinds == {"impression", "adjustment",
          "withdrawal_requested", "withdrawal_paid", "withdrawal_failed"}

(* What an entry's id says of a withdrawal, and of anything else. *)
Chapters == {"requested", "paid", "failed", "returned"}

IdSuffixes == Chapters \cup {"earned", "adjusted"}

EntryIds == (Wids \cup Receipts \cup AdjIds) \X IdSuffixes

Entries == [id : EntryIds, uid : Users, kind : Kinds, micros : Int]

Balances == [available : Int, lifetime : Int, pending : Int]

EMPTY_BALANCE == [available |-> 0, lifetime |-> 0, pending |-> 0]

(* Mutant: an administrator's correction is counted as something earned.    *)
ApplyEntry_AdjustmentEarns(b, e) ==
    [available |-> IF e.kind = "withdrawal_paid"
                   THEN b.available ELSE b.available + e.micros,
     lifetime  |-> IF e.kind \in {"impression", "adjustment"}
                   THEN b.lifetime + e.micros ELSE b.lifetime,
     pending   |-> CASE e.kind \in {"withdrawal_requested", "withdrawal_failed"}
                          -> b.pending - e.micros
                     [] e.kind = "withdrawal_paid" -> b.pending + e.micros
                     [] OTHER -> b.pending]

(* applyEntry.  "impression" stands for every earning kind: they move the   *)
(* balance alike.                                                           *)
ApplyEntry(b, e) ==
    [available |-> IF e.kind = "withdrawal_paid"
                   THEN b.available ELSE b.available + e.micros,
     lifetime  |-> IF e.kind = "impression"
                   THEN b.lifetime + e.micros ELSE b.lifetime,
     pending   |-> CASE e.kind \in {"withdrawal_requested", "withdrawal_failed"}
                          -> b.pending - e.micros
                     [] e.kind = "withdrawal_paid" -> b.pending + e.micros
                     [] OTHER -> b.pending]

IdUsed(id) == \E e \in entries : e.id = id

(* The entry and the cached balance are written in one transaction. *)
AppendEntry(e) ==
    /\ entries' = entries \cup {e}
    /\ balance' = [balance EXCEPT ![e.uid] = ApplyEntry(@, e)]

(* Mutant: a returned transfer is booked as a failed withdrawal.            *)
DecisionEntry_ReturnReleasesHold(d, w) ==
    IF d = "pay"
    THEN [id |-> <<w, "paid">>, uid |-> owner[w],
          kind |-> "withdrawal_paid", micros |-> - amount[w]]
    ELSE [id |-> <<w, IF d = "return" THEN "returned" ELSE "failed">>,
          uid |-> owner[w], kind |-> "withdrawal_failed", micros |-> amount[w]]

(* Mutant: the entry's kind is named after the status, not the ledger kind. *)
DecisionEntry_KindFromStatus(d, w) ==
    [id |-> <<w, IF d \in {"pay", "return"} THEN Writes[d] ELSE "failed">>,
     uid |-> owner[w], kind |-> Writes[d],
     micros |-> IF d = "pay" THEN - amount[w] ELSE amount[w]]

(* The entry a decision writes; approving writes none. *)
DecisionEntry(d, w) ==
    CASE d = "pay" ->
           [id |-> <<w, "paid">>, uid |-> owner[w],
            kind |-> "withdrawal_paid", micros |-> - amount[w]]
      [] d = "return" ->
           [id |-> <<w, "returned">>, uid |-> owner[w],
            kind |-> "adjustment", micros |-> amount[w]]
      [] OTHER ->
           [id |-> <<w, "failed">>, uid |-> owner[w],
            kind |-> "withdrawal_failed", micros |-> amount[w]]

-----------------------------------------------------------------------------
(* Running handlers. *)

Idle == [op |-> "idle"]

AuditLines == {Writes[d] : d \in Decisions \ {"cancel"}} \X Wids
              \cup {"adjusted"} \X Users

CallStates ==
    {Idle}
    \cup [op : {"reserve"}, uid : Users, micros : Amounts]
    \cup [op : {"decide"}, decision : Decisions, wid : Wids, seen : Statuses]
    \cup [op : {"adjust"}, uid : Users, micros : Corrections]
    \cup [op : {"audit"}, line : AuditLines]

Goto(c, next) == call' = [call EXCEPT ![c] = next]

(* Mutant: an approved request no longer counts as in progress.             *)
HasRequestInProgress_RequestedOnly(u) ==
    \E w \in Wids : owner[w] = u /\ status[w] = "requested"

HasRequestInProgress(u) == \E w \in Wids : owner[w] = u /\ status[w] \in InFlight

Init ==
    /\ balance = [u \in Users |-> EMPTY_BALANCE]
    /\ entries = {}
    /\ status = [w \in Wids |-> "none"]
    /\ owner = [w \in Wids |-> NoUser]
    /\ amount = [w \in Wids |-> 0]
    /\ call = [c \in Calls |-> Idle]
    /\ audit = {}

-----------------------------------------------------------------------------
(* requestWithdrawal. *)

(* It reads the balance and the history; either may be out of date when the *)
(* reservation is made.                                                     *)
ReadForRequest(c, u, m) ==
    /\ call[c] = Idle
    /\ balance[u].available >= MinWithdrawal
    /\ ~ HasRequestInProgress(u)
    /\ m >= MinWithdrawal
    /\ m <= balance[u].available
    /\ Goto(c, [op |-> "reserve", uid |-> u, micros |-> m])
    /\ UNCHANGED <<balance, entries, status, owner, amount, audit>>

(* reserve_withdrawal looks again, under the user's advisory lock, and      *)
(* refuses ...                                                              *)
RefuseReservation(c) ==
    /\ call[c].op = "reserve"
    /\ \/ HasRequestInProgress(call[c].uid)
       \/ balance[call[c].uid].available < call[c].micros
    /\ Goto(c, Idle)
    /\ UNCHANGED <<balance, entries, status, owner, amount, audit>>

(* Mutant: the reservation trusts the balance the handler read.             *)
ReserveWithdrawal_NoSecondLook(c, w) ==
    /\ call[c].op = "reserve"
    /\ status[w] = "none"
    /\ ~ HasRequestInProgress(call[c].uid)
    /\ status' = [status EXCEPT ![w] = "requested"]
    /\ owner' = [owner EXCEPT ![w] = call[c].uid]
    /\ amount' = [amount EXCEPT ![w] = call[c].micros]
    /\ AppendEntry([id |-> <<w, "requested">>, uid |-> call[c].uid,
                    kind |-> "withdrawal_requested", micros |-> - call[c].micros])
    /\ Goto(c, Idle)
    /\ UNCHANGED audit

(* ... or writes the row, the entry and the balance together.               *)
ReserveWithdrawal(c, w) ==
    /\ call[c].op = "reserve"
    /\ status[w] = "none"
    /\ LET u == call[c].uid
           m == call[c].micros
       IN /\ ~ HasRequestInProgress(u)
          /\ balance[u].available >= m
          /\ status' = [status EXCEPT ![w] = "requested"]
          /\ owner' = [owner EXCEPT ![w] = u]
          /\ amount' = [amount EXCEPT ![w] = m]
          /\ AppendEntry([id |-> <<w, "requested">>, uid |-> u,
                          kind |-> "withdrawal_requested", micros |-> -m])
    /\ Goto(c, Idle)
    /\ UNCHANGED audit

-----------------------------------------------------------------------------
(* cancel, approve, pay, reject, fail and return share one shape. *)

ReadForDecision(c, d, w) ==
    /\ call[c] = Idle
    /\ status[w] \in Accepts[d]
    /\ Goto(c, [op |-> "decide", decision |-> d, wid |-> w, seen |-> status[w]])
    /\ UNCHANGED <<balance, entries, status, owner, amount, audit>>

(* Mutant: no compare-and-swap, the status read earlier is trusted.         *)
TransitionAllowed_TrustsRead(x) ==
    /\ x.seen \in Accepts[x.decision]
    /\ x.decision # "approve" => ~ IdUsed(DecisionEntry(x.decision, x.wid).id)

(* transition_withdrawal locks the row and moves nothing unless the status  *)
(* is still one the caller expects.                                         *)
TransitionAllowed(x) ==
    /\ status[x.wid] \in Expected(x.decision, x.seen)
    /\ x.decision # "approve" => ~ IdUsed(DecisionEntry(x.decision, x.wid).id)

(* Mutant: the audit line is written whether or not the row changed.        *)
RefuseTransition_AuditsAnyway(c) ==
    /\ call[c].op = "decide"
    /\ ~ TransitionAllowed(call[c])
    /\ Goto(c, IF call[c].decision = "cancel"
               THEN Idle
               ELSE [op |-> "audit",
                     line |-> <<Writes[call[c].decision], call[c].wid>>])
    /\ UNCHANGED <<balance, entries, status, owner, amount, audit>>

RefuseTransition(c) ==
    /\ call[c].op = "decide"
    /\ ~ TransitionAllowed(call[c])
    /\ Goto(c, Idle)
    /\ UNCHANGED <<balance, entries, status, owner, amount, audit>>

TransitionWithdrawal(c) ==
    /\ call[c].op = "decide"
    /\ TransitionAllowed(call[c])
    /\ LET d == call[c].decision
           w == call[c].wid
       IN /\ status' = [status EXCEPT ![w] = Writes[d]]
          /\ IF d = "approve"
             THEN UNCHANGED <<balance, entries>>
             ELSE AppendEntry(DecisionEntry(d, w))
          /\ Goto(c, IF d = "cancel"
                     THEN Idle
                     ELSE [op |-> "audit", line |-> <<Writes[d], w>>])
    /\ UNCHANGED <<owner, amount, audit>>

-----------------------------------------------------------------------------
(* adjustBalance: the check against the balance it read, then an append     *)
(* that checks nothing.                                                     *)

ReadForAdjustment(c, u, m) ==
    /\ call[c] = Idle
    /\ balance[u].available + m >= 0
    /\ Goto(c, [op |-> "adjust", uid |-> u, micros |-> m])
    /\ UNCHANGED <<balance, entries, status, owner, amount, audit>>

AppendAdjustment(c, a) ==
    /\ call[c].op = "adjust"
    /\ ~ IdUsed(<<a, "adjusted">>)
    /\ AppendEntry([id |-> <<a, "adjusted">>, uid |-> call[c].uid,
                    kind |-> "adjustment", micros |-> call[c].micros])
    /\ Goto(c, [op |-> "audit", line |-> <<"adjusted", call[c].uid>>])
    /\ UNCHANGED <<status, owner, amount, audit>>

-----------------------------------------------------------------------------
(* The second write of an administrator's handler. *)
WriteAudit(c) ==
    /\ call[c].op = "audit"
    /\ audit' = audit \cup {call[c].line}
    /\ Goto(c, Idle)
    /\ UNCHANGED <<balance, entries, status, owner, amount>>

(* settle_receipt: once per receipt id, with the earning it pays. *)
SettleReceipt(u, r, m) ==
    /\ ~ IdUsed(<<r, "earned">>)
    /\ AppendEntry([id |-> <<r, "earned">>, uid |-> u,
                    kind |-> "impression", micros |-> m])
    /\ UNCHANGED <<status, owner, amount, call, audit>>

(* The process running a handler dies, or its caller hangs up. *)
Crash(c) ==
    /\ call[c] # Idle
    /\ Goto(c, Idle)
    /\ UNCHANGED <<balance, entries, status, owner, amount, audit>>

-----------------------------------------------------------------------------
Request(c) ==
    \/ \E u \in Users, m \in Amounts : ReadForRequest(c, u, m)
    \/ RefuseReservation(c)
    \/ \E w \in Wids : ReserveWithdrawal(c, w)

Decide(c) ==
    \/ \E d \in Decisions, w \in Wids : ReadForDecision(c, d, w)
    \/ RefuseTransition(c)
    \/ TransitionWithdrawal(c)

Adjust(c) ==
    \/ \E u \in Users, m \in Corrections : ReadForAdjustment(c, u, m)
    \/ \E a \in AdjIds : AppendAdjustment(c, a)

Next ==
    \/ \E c \in Calls : Request(c) \/ Decide(c) \/ Adjust(c)
                        \/ WriteAudit(c) \/ Crash(c)
    \/ \E u \in Users, r \in Receipts, m \in Credits : SettleReceipt(u, r, m)

Spec == Init /\ [][Next]_vars

-----------------------------------------------------------------------------
(* PROPERTIES *)

(* Every variable holds what its declaration says. *)
TypeOK ==
    /\ balance \in [Users -> Balances]
    /\ entries \subseteq Entries
    /\ status \in [Wids -> Statuses]
    /\ owner \in [Wids -> Users \cup {NoUser}]
    /\ amount \in [Wids -> Nat]
    /\ call \in [Calls -> CallStates]
    /\ audit \subseteq AuditLines

(* A user has at most one request in progress, however many devices ask at  *)
(* once (reserve_withdrawal's lock and second look).                        *)
OneRequestInProgress ==
    \A v, w \in Wids :
        /\ status[v] \in InFlight
        /\ status[w] \in InFlight
        /\ owner[v] = owner[w]
        => v = w

(* The money the balance shows as pending is exactly the sum of the request *)
(* in progress, and nothing when there is none: every way a request can end *)
(* - paid, rejected, failed, cancelled - clears the hold once.              *)
HoldMatchesRequest ==
    \A u \in Users :
        IF HasRequestInProgress(u)
        THEN \A w \in Wids : owner[w] = u /\ status[w] \in InFlight
                             => balance[u].pending = amount[w]
        ELSE balance[u].pending = 0

(* What a withdrawal's status says is what the ledger says: which entries   *)
(* about it exist, whose they are and for how much.  In particular no       *)
(* withdrawal is both paid and given back, and none twice, although         *)
(* handlers decide on rows they read earlier.                               *)
StoryOf(s) ==
    CASE s = "none" -> {}
      [] s \in InFlight -> {"requested"}
      [] s = "paid" -> {"requested", "paid"}
      [] s = "returned" -> {"requested", "paid", "returned"}
      [] OTHER -> {"requested", "failed"}

Told(w, x) == {e \in entries : e.id = <<w, x>>}

TellsOf(w, x) ==
    IF x \in StoryOf(status[w])
    THEN \E e \in Told(w, x) :
            /\ Told(w, x) = {e}
            /\ e.uid = owner[w]
            /\ e.micros = IF x \in {"requested", "paid"}
                          THEN - amount[w] ELSE amount[w]
    ELSE Told(w, x) = {}

LedgerTellsTheStory == \A w \in Wids, x \in Chapters : TellsOf(w, x)

(* An audit line names a decision that really took effect, even when two    *)
(* administrators and the user decide the same request at once.             *)
Afterwards == [approved |-> {"approved", "paid", "rejected", "failed", "returned"},
               paid     |-> {"paid", "returned"},
               rejected |-> {"rejected"},
               failed   |-> {"failed"},
               returned |-> {"returned"}]

TookEffect(line) == line[1] = "adjusted" \/ status[line[2]] \in Afterwards[line[1]]

AuditedDecisionsHappened == \A line \in audit : TookEffect(line)

(* A withdrawal only ever moves along these edges; in particular a request  *)
(* its owner saw as "requested" cannot be cancelled after an administrator  *)
(* approved it, and money recorded as sent only comes back by "returned".   *)
Lifecycle ==
    {<<"none", "requested">>, <<"requested", "cancelled">>,
     <<"requested", "approved">>, <<"requested", "rejected">>,
     <<"approved", "paid">>, <<"approved", "rejected">>,
     <<"approved", "failed">>, <<"paid", "returned">>}

FollowsLifecycle ==
    [][\A w \in Wids : status'[w] # status[w]
                       => <<status[w], status'[w]>> \in Lifecycle]_vars

(* A balance is only ever taken below zero (or further below) by an         *)
(* administrator's correction: no withdrawal request, however stale what it *)
(* read, takes more than is there.                                          *)
OnlyCorrectionsOverdraw ==
    [][\A u \in Users :
          balance'[u].available < 0 /\ balance'[u].available < balance[u].available
          => \E a \in AdjIds : <<a, "adjusted">> \in {e.id : e \in entries' \ entries}]_vars

(* The cached balance is the fold of the user's entries (ledger.ts: "a      *)
(* balance is a fold over entries"): what each entry makes available, what  *)
(* it earns and what it holds back.                                         *)
Freed(e) == IF e.kind = "withdrawal_paid" THEN 0 ELSE e.micros

Earned(e) == IF e.kind = "impression" THEN e.micros ELSE 0

Held(e) == CASE e.kind \in {"withdrawal_requested", "withdrawal_failed"} -> - e.micros
             [] e.kind = "withdrawal_paid" -> e.micros
             [] OTHER -> 0

Own(u) == {e \in entries : e.uid = u}

BalanceIsFold ==
    \A u \in Users :
        balance[u] = [available |-> SumFunction([e \in Own(u) |-> Freed(e)]),
                      lifetime |-> SumFunction([e \in Own(u) |-> Earned(e)]),
                      pending |-> SumFunction([e \in Own(u) |-> Held(e)])]
=============================================================================
