------------------------- MODULE AdvertiserCredits -------------------------
(***************************************************************************)
(* The advertiser side of the money service: credit orders paid through a  *)
(* payment provider, the webhooks that report payments, refunds and        *)
(* disputes, and the campaigns those credits are committed to              *)
(* (services/api/src/{creditOrders,funding,advertisers,campaignBudget,     *)
(* admin,serve}.ts over the database functions                             *)
(* apply_advertiser_credit_event, transition_campaign_commitment,          *)
(* move_campaign_budget and settle_receipt).                               *)
(*                                                                         *)
(* One advertiser: every one of those functions takes that advertiser's    *)
(* row lock first, and none touches another's.  Money is counted in units  *)
(* of what one impression costs.                                           *)
(*                                                                         *)
(* A portal or admin request reads the store and then commits, so it is a  *)
(* call with two or three steps, and any number of them overlap.  A        *)
(* webhook is one database function, so it is one action; the provider     *)
(* delivers each event at least once and in any order.                     *)
(***************************************************************************)
EXTENDS Integers, FiniteSets, FiniteSetsExt

CONSTANTS
    Orders,         \* credit orders (a bound)
    Refunds,        \* refunds the provider may issue (a bound)
    Disputes,       \* disputes that may be opened (a bound)
    Campaigns,      \* campaigns the advertiser may create (a bound)
    Calls,          \* portal requests running at once (a bound)
    Admins,         \* administrators' requests running at once (a bound)
    Prices,         \* amounts of orders, refunds and disputes
    Budgets,        \* budgets a campaign may be created with
    Moves,          \* amounts a budget move may ask for
    MaxBudget,      \* ADVERTISER_LIMITS.maxBudgetMicros
    MaxSpent        \* impressions one campaign pays for (a bound)

ASSUME PricesAssumption == Prices \subseteq Nat \ {0}
ASSUME BudgetsAssumption == Budgets \subseteq Nat
ASSUME MovesAssumption == Moves \subseteq Nat \ {0}
ASSUME LimitsAssumption == MaxBudget \in Nat /\ MaxSpent \in Nat
ASSUME CallersAssumption == Calls \cap Admins = {}
ASSUME FiniteAssumption == /\ IsFiniteSet(Orders) /\ IsFiniteSet(Disputes)
                           /\ IsFiniteSet(Campaigns)

VARIABLES
    funded,     \* advertisers.funded_micros
    reserved,   \* advertisers.reserved_micros
    standing,   \* advertisers.status
    order,      \* credit orders: status, amount, and whether a payment id is known
    net,        \* per order, the sum of its credit entries
    debit,      \* per dispute, what opening it took
    sent,       \* events the provider has emitted
    seen,       \* <<type, object>> of the rows of provider_events
    campaign,   \* campaigns: status, budget, spend, and whether a serve is live
    call        \* what each running request has read

vars == <<funded, reserved, standing, order, net, debit, sent, seen, campaign, call>>

money == <<funded, reserved, standing>>
credit == <<order, net, debit, sent, seen>>

-----------------------------------------------------------------------------
OrderStatuses == {"none", "pending", "checkout_created", "paid", "cancelled",
                  "failed", "partially_reversed", "reversed", "disputed",
                  "review_required"}

CampaignStatuses == {"none", "paused", "active", "ended"}

OrderRows == [status : OrderStatuses, amount : Nat, payment : BOOLEAN]

CampaignRows == [status : CampaignStatuses, budget : Nat, spent : Nat, served : BOOLEAN]

NoOrder == [status |-> "none", amount |-> 0, payment |-> FALSE]

NoCampaign == [status |-> "none", budget |-> 0, spent |-> 0, served |-> FALSE]

Events ==
    [type : {"purchase"}, object : Orders, order : Orders, micros : Prices]
    \cup [type : {"refund"}, object : Refunds, order : Orders, micros : Prices]
    \cup [type : {"dispute-opened", "dispute-release", "dispute-final"},
          object : Disputes, order : Orders, micros : Prices]

KeyOf(e) == <<e.type, e.object>>

Idle == [op |-> "idle"]

CallStates ==
    {Idle}
    \cup [op : {"checkout"}, order : Orders]
    \cup [op : {"spend"}, campaign : Campaigns, next : CampaignStatuses]
    \cup [op : {"commit"}, campaign : Campaigns, next : CampaignStatuses, spent : Nat]
    \cup [op : {"move"}, from : Campaigns, to : Campaigns, micros : Moves]
    \cup [op : {"serve"}, campaign : Campaigns]
    \cup [op : {"standing"}, funded : Int, reserved : Int,
          standing : {"active", "suspended"}]

Goto(c, next) == call' = [call EXCEPT ![c] = next]

AtLeastZero(n) == IF n < 0 THEN 0 ELSE n

Init ==
    /\ funded = 0
    /\ reserved = 0
    /\ standing = "active"
    /\ order = [o \in Orders |-> NoOrder]
    /\ net = [o \in Orders |-> 0]
    /\ debit = [d \in Disputes |-> 0]
    /\ sent = {}
    /\ seen = {}
    /\ campaign = [k \in Campaigns |-> NoCampaign]
    /\ call = [c \in Calls \cup Admins |-> Idle]

-----------------------------------------------------------------------------
(* createCreditCheckout. *)

(* It writes off abandoned orders - the provider's session has long         *)
(* expired, so they are unpaid and stay so - and stores a pending one.      *)
BeginCheckout(c, o, m) ==
    /\ call[c] = Idle
    /\ order[o].status = "none"
    /\ \E stale \in SUBSET {p \in Orders :
                              /\ order[p].status \in {"pending", "checkout_created"}
                              /\ \A e \in sent : e.order # p
                              /\ \A d \in Calls : call[d] # [op |-> "checkout", order |-> p]} :
          order' = [p \in Orders |->
                      IF p = o THEN [status |-> "pending", amount |-> m, payment |-> FALSE]
                      ELSE IF p \in stale THEN [order[p] EXCEPT !.status = "cancelled"]
                      ELSE order[p]]
    /\ Goto(c, [op |-> "checkout", order |-> o])
    /\ UNCHANGED <<money, net, debit, sent, seen, campaign>>

(* The provider answers with a session or not; the order's row is written   *)
(* again as a whole.                                                        *)
FinishCheckout(c) ==
    /\ call[c].op = "checkout"
    /\ \E s \in {"checkout_created", "failed"} :
          order' = [order EXCEPT ![call[c].order].status = s,
                                 ![call[c].order].payment = FALSE]
    /\ Goto(c, Idle)
    /\ UNCHANGED <<money, net, debit, sent, seen, campaign>>

-----------------------------------------------------------------------------
(* The payment provider. *)

(* The customer has the checkout link only once the order is               *)
(* "checkout_created".  What they are charged need not be the order's sum.  *)
Pay(o, m) ==
    /\ order[o].status = "checkout_created"
    /\ \A e \in sent : KeyOf(e) # <<"purchase", o>>
    /\ sent' = sent \cup {[type |-> "purchase", object |-> o, order |-> o, micros |-> m]}
    /\ UNCHANGED <<money, order, net, debit, seen, campaign, call>>

Paid(o) == \E e \in sent : e.type = "purchase" /\ e.order = o

IssueRefund(r, o, m) ==
    /\ Paid(o)
    /\ \A e \in sent : KeyOf(e) # <<"refund", r>>
    /\ sent' = sent \cup {[type |-> "refund", object |-> r, order |-> o, micros |-> m]}
    /\ UNCHANGED <<money, order, net, debit, seen, campaign, call>>

OpenDispute(d, o, m) ==
    /\ Paid(o)
    /\ \A e \in sent : KeyOf(e) # <<"dispute-opened", d>>
    /\ sent' = sent \cup {[type |-> "dispute-opened", object |-> d,
                           order |-> o, micros |-> m]}
    /\ UNCHANGED <<money, order, net, debit, seen, campaign, call>>

(* Won, cancelled: "dispute-release".  Lost, accepted: "dispute-final". *)
ResolveDispute(d) ==
    \E opened \in sent :
        /\ KeyOf(opened) = <<"dispute-opened", d>>
        /\ \A e \in sent : e.object = d => e = opened
        /\ \E t \in {"dispute-release", "dispute-final"} :
              sent' = sent \cup {[opened EXCEPT !.type = t]}
        /\ UNCHANGED <<money, order, net, debit, seen, campaign, call>>

-----------------------------------------------------------------------------
(* apply_advertiser_credit_event.  An event already in provider_events is   *)
(* answered "duplicate" and changes nothing, so redelivery is a stutter.    *)

Fresh(e) == KeyOf(e) \notin seen

(* A refund or a dispute finds its order by payment id. *)
OrderFound(e) == e.type = "purchase" \/ order[e.order].payment

PurchaseMatches(e) ==
    /\ order[e.order].status = "checkout_created"
    /\ order[e.order].amount = e.micros

IgnoreEvent(e) ==
    /\ Fresh(e)
    /\ ~ OrderFound(e)
    /\ seen' = seen \cup {KeyOf(e)}
    /\ UNCHANGED <<money, order, net, debit, sent, campaign, call>>

QuarantinePurchase(e) ==
    /\ Fresh(e)
    /\ e.type = "purchase"
    /\ ~ PurchaseMatches(e)
    /\ seen' = seen \cup {KeyOf(e)}
    /\ order' = [order EXCEPT ![e.order].status = "review_required"]
    /\ UNCHANGED <<money, net, debit, sent, campaign, call>>

(* A reversal never takes more than the order still counts for. *)
Removed(e) == Min({e.micros, AtLeastZero(net[e.order]), AtLeastZero(funded)})

(* Mutant: a won dispute gives back what was disputed, not what was taken.  *)
Delta_ReleaseDisputed(e) ==
    CASE e.type = "purchase" -> order[e.order].amount
      [] e.type \in {"refund", "dispute-opened"} -> - Removed(e)
      [] e.type = "dispute-release" -> e.micros
      [] e.type = "dispute-final" -> 0

Delta(e) ==
    CASE e.type = "purchase" -> order[e.order].amount
      [] e.type \in {"refund", "dispute-opened"} -> - Removed(e)
      [] e.type = "dispute-release" -> debit[e.object]
      [] e.type = "dispute-final" -> 0

(* Mutant: the order's status is computed from the advertiser's balance.    *)
StatusAfter_WholeBalance(e) ==
    CASE e.type = "purchase" -> "paid"
      [] e.type = "dispute-opened" -> "disputed"
      [] e.type = "dispute-final" -> "reversed"
      [] OTHER -> LET n == funded + Delta(e)
                  IN IF n <= 0 THEN "reversed"
                     ELSE IF n < order[e.order].amount THEN "partially_reversed"
                     ELSE "paid"

(* Mutant: a lost dispute writes a status the table does not know.          *)
StatusAfter_ChargedBack(e) ==
    CASE e.type = "purchase" -> "paid"
      [] e.type = "dispute-opened" -> "disputed"
      [] e.type = "dispute-final" -> "charged_back"
      [] OTHER -> IF net[e.order] + Delta(e) <= 0 THEN "reversed"
                  ELSE "partially_reversed"

StatusAfter(e) ==
    CASE e.type = "purchase" -> "paid"
      [] e.type = "dispute-opened" -> "disputed"
      [] e.type = "dispute-final" -> "reversed"
      [] OTHER -> LET n == net[e.order] + Delta(e)
                  IN IF n <= 0 THEN "reversed"
                     ELSE IF n < order[e.order].amount THEN "partially_reversed"
                     ELSE "paid"

(* Credits below what is reserved suspend the advertiser and pause their    *)
(* campaigns; what those held stays reserved.                               *)
StopIfUnderfunded(f) ==
    /\ standing' = IF f < reserved THEN "suspended" ELSE standing
    /\ campaign' = [k \in Campaigns |->
                      IF f < reserved /\ campaign[k].status = "active"
                      THEN [campaign[k] EXCEPT !.status = "paused"]
                      ELSE campaign[k]]

(* Mutant: a lost dispute takes the money a second time, without an entry.  *)
ApplyEvent_FinalTakesAgain(e) ==
    /\ Fresh(e)
    /\ OrderFound(e)
    /\ e.type = "purchase" => PurchaseMatches(e)
    /\ seen' = seen \cup {KeyOf(e)}
    /\ funded' = funded + (IF e.type = "dispute-final" THEN - e.micros ELSE Delta(e))
    /\ net' = [net EXCEPT ![e.order] = @ + Delta(e)]
    /\ debit' = debit
    /\ order' = [order EXCEPT ![e.order].status = StatusAfter(e),
                              ![e.order].payment = TRUE]
    /\ StopIfUnderfunded(funded')
    /\ UNCHANGED <<reserved, sent, call>>

ApplyEvent(e) ==
    /\ Fresh(e)
    /\ OrderFound(e)
    /\ e.type = "purchase" => PurchaseMatches(e)
    /\ seen' = seen \cup {KeyOf(e)}
    /\ funded' = funded + Delta(e)
    /\ net' = [net EXCEPT ![e.order] = @ + Delta(e)]
    /\ debit' = IF e.type = "dispute-opened"
                THEN [debit EXCEPT ![e.object] = - Delta(e)]
                ELSE debit
    /\ order' = [order EXCEPT ![e.order].status = StatusAfter(e),
                              ![e.order].payment = TRUE]
    /\ StopIfUnderfunded(funded')
    /\ UNCHANGED <<reserved, sent, call>>

-----------------------------------------------------------------------------
(* Campaigns. *)

CreateCampaign(k, b) ==
    /\ standing = "active"
    /\ campaign[k].status = "none"
    /\ campaign' = [campaign EXCEPT ![k] = [NoCampaign EXCEPT !.status = "paused",
                                                             !.budget = b]]
    /\ UNCHANGED <<money, credit, call>>

(* setCampaignStatus, and createCreative's automatic activation, read the   *)
(* advertiser and the campaign ...                                          *)
ReadCampaign(c, k, next) ==
    /\ call[c] = Idle
    /\ standing = "active"
    /\ campaign[k].status \notin {"none", "ended", next}
    /\ Goto(c, [op |-> "spend", campaign |-> k, next |-> next])
    /\ UNCHANGED <<money, credit, campaign>>

(* ... then its spend ...                                                   *)
ReadSpend(c) ==
    /\ call[c].op = "spend"
    /\ Goto(c, [op |-> "commit", campaign |-> call[c].campaign,
                next |-> call[c].next, spent |-> campaign[call[c].campaign].spent])
    /\ UNCHANGED <<money, credit, campaign>>

(* ... and ask transition_campaign_commitment to move the commitment, which *)
(* reads the rows again but is told the spend.                              *)
Remaining(x) == AtLeastZero(campaign[x.campaign].budget - x.spent)

(* Mutant: any amount left over admits a campaign.                          *)
MayCommit_AnyLeft(x) ==
    /\ campaign[x.campaign].status \notin {"none", "ended", x.next}
    /\ x.next = "active" => funded - reserved > 0

MayCommit(x) ==
    /\ campaign[x.campaign].status \notin {"none", "ended", x.next}
    /\ x.next = "active" => Remaining(x) <= funded - reserved

CommitTransition(c) ==
    /\ call[c].op = "commit"
    /\ LET x == call[c]
       IN IF MayCommit(x)
          THEN /\ reserved' = IF x.next = "active" THEN reserved + Remaining(x)
                              ELSE AtLeastZero(reserved - Remaining(x))
               /\ campaign' = [campaign EXCEPT ![x.campaign].status = x.next]
          ELSE UNCHANGED <<reserved, campaign>>
    /\ Goto(c, Idle)
    /\ UNCHANGED <<funded, standing, credit>>

(* moveCampaignBudget: ownership and standing first, then                   *)
(* move_campaign_budget (planBudgetMove) on rows it locks.                  *)
ReadForMove(c, from, to, m) ==
    /\ call[c] = Idle
    /\ standing = "active"
    /\ from # to
    /\ campaign[from].status # "none" /\ campaign[to].status # "none"
    /\ Goto(c, [op |-> "move", from |-> from, to |-> to, micros |-> m])
    /\ UNCHANGED <<money, credit, campaign>>

(* Mutant: the reservation follows the campaign the money goes to only.     *)
HeldBy_DestinationOnly(x) == IF campaign[x.to].status = "active" THEN x.micros ELSE 0

(* What a move adds to the reservation. *)
HeldBy(x) == (IF campaign[x.to].status = "active" THEN x.micros ELSE 0)
             - (IF campaign[x.from].status = "active" THEN x.micros ELSE 0)

MayMove(x) ==
    /\ campaign[x.from].status # "ended" /\ campaign[x.to].status # "ended"
    /\ x.micros <= campaign[x.from].budget - campaign[x.from].spent
    /\ campaign[x.to].budget + x.micros <= MaxBudget
    /\ HeldBy(x) > 0 => HeldBy(x) <= funded - reserved

CommitMove(c) ==
    /\ call[c].op = "move"
    /\ LET x == call[c]
       IN IF MayMove(x)
          THEN /\ reserved' = AtLeastZero(reserved + HeldBy(x))
               /\ campaign' = [campaign EXCEPT ![x.from].budget = @ - x.micros,
                                               ![x.to].budget = @ + x.micros]
          ELSE UNCHANGED <<reserved, campaign>>
    /\ Goto(c, Idle)
    /\ UNCHANGED <<funded, standing, credit>>

-----------------------------------------------------------------------------
(* Serving.  handleServe picks among active campaigns with room for one     *)
(* impression, on a status and a spend it has read; the serve record it     *)
(* then writes lets receipts be charged to the campaign until it expires,   *)
(* whatever has become of the campaign since.                               *)

ReadForServe(c, k) ==
    /\ call[c] = Idle
    /\ campaign[k].status = "active"
    /\ campaign[k].budget - campaign[k].spent >= 1
    /\ Goto(c, [op |-> "serve", campaign |-> k])
    /\ UNCHANGED <<money, credit, campaign>>

RecordServe(c) ==
    /\ call[c].op = "serve"
    /\ campaign' = [campaign EXCEPT ![call[c].campaign].served = TRUE]
    /\ Goto(c, Idle)
    /\ UNCHANGED <<money, credit>>

ExpireServe(k) ==
    /\ campaign[k].served
    /\ campaign' = [campaign EXCEPT ![k].served = FALSE]
    /\ UNCHANGED <<money, credit, call>>

SettleReceipt(k) ==
    /\ campaign[k].served
    /\ campaign[k].spent < MaxSpent
    /\ campaign' = [campaign EXCEPT ![k].spent = @ + 1]
    /\ UNCHANGED <<money, credit, call>>

-----------------------------------------------------------------------------
(* handleSetAdvertiserStatus: it reads the advertiser, audits, and writes   *)
(* the whole record back.                                                   *)

ReadForStanding(c, s) ==
    /\ call[c] = Idle
    /\ Goto(c, [op |-> "standing", funded |-> funded, reserved |-> reserved,
                standing |-> s])
    /\ UNCHANGED <<money, credit, campaign>>

PutAdvertiser(c) ==
    /\ call[c].op = "standing"
    /\ funded' = call[c].funded
    /\ reserved' = call[c].reserved
    /\ standing' = call[c].standing
    /\ Goto(c, Idle)
    /\ UNCHANGED <<credit, campaign>>

(* The process running a request dies, or its caller hangs up. *)
Crash(c) ==
    /\ call[c] # Idle
    /\ Goto(c, Idle)
    /\ UNCHANGED <<money, credit, campaign>>

-----------------------------------------------------------------------------
Provider ==
    \/ \E o \in Orders, m \in Prices :
          \/ Pay(o, m)
          \/ \E r \in Refunds : IssueRefund(r, o, m)
          \/ \E d \in Disputes : OpenDispute(d, o, m)
    \/ \E d \in Disputes : ResolveDispute(d)

Webhook == \E e \in sent : ApplyEvent(e) \/ QuarantinePurchase(e) \/ IgnoreEvent(e)

Portal(c) ==
    \/ \E o \in Orders, m \in Prices : BeginCheckout(c, o, m)
    \/ FinishCheckout(c)
    \/ \E k \in Campaigns, next \in {"active", "paused", "ended"} : ReadCampaign(c, k, next)
    \/ ReadSpend(c)
    \/ CommitTransition(c)
    \/ \E from, to \in Campaigns, m \in Moves : ReadForMove(c, from, to, m)
    \/ CommitMove(c)
    \/ \E k \in Campaigns : ReadForServe(c, k)
    \/ RecordServe(c)

Next ==
    \/ Provider
    \/ Webhook
    \/ \E c \in Calls : Portal(c)
    \/ \E c \in Admins : \/ \E s \in {"active", "suspended"} : ReadForStanding(c, s)
                         \/ PutAdvertiser(c)
    \/ \E c \in Calls \cup Admins : Crash(c)
    \/ \E k \in Campaigns : \/ \E b \in Budgets : CreateCampaign(k, b)
                            \/ SettleReceipt(k)
                            \/ ExpireServe(k)

Spec == Init /\ [][Next]_vars

-----------------------------------------------------------------------------
(* PROPERTIES *)

(* Every variable holds what its declaration says. *)
TypeOK ==
    /\ funded \in Int /\ reserved \in Int
    /\ standing \in {"active", "suspended"}
    /\ order \in [Orders -> OrderRows]
    /\ net \in [Orders -> Int] /\ debit \in [Disputes -> Int]
    /\ sent \subseteq Events
    /\ seen \subseteq {KeyOf(e) : e \in Events}
    /\ campaign \in [Campaigns -> CampaignRows]
    /\ call \in [Calls \cup Admins -> CallStates]

(* However the provider repeats and reorders payments, refunds and          *)
(* disputes, an order is never worth less than nothing nor more than was    *)
(* asked for it.                                                            *)
OrderNetBounded ==
    \A o \in Orders : net[o] >= 0 /\ net[o] <= order[o].amount

(* What an order's status says of its money is what its entries add up to:  *)
(* a paid order counts in full, a partly reversed one in part, and one that *)
(* was never credited counts for nothing.  Said of orders paid once (Pay).   *)
StatusAgreesWithNet ==
    \A o \in Orders :
        LET s == order[o].status
        IN /\ s = "paid" => net[o] = order[o].amount
           /\ s = "partially_reversed" => net[o] > 0 /\ net[o] < order[o].amount
           /\ s \notin {"paid", "partially_reversed", "reversed", "disputed"}
                => net[o] = 0

(* The advertiser's credits are the sum of their orders' entries            *)
(* (reconcile_advertiser_credits).                                          *)
Reconciles == funded = SumFunctionOnSet(net, Orders)

ActiveBudget ==
    SumFunctionOnSet([k \in Campaigns |-> IF campaign[k].status = "active"
                                          THEN campaign[k].budget ELSE 0], Campaigns)

(* Until an impression is paid for, nothing is reserved but the budgets of  *)
(* the active campaigns, through every race of activations, pauses and      *)
(* budget moves - and until a campaign ends, exactly that.                  *)
HeldIsActiveBudget ==
    /\ \A k \in Campaigns : campaign[k].spent = 0
    /\ standing = "active"
    => /\ reserved <= ActiveBudget
       /\ (\A k \in Campaigns : campaign[k].status # "ended") => reserved = ActiveBudget

(* When the credits no longer cover what is reserved the advertiser is      *)
(* suspended and nothing of theirs runs, nor can a request already on its   *)
(* way start anything.                                                      *)
UnderfundedIsStopped ==
    funded < reserved =>
        /\ standing = "suspended"
        /\ \A k \in Campaigns : campaign[k].status # "active"

(* advertisers.ts: "Two campaigns cannot promise the same dollar."  What    *)
(* campaigns have spent and active ones may yet spend is covered by what    *)
(* was paid in.                                                             *)
NoDollarPromisedTwice ==
    SumFunction([k \in Campaigns |->
                   IF campaign[k].status = "active"
                   THEN AtLeastZero(campaign[k].budget - campaign[k].spent)
                        + campaign[k].spent
                   ELSE campaign[k].spent]) <= funded
=============================================================================
