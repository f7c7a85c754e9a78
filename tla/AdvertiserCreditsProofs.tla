---------------------- MODULE AdvertiserCreditsProofs ----------------------
(***************************************************************************)
(* Theorems about AdvertiserCredits, for any number of orders, refunds,    *)
(* disputes, campaigns and requests running at once.                       *)
(***************************************************************************)
EXTENDS AdvertiserCredits, SumLemmas, TLAPS

-----------------------------------------------------------------------------
(* Types. *)

(* What a request is when its op says so. *)
LEMMA CallShape ==
    ASSUME TypeOK, NEW c \in Calls \cup Admins
    PROVE  /\ call[c].op = "checkout" => call[c].order \in Orders
           /\ call[c].op \in {"spend", "commit"} =>
                call[c].campaign \in Campaigns /\ call[c].next \in CampaignStatuses
           /\ call[c].op = "commit" => call[c].spent \in Nat
           /\ call[c].op = "move" =>
                /\ call[c].from \in Campaigns /\ call[c].to \in Campaigns
                /\ call[c].micros \in Nat
           /\ call[c].op = "serve" => call[c].campaign \in Campaigns
           /\ call[c].op = "standing" =>
                /\ call[c].funded \in Int /\ call[c].reserved \in Int
                /\ call[c].standing \in {"active", "suspended"}
<1> DEFINE x == call[c]
<1>1. x \in CallStates
  BY DEF TypeOK
<1>2. CASE x = Idle
  BY <1>2 DEF Idle
<1>3. CASE x \in [op : {"checkout"}, order : Orders]
  BY <1>3
<1>4. CASE x \in [op : {"spend"}, campaign : Campaigns, next : CampaignStatuses]
  BY <1>4
<1>5. CASE x \in [op : {"commit"}, campaign : Campaigns,
                  next : CampaignStatuses, spent : Nat]
  BY <1>5
<1>6. CASE x \in [op : {"move"}, from : Campaigns, to : Campaigns, micros : Moves]
  BY <1>6, MovesAssumption
<1>7. CASE x \in [op : {"serve"}, campaign : Campaigns]
  BY <1>7
<1>8. CASE x \in [op : {"standing"}, funded : Int, reserved : Int,
                  standing : {"active", "suspended"}]
  BY <1>8
<1> QED
  BY <1>1, <1>2, <1>3, <1>4, <1>5, <1>6, <1>7, <1>8 DEF CallStates

(* What an event is. *)
LEMMA EventShape ==
    ASSUME NEW e \in Events
    PROVE  /\ e.order \in Orders /\ e.micros \in Nat
           /\ e.type \in {"purchase", "refund", "dispute-opened",
                         "dispute-release", "dispute-final"}
           /\ e.type = "purchase" => e.object \in Orders
           /\ e.type = "refund" => e.object \in Refunds
           /\ e.type \in {"dispute-opened", "dispute-release", "dispute-final"}
                => e.object \in Disputes
  BY PricesAssumption DEF Events

(* Writing a status and whether the payment id is known into an order row.  *)
LEMMA OrderWritten ==
    ASSUME order \in [Orders -> OrderRows], NEW o \in Orders,
           NEW s \in OrderStatuses, NEW b \in BOOLEAN,
           order' = [order EXCEPT ![o].status = s, ![o].payment = b]
    PROVE  /\ order' \in [Orders -> OrderRows]
           /\ order'[o].status = s
           /\ order'[o].payment = b
           /\ order'[o].amount = order[o].amount
           /\ \A p \in Orders \ {o} : order'[p] = order[p]
<1> DEFINE r == [order[o] EXCEPT !.status = s, !.payment = b]
<1>1. order[o] \in OrderRows
  OBVIOUS
<1>2. /\ r \in OrderRows /\ r.status = s /\ r.payment = b
      /\ r.amount = order[o].amount
  BY <1>1 DEF OrderRows
<1>3. order' = [order EXCEPT ![o] = r]
  OBVIOUS
<1> HIDE DEF r
<1>4. /\ order' \in [Orders -> OrderRows] /\ order'[o] = r
      /\ \A p \in Orders \ {o} : order'[p] = order[p]
  BY <1>2, <1>3, ZenonT(60)
<1> QED
  BY <1>2, <1>4

(* What a reversal takes is a natural number, no more than the order counts *)
(* for when that is not negative, and no more than the event asks.          *)
LEMMA RemovedBounds ==
    ASSUME TypeOK, NEW e \in Events
    PROVE  /\ Removed(e) \in Nat
           /\ Removed(e) <= e.micros
           /\ net[e.order] >= 0 => Removed(e) <= net[e.order]
<1> DEFINE a == AtLeastZero(net[e.order])
           b == AtLeastZero(funded)
           S == {e.micros, a, b}
<1>1. e.order \in Orders /\ e.micros \in Nat
  BY EventShape
<1>2. /\ a \in Nat /\ b \in Nat
      /\ net[e.order] >= 0 => a = net[e.order]
  BY <1>1 DEF TypeOK, AtLeastZero
<1> HIDE DEF a, b
<1>3. \E x \in S : \A y \in S : x =< y
  BY <1>1, <1>2
<1>4. /\ Min(S) \in S
      /\ \A y \in S : Min(S) =< y
  BY <1>3 DEF Min
<1>5. Removed(e) = Min(S)
  BY DEF Removed, a, b
<1>6. Min(S) <= e.micros /\ Min(S) <= a
  BY <1>4
<1>7. Min(S) \in Nat
  BY <1>1, <1>2, <1>4
<1> HIDE DEF S
<1> QED
  BY <1>2, <1>5, <1>6, <1>7

(* What an event adds to its order, and what it leaves of the order's row.  *)
LEMMA DeltaType ==
    ASSUME TypeOK, NEW e \in Events
    PROVE  /\ Delta(e) \in Int
           /\ StatusAfter(e) \in OrderStatuses
<1>1. /\ Removed(e) \in Nat
      /\ e.order \in Orders
      /\ order[e.order].amount \in Nat
  BY RemovedBounds, EventShape DEF TypeOK, OrderRows
<1>2. e.type = "dispute-release" => debit[e.object] \in Int
  BY EventShape DEF TypeOK
<1> QED
  BY <1>1, <1>2, EventShape DEF Delta, StatusAfter, OrderStatuses

(* TypeOK is inductive. *)
LEMMA TypeInit == Init => TypeOK
<1> SUFFICES ASSUME Init PROVE TypeOK
  OBVIOUS
<1>1. NoOrder \in OrderRows /\ NoCampaign \in CampaignRows
  BY DEF NoOrder, OrderRows, OrderStatuses, NoCampaign, CampaignRows, CampaignStatuses
<1>2. Idle \in CallStates
  BY DEF CallStates
<1> QED
  BY <1>1, <1>2 DEF Init, TypeOK

(* A request moves on to another legal state. *)
LEMMA GotoType ==
    ASSUME TypeOK, NEW c \in Calls \cup Admins, NEW x \in CallStates, Goto(c, x)
    PROVE  call' \in [Calls \cup Admins -> CallStates]
  BY DEF TypeOK, Goto

(* The states a request can be sent to. *)
LEMMA CallStatesMade ==
    /\ Idle \in CallStates
    /\ \A o \in Orders : [op |-> "checkout", order |-> o] \in CallStates
    /\ \A k \in Campaigns, n \in CampaignStatuses :
          [op |-> "spend", campaign |-> k, next |-> n] \in CallStates
    /\ \A k \in Campaigns, n \in CampaignStatuses, s \in Nat :
          [op |-> "commit", campaign |-> k, next |-> n, spent |-> s] \in CallStates
    /\ \A j, k \in Campaigns, m \in Moves :
          [op |-> "move", from |-> j, to |-> k, micros |-> m] \in CallStates
    /\ \A k \in Campaigns : [op |-> "serve", campaign |-> k] \in CallStates
    /\ \A f, r \in Int, s \in {"active", "suspended"} :
          [op |-> "standing", funded |-> f, reserved |-> r, standing |-> s] \in CallStates
  BY DEF CallStates

(* A step of the provider keeps the types. *)
LEMMA TypeProvider ==
    ASSUME TypeOK, Provider
    PROVE  TypeOK'
<1>1. sent' \subseteq Events
  <2>1. ASSUME NEW o \in Orders, NEW m \in Prices, Pay(o, m)
        PROVE  sent' \subseteq Events
    <3>1. [type |-> "purchase", object |-> o, order |-> o, micros |-> m] \in Events
      BY DEF Events
    <3> QED
      BY <2>1, <3>1 DEF Pay, TypeOK
  <2>2. ASSUME NEW r \in Refunds, NEW o \in Orders, NEW m \in Prices, IssueRefund(r, o, m)
        PROVE  sent' \subseteq Events
    <3>1. [type |-> "refund", object |-> r, order |-> o, micros |-> m] \in Events
      BY DEF Events
    <3> QED
      BY <2>2, <3>1 DEF IssueRefund, TypeOK
  <2>3. ASSUME NEW d \in Disputes, NEW o \in Orders, NEW m \in Prices, OpenDispute(d, o, m)
        PROVE  sent' \subseteq Events
    <3>1. [type |-> "dispute-opened", object |-> d, order |-> o, micros |-> m] \in Events
      BY DEF Events
    <3> QED
      BY <2>3, <3>1 DEF OpenDispute, TypeOK
  <2>4. ASSUME NEW d \in Disputes, ResolveDispute(d)
        PROVE  sent' \subseteq Events
    <3>1. PICK e \in sent, t \in {"dispute-release", "dispute-final"} :
             /\ KeyOf(e) = <<"dispute-opened", d>>
             /\ sent' = sent \cup {[e EXCEPT !.type = t]}
      BY <2>4 DEF ResolveDispute
    <3>2. e \in [type : {"dispute-opened", "dispute-release", "dispute-final"},
                 object : Disputes, order : Orders, micros : Prices]
      BY <3>1 DEF TypeOK, Events, KeyOf
    <3>3. [e EXCEPT !.type = t] \in Events
      BY <3>2 DEF Events
    <3> QED
      BY <3>1, <3>3 DEF TypeOK
  <2> QED
    BY <2>1, <2>2, <2>3, <2>4 DEF Provider
<1>2. UNCHANGED <<money, order, net, debit, seen, campaign, call>>
  BY DEF Provider, Pay, IssueRefund, OpenDispute, ResolveDispute
<1> QED
  BY <1>1, <1>2 DEF TypeOK, money

(* Stopping an underfunded advertiser keeps the types. *)
LEMMA StopType ==
    ASSUME TypeOK, NEW f \in Int, StopIfUnderfunded(f)
    PROVE  /\ standing' \in {"active", "suspended"}
           /\ campaign' \in [Campaigns -> CampaignRows]
<1>1. ASSUME NEW k \in Campaigns
      PROVE  [campaign[k] EXCEPT !.status = "paused"] \in CampaignRows
  BY DEF TypeOK, CampaignRows, CampaignStatuses
<1> QED
  BY <1>1 DEF StopIfUnderfunded, TypeOK

(* A webhook's step keeps the types. *)
LEMMA TypeWebhook ==
    ASSUME TypeOK, NEW e \in sent,
           ApplyEvent(e) \/ QuarantinePurchase(e) \/ IgnoreEvent(e)
    PROVE  TypeOK'
<1>1. /\ e \in Events /\ e.order \in Orders
      /\ Delta(e) \in Int /\ StatusAfter(e) \in OrderStatuses
  BY EventShape, DeltaType DEF TypeOK
<1>2. seen \cup {KeyOf(e)} \subseteq {KeyOf(x) : x \in Events}
  BY <1>1 DEF TypeOK
<1>3. CASE ApplyEvent(e)
  <2>1. order' \in [Orders -> OrderRows]
    BY <1>1, <1>3, OrderWritten DEF ApplyEvent, TypeOK
  <2>2. funded' \in Int /\ net' \in [Orders -> Int]
    BY <1>1, <1>3 DEF ApplyEvent, TypeOK
  <2>3. debit' \in [Disputes -> Int]
    BY <1>1, <1>3, EventShape DEF ApplyEvent, TypeOK
  <2>4. /\ standing' \in {"active", "suspended"}
        /\ campaign' \in [Campaigns -> CampaignRows]
    BY <1>3, <2>2, StopType DEF ApplyEvent
  <2> QED
    BY <1>2, <1>3, <2>1, <2>2, <2>3, <2>4 DEF ApplyEvent, TypeOK
<1>4. CASE QuarantinePurchase(e)
  <2>1. order' \in [Orders -> OrderRows]
    <3>1. [order[e.order] EXCEPT !.status = "review_required"] \in OrderRows
      BY <1>1 DEF TypeOK, OrderRows, OrderStatuses
    <3> QED
      BY <1>1, <1>4, <3>1 DEF QuarantinePurchase, TypeOK
  <2> QED
    BY <1>2, <1>4, <2>1 DEF QuarantinePurchase, TypeOK, money
<1>5. CASE IgnoreEvent(e)
  BY <1>2, <1>5 DEF IgnoreEvent, TypeOK, money
<1> QED
  BY <1>3, <1>4, <1>5

(* A budget moves between two campaigns. *)
MovesBetweenTwo ==
    \A c \in Calls : call[c].op = "move" => call[c].from # call[c].to

TypeInv == TypeOK /\ MovesBetweenTwo

(* A move changes two budgets and nothing else of any campaign.             *)
LEMMA MoveRows ==
    ASSUME campaign \in [Campaigns -> CampaignRows],
           NEW i \in Campaigns, NEW j \in Campaigns, i # j, NEW m \in Nat,
           campaign[i].budget >= m,
           campaign' = [campaign EXCEPT ![i].budget = @ - m, ![j].budget = @ + m]
    PROVE  /\ campaign' \in [Campaigns -> CampaignRows]
           /\ \A k \in Campaigns : /\ campaign'[k].status = campaign[k].status
                                   /\ campaign'[k].spent = campaign[k].spent
                                   /\ campaign'[k].served = campaign[k].served
           /\ campaign'[i].budget = campaign[i].budget - m
           /\ campaign'[j].budget = campaign[j].budget + m
           /\ \A k \in Campaigns \ {i, j} : campaign'[k] = campaign[k]
<1> DEFINE a == [campaign[i] EXCEPT !.budget = @ - m]
           b == [campaign[j] EXCEPT !.budget = @ + m]
<1>1. campaign' = [campaign EXCEPT ![i] = a, ![j] = b]
  OBVIOUS
<1>2. campaign[i] \in CampaignRows /\ campaign[j] \in CampaignRows
  OBVIOUS
<1>3. /\ a \in CampaignRows /\ a.budget = campaign[i].budget - m
      /\ a.status = campaign[i].status /\ a.spent = campaign[i].spent
      /\ a.served = campaign[i].served
  <2>1. campaign[i].budget - m \in Nat
    BY <1>2 DEF CampaignRows
  <2> QED
    BY <1>2, <2>1 DEF CampaignRows
<1>4. /\ b \in CampaignRows /\ b.budget = campaign[j].budget + m
      /\ b.status = campaign[j].status /\ b.spent = campaign[j].spent
      /\ b.served = campaign[j].served
  BY <1>2 DEF CampaignRows
<1> HIDE DEF a, b
<1>5. /\ campaign' \in [Campaigns -> CampaignRows]
      /\ campaign'[i] = a /\ campaign'[j] = b
      /\ \A k \in Campaigns \ {i, j} : campaign'[k] = campaign[k]
  BY <1>1, <1>3, <1>4
<1> QED
  BY <1>3, <1>4, <1>5

(* What a move that is made does to the campaigns: it has the budget.       *)
LEMMA MovedRows ==
    ASSUME TypeInv, NEW c \in Calls, CommitMove(c), MayMove(call[c])
    PROVE  LET x == call[c]
           IN /\ campaign' \in [Campaigns -> CampaignRows]
              /\ \A k \in Campaigns : /\ campaign'[k].status = campaign[k].status
                                      /\ campaign'[k].spent = campaign[k].spent
                                      /\ campaign'[k].served = campaign[k].served
              /\ campaign'[x.from].budget = campaign[x.from].budget - x.micros
              /\ campaign'[x.to].budget = campaign[x.to].budget + x.micros
              /\ \A k \in Campaigns \ {x.from, x.to} : campaign'[k] = campaign[k]
<1> DEFINE x == call[c]
<1>1. /\ x.from \in Campaigns /\ x.to \in Campaigns /\ x.micros \in Nat
      /\ x.from # x.to
  BY CallShape DEF CommitMove, TypeInv, MovesBetweenTwo
<1>2. campaign[x.from].budget >= x.micros
  <2>1. campaign[x.from] \in CampaignRows
    BY <1>1 DEF TypeInv, TypeOK
  <2> QED
    BY <1>1, <2>1 DEF MayMove, CampaignRows
<1>3. campaign' = [campaign EXCEPT ![x.from].budget = @ - x.micros,
                                   ![x.to].budget = @ + x.micros]
  BY DEF CommitMove
<1> HIDE DEF x
<1>4. campaign \in [Campaigns -> CampaignRows]
  BY DEF TypeInv, TypeOK
<1>5. /\ campaign' \in [Campaigns -> CampaignRows]
      /\ \A k \in Campaigns : /\ campaign'[k].status = campaign[k].status
                              /\ campaign'[k].spent = campaign[k].spent
                              /\ campaign'[k].served = campaign[k].served
      /\ campaign'[x.from].budget = campaign[x.from].budget - x.micros
      /\ campaign'[x.to].budget = campaign[x.to].budget + x.micros
      /\ \A k \in Campaigns \ {x.from, x.to} : campaign'[k] = campaign[k]
  BY <1>1, <1>2, <1>3, <1>4, MoveRows
<1> QED
  BY <1>5 DEF x

(* A move keeps the types. *)
LEMMA MoveType ==
    ASSUME TypeInv, NEW c \in Calls, CommitMove(c)
    PROVE  /\ campaign' \in [Campaigns -> CampaignRows]
           /\ reserved' \in Int
<1> DEFINE x == call[c]
<1>1. x.micros \in Nat
  BY CallShape DEF CommitMove, TypeInv
<1>2. HeldBy(x) \in Int
  BY <1>1 DEF HeldBy
<1>3. CASE ~ MayMove(x)
  BY <1>3 DEF CommitMove, TypeInv, TypeOK
<1>4. CASE MayMove(x)
  BY <1>2, <1>4, MovedRows DEF CommitMove, AtLeastZero, TypeInv, TypeOK
<1> QED
  BY <1>3, <1>4

(* A step of a portal's request keeps the types. *)
LEMMA TypePortal ==
    ASSUME TypeInv, NEW c \in Calls, Portal(c)
    PROVE  TypeOK'
<1>0. TypeOK
  BY DEF TypeInv
<1> USE <1>0, CallStatesMade, GotoType, CallShape
<1>1. ASSUME NEW o \in Orders, NEW m \in Prices, BeginCheckout(c, o, m)
      PROVE  TypeOK'
  <2>1. order' \in [Orders -> OrderRows]
    <3>1. PICK stale : order' =
             [p \in Orders |->
                IF p = o THEN [status |-> "pending", amount |-> m, payment |-> FALSE]
                ELSE IF p \in stale THEN [order[p] EXCEPT !.status = "cancelled"]
                ELSE order[p]]
      BY <1>1 DEF BeginCheckout
    <3>2. [status |-> "pending", amount |-> m, payment |-> FALSE] \in OrderRows
      BY PricesAssumption DEF OrderRows, OrderStatuses
    <3>3. ASSUME NEW p \in Orders
          PROVE  [order[p] EXCEPT !.status = "cancelled"] \in OrderRows
      BY DEF TypeOK, OrderRows, OrderStatuses
    <3> QED
      BY <3>1, <3>2, <3>3 DEF TypeOK
  <2>2. call' \in [Calls \cup Admins -> CallStates]
    BY <1>1 DEF BeginCheckout
  <2> QED
    BY <1>1, <2>1, <2>2 DEF BeginCheckout, TypeOK, money
<1>2. CASE FinishCheckout(c)
  <2>1. order' \in [Orders -> OrderRows]
    BY <1>2, OrderWritten DEF FinishCheckout, TypeOK, OrderStatuses
  <2>2. call' \in [Calls \cup Admins -> CallStates]
    BY <1>2 DEF FinishCheckout
  <2> QED
    BY <1>2, <2>1, <2>2 DEF FinishCheckout, TypeOK, money
<1>3. ASSUME NEW k \in Campaigns, NEW n \in {"active", "paused", "ended"},
             ReadCampaign(c, k, n)
      PROVE  TypeOK'
  <2>1. call' \in [Calls \cup Admins -> CallStates]
    BY <1>3 DEF ReadCampaign, CampaignStatuses
  <2> QED
    BY <1>3, <2>1 DEF ReadCampaign, TypeOK, money, credit
<1>4. CASE ReadSpend(c)
  <2>1. call[c].campaign \in Campaigns /\ campaign[call[c].campaign].spent \in Nat
    BY <1>4 DEF ReadSpend, TypeOK, CampaignRows
  <2>2. call' \in [Calls \cup Admins -> CallStates]
    BY <1>4, <2>1 DEF ReadSpend
  <2> QED
    BY <1>4, <2>2 DEF ReadSpend, TypeOK, money, credit
<1>5. CASE CommitTransition(c)
  <2> DEFINE x == call[c]
  <2>1. x.campaign \in Campaigns /\ x.next \in CampaignStatuses /\ x.spent \in Nat
    BY <1>5 DEF CommitTransition
  <2>2. [campaign[x.campaign] EXCEPT !.status = x.next] \in CampaignRows
    BY <2>1 DEF TypeOK, CampaignRows
  <2>3. Remaining(x) \in Nat
    BY <2>1 DEF Remaining, AtLeastZero, TypeOK, CampaignRows
  <2>4. campaign' \in [Campaigns -> CampaignRows] /\ reserved' \in Int
    BY <1>5, <2>1, <2>2, <2>3 DEF CommitTransition, AtLeastZero, TypeOK
  <2>5. call' \in [Calls \cup Admins -> CallStates]
    BY <1>5 DEF CommitTransition
  <2> QED
    BY <1>5, <2>4, <2>5 DEF CommitTransition, TypeOK, credit
<1>6. ASSUME NEW j \in Campaigns, NEW k \in Campaigns, NEW m \in Moves,
             ReadForMove(c, j, k, m)
      PROVE  TypeOK'
  <2>1. call' \in [Calls \cup Admins -> CallStates]
    BY <1>6 DEF ReadForMove
  <2> QED
    BY <1>6, <2>1 DEF ReadForMove, TypeOK, money, credit
<1>7. CASE CommitMove(c)
  <2>1. call' \in [Calls \cup Admins -> CallStates]
    BY <1>7 DEF CommitMove
  <2>2. campaign' \in [Campaigns -> CampaignRows] /\ reserved' \in Int
    BY <1>7, MoveType DEF CommitMove, TypeOK
  <2> QED
    BY <1>7, <2>1, <2>2 DEF CommitMove, TypeOK, credit
<1>8. ASSUME NEW k \in Campaigns, ReadForServe(c, k)
      PROVE  TypeOK'
  <2>1. call' \in [Calls \cup Admins -> CallStates]
    BY <1>8 DEF ReadForServe
  <2> QED
    BY <1>8, <2>1 DEF ReadForServe, TypeOK, money, credit
<1>9. CASE RecordServe(c)
  <2>1. [campaign[call[c].campaign] EXCEPT !.served = TRUE] \in CampaignRows
    BY <1>9, ZenonT(60) DEF RecordServe, TypeOK, CampaignRows
  <2>2. call' \in [Calls \cup Admins -> CallStates]
    BY <1>9 DEF RecordServe
  <2>3. campaign' \in [Campaigns -> CampaignRows]
    BY <1>9, <2>1 DEF RecordServe, TypeOK
  <2> QED
    BY <1>9, <2>2, <2>3 DEF RecordServe, TypeOK, money, credit
<1> QED
  BY <1>1, <1>2, <1>3, <1>4, <1>5, <1>6, <1>7, <1>8, <1>9 DEF Portal
(* What a step does to the requests: nothing, or one of them moves on.      *)
LEMMA StepsOfCalls ==
    ASSUME TypeOK, [Next]_vars
    PROVE  \/ UNCHANGED call
           \/ \E d \in Calls, j, k \in Campaigns, m \in Moves : ReadForMove(d, j, k, m)
           \/ \E d \in Calls \cup Admins : \E x \in CallStates : Goto(d, x) /\ x.op # "move"
<1> USE CallStatesMade, CallShape
<1> DEFINE Goes(d) == \E x \in CallStates : Goto(d, x) /\ x.op # "move"
<1>1. Idle.op # "move"
  BY DEF Idle
<1> DEFINE Moving(d) == \E j, k \in Campaigns, m \in Moves : ReadForMove(d, j, k, m)
<1>2. ASSUME NEW c \in Calls, Portal(c)
      PROVE  Moving(c) \/ Goes(c)
  <2>1. ASSUME NEW o \in Orders, NEW m \in Prices, BeginCheckout(c, o, m)
        PROVE  Goes(c)
    BY <2>1 DEF BeginCheckout
  <2>2. ASSUME NEW k \in Campaigns, NEW n \in {"active", "paused", "ended"},
               ReadCampaign(c, k, n)
        PROVE  Goes(c)
    BY <2>2 DEF ReadCampaign, CampaignStatuses
  <2>3. CASE ReadSpend(c)
    <3>1. call[c].campaign \in Campaigns /\ campaign[call[c].campaign].spent \in Nat
      BY <2>3 DEF ReadSpend, TypeOK, CampaignRows
    <3> QED
      BY <2>3, <3>1 DEF ReadSpend
  <2>4. ASSUME NEW k \in Campaigns, ReadForServe(c, k)
        PROVE  Goes(c)
    BY <2>4 DEF ReadForServe
  <2>5. CASE FinishCheckout(c) \/ CommitTransition(c) \/ CommitMove(c) \/ RecordServe(c)
    BY <1>1, <2>5 DEF FinishCheckout, CommitTransition, CommitMove, RecordServe
  <2> QED
    BY <1>2, <2>1, <2>2, <2>3, <2>4, <2>5 DEF Portal
<1>3. ASSUME NEW c \in Admins, NEW s \in {"active", "suspended"},
             ReadForStanding(c, s)
      PROVE  Goes(c)
  BY <1>3 DEF ReadForStanding, TypeOK
<1>4. ASSUME NEW c \in Admins, PutAdvertiser(c)
      PROVE  Goes(c)
  BY <1>1, <1>4 DEF PutAdvertiser
<1>5. ASSUME NEW c \in Calls \cup Admins, Crash(c)
      PROVE  Goes(c)
  BY <1>1, <1>5 DEF Crash
<1>6. ASSUME Provider \/ Webhook
      PROVE  UNCHANGED call
  BY <1>6 DEF Provider, Pay, IssueRefund, OpenDispute, ResolveDispute,
              Webhook, ApplyEvent, QuarantinePurchase, IgnoreEvent
<1>7. ASSUME NEW k \in Campaigns,
             \/ \E b \in Budgets : CreateCampaign(k, b)
             \/ SettleReceipt(k) \/ ExpireServe(k)
      PROVE  UNCHANGED call
  BY <1>7 DEF CreateCampaign, SettleReceipt, ExpireServe
<1>8. ASSUME UNCHANGED vars
      PROVE  UNCHANGED call
  BY <1>8 DEF vars
<1> HIDE DEF Goes, Moving
<1>9. \/ UNCHANGED call
      \/ \E d \in Calls : Moving(d)
      \/ \E d \in Calls \cup Admins : Goes(d)
  <2>1. CASE \E c \in Calls : Portal(c)
    BY <1>2, <2>1
  <2>2. CASE \E c \in Admins : \/ \E s \in {"active", "suspended"} : ReadForStanding(c, s)
                               \/ PutAdvertiser(c)
    BY <1>3, <1>4, <2>2
  <2>3. CASE \E c \in Calls \cup Admins : Crash(c)
    BY <1>5, <2>3
  <2>4. CASE \E k \in Campaigns : \/ \E b \in Budgets : CreateCampaign(k, b)
                                  \/ SettleReceipt(k) \/ ExpireServe(k)
    BY <1>7, <2>4
  <2> QED
    BY <1>6, <1>8, <2>1, <2>2, <2>3, <2>4 DEF Next
<1> QED
  BY <1>9 DEF Goes, Moving

(* TypeInv is inductive. *)
LEMMA TypeStep ==
    ASSUME TypeInv, [Next]_vars
    PROVE  TypeInv'
<1>0. TypeOK
  BY DEF TypeInv
<1>1. TypeOK'
  <2> USE <1>0, CallStatesMade, GotoType, CallShape
  <2>1. ASSUME NEW c \in Admins, NEW s \in {"active", "suspended"}, ReadForStanding(c, s)
        PROVE  TypeOK'
    <3>1. call' \in [Calls \cup Admins -> CallStates]
      BY <2>1 DEF ReadForStanding, TypeOK
    <3> QED
      BY <2>1, <3>1 DEF ReadForStanding, TypeOK, money, credit
  <2>2. ASSUME NEW c \in Admins, PutAdvertiser(c)
        PROVE  TypeOK'
    <3>1. call' \in [Calls \cup Admins -> CallStates]
      BY <2>2 DEF PutAdvertiser
    <3>2. funded' \in Int /\ reserved' \in Int /\ standing' \in {"active", "suspended"}
      BY <2>2 DEF PutAdvertiser
    <3> QED
      BY <2>2, <3>1, <3>2 DEF PutAdvertiser, TypeOK, credit
  <2>3. ASSUME NEW c \in Calls \cup Admins, Crash(c)
        PROVE  TypeOK'
    <3>1. call' \in [Calls \cup Admins -> CallStates]
      BY <2>3 DEF Crash
    <3> QED
      BY <2>3, <3>1 DEF Crash, TypeOK, money, credit
  <2>4. ASSUME NEW k \in Campaigns, NEW b \in Budgets, CreateCampaign(k, b)
        PROVE  TypeOK'
    <3>1. [NoCampaign EXCEPT !.status = "paused", !.budget = b] \in CampaignRows
      BY BudgetsAssumption DEF NoCampaign, CampaignRows, CampaignStatuses
    <3>2. campaign' \in [Campaigns -> CampaignRows]
      BY <2>4, <3>1 DEF CreateCampaign, TypeOK
    <3> QED
      BY <2>4, <3>2 DEF CreateCampaign, TypeOK, money, credit
  <2>5. ASSUME NEW k \in Campaigns, SettleReceipt(k) \/ ExpireServe(k)
        PROVE  TypeOK'
    <3>1. /\ [campaign[k] EXCEPT !.spent = @ + 1] \in CampaignRows
          /\ [campaign[k] EXCEPT !.served = FALSE] \in CampaignRows
      <4>1. campaign[k] \in CampaignRows
        BY DEF TypeOK
      <4>2. campaign[k].spent + 1 \in Nat
        BY <4>1 DEF CampaignRows
      <4>3. [campaign[k] EXCEPT !.spent = @ + 1] \in CampaignRows
        BY <4>1, <4>2 DEF CampaignRows
      <4>4. [campaign[k] EXCEPT !.served = FALSE] \in CampaignRows
        BY <4>1 DEF CampaignRows
      <4> QED
        BY <4>3, <4>4
    <3>2. campaign' \in [Campaigns -> CampaignRows]
      BY <2>5, <3>1 DEF SettleReceipt, ExpireServe, TypeOK
    <3> QED
      BY <2>5, <3>2 DEF SettleReceipt, ExpireServe, TypeOK, money, credit
  <2>6. CASE UNCHANGED vars
    BY <2>6 DEF vars, TypeOK
  <2> QED
    BY <2>1, <2>2, <2>3, <2>4, <2>5, <2>6, TypeProvider, TypeWebhook, TypePortal
       DEF Next, Webhook
<1>2. MovesBetweenTwo'
  <2>1. SUFFICES ASSUME NEW c \in Calls, call'[c].op = "move", call'[c] # call[c]
                 PROVE  call'[c].from # call'[c].to
    BY DEF MovesBetweenTwo, TypeInv
  <2>2. CASE UNCHANGED call
    BY <2>1, <2>2
  <2>3. CASE \E d \in Calls : \E j, k \in Campaigns, m \in Moves : ReadForMove(d, j, k, m)
    BY <2>1, <2>3 DEF ReadForMove, Goto, TypeInv, TypeOK
  <2>4. ASSUME NEW d \in Calls \cup Admins, NEW x \in CallStates, Goto(d, x), x.op # "move"
        PROVE  FALSE
    BY <2>1, <2>4 DEF Goto, TypeInv, TypeOK
  <2> QED
    BY <1>0, <2>2, <2>3, <2>4, StepsOfCalls
<1> QED
  BY <1>1, <1>2 DEF TypeInv

(* Every variable keeps its type, for any number of orders, refunds,        *)
(* disputes, campaigns and overlapping requests: nothing a request of the   *)
(* portal, a webhook or a receipt does writes a budget below nothing.       *)
THEOREM TypeCorrect == Spec => []TypeOK
<1>1. Init => TypeInv
  BY TypeInit DEF Init, TypeInv, MovesBetweenTwo, Idle
<1>2. TypeInv /\ [Next]_vars => TypeInv'
  BY TypeStep
<1>3. TypeInv => TypeOK
  BY DEF TypeInv
<1> QED
  BY <1>1, <1>2, <1>3, PTL DEF Spec

-----------------------------------------------------------------------------
(* Orders.  What makes OrderNetBounded and StatusAgreesWithNet inductive.   *)

Uncredited == {"none", "pending", "checkout_created", "cancelled", "failed",
               "review_required"}

Credited == {"paid", "partially_reversed", "reversed", "disputed"}

(* Statuses of an order the provider has no session for. *)
Unlinked == {"none", "pending", "cancelled", "failed"}

(* The provider opened dispute d about order o. *)
OpenedFor(d, o) ==
    \E e \in sent : e.type = "dispute-opened" /\ e.object = d /\ e.order = o

(* The disputes whose sums may still come back to order o. *)
Open(o) == {d \in Disputes : /\ <<"dispute-release", d>> \notin seen
                             /\ OpenedFor(d, o)}

(* An event is about an order the customer had a link for; a purchase is    *)
(* its order's own; a release follows an opening about the same order.      *)
EventsMakeSense ==
    \A e \in sent :
        /\ order[e.order].status \notin Unlinked
        /\ e.type = "purchase" => e.object = e.order
        /\ e.type = "dispute-release" => OpenedFor(e.object, e.order)

(* A dispute is about one order. *)
DisputesAboutOneOrder ==
    \A d \in Disputes, o, p \in Orders : OpenedFor(d, o) /\ OpenedFor(d, p) => o = p

(* One checkout at most is under way for an order, and the order waits. *)
CheckoutsPending ==
    \A c \in Calls :
        call[c].op = "checkout" =>
            /\ order[call[c].order].status = "pending"
            /\ \A d \in Calls : call[d].op = "checkout" /\ call[d].order = call[c].order
                                => c = d

(* The payment id is known exactly of the orders that were credited, and    *)
(* those whose purchase has been handled.                                   *)
PaymentsCredited ==
    \A o \in Orders :
        /\ order[o].payment => /\ order[o].status \in Credited
                               /\ <<"purchase", o>> \in seen
        /\ ~ order[o].payment => order[o].status \in Uncredited /\ net[o] = 0

(* A dispute that took something was opened about a credited order. *)
DebitsTaken ==
    \A d \in Disputes :
        /\ debit[d] >= 0
        /\ debit[d] > 0 => /\ <<"dispute-opened", d>> \in seen
                           /\ \E o \in Orders : order[o].payment /\ OpenedFor(d, o)

(* What an order counts for and what open disputes hold of it never exceed  *)
(* what was asked for it.                                                   *)
NetCovered ==
    \A o \in Orders :
        /\ net[o] >= 0
        /\ net[o] + SumFunctionOnSet(debit, Open(o)) <= order[o].amount

OrderInv ==
    /\ TypeInv /\ EventsMakeSense /\ DisputesAboutOneOrder /\ CheckoutsPending
    /\ PaymentsCredited /\ DebitsTaken /\ NetCovered /\ StatusAgreesWithNet
(* The sums open disputes hold are natural numbers. *)
LEMMA OpenSumType ==
    ASSUME TypeOK, DebitsTaken, NEW o \in Orders
    PROVE  /\ IsFiniteSet(Open(o))
           /\ \A d \in Open(o) : d \in Disputes /\ debit[d] \in Int
           /\ SumFunctionOnSet(debit, Open(o)) \in Nat
<1>1. Open(o) \subseteq Disputes
  BY DEF Open
<1>2. IsFiniteSet(Open(o))
  BY <1>1, FiniteAssumption, FS_Subset
<1>3. \A d \in Open(o) : d \in Disputes /\ debit[d] \in Int /\ debit[d] >= 0
  BY <1>1 DEF TypeOK, DebitsTaken
<1>4. /\ SumFunctionOnSet(debit, Open(o)) \in Int
      /\ SumFunctionOnSet(debit, Open(o)) >= 0
  BY <1>2, <1>3, SumType
<1> QED
  BY <1>2, <1>3, <1>4

(* An order that was not credited has no money in a dispute. *)
LEMMA NothingOpen ==
    ASSUME OrderInv, NEW o \in Orders, ~ order[o].payment
    PROVE  SumFunctionOnSet(debit, Open(o)) = 0
<1>1. ASSUME NEW d \in Open(o)
      PROVE  debit[d] = 0
  <2>1. d \in Disputes /\ OpenedFor(d, o) /\ debit[d] \in Int /\ debit[d] >= 0
    BY DEF OrderInv, TypeInv, TypeOK, Open, DebitsTaken
  <2>2. ~ debit[d] > 0
    BY <2>1 DEF OrderInv, DebitsTaken, DisputesAboutOneOrder
  <2> QED
    BY <2>1, <2>2
<1>2. IsFiniteSet(Open(o))
  BY OpenSumType DEF OrderInv, TypeInv
<1> QED
  BY <1>1, <1>2, SumZero

(* A step that leaves the entries alone and opens no dispute over money     *)
(* leaves the sums in disputes alone.                                       *)
LEMMA SameOpenSum ==
    ASSUME TypeOK, DebitsTaken, NEW o \in Orders, UNCHANGED debit, Open(o)' = Open(o)
    PROVE  SumFunctionOnSet(debit, Open(o))' = SumFunctionOnSet(debit, Open(o))
  OBVIOUS

(* A step that touches no order, event or entry and starts no checkout.     *)
LEMMA OrdersUndisturbed ==
    ASSUME OrderInv, TypeInv', UNCHANGED credit,
           \A c \in Calls : call'[c].op = "checkout" => call'[c] = call[c]
    PROVE  OrderInv'
<1> USE DEF credit
<1>1. EventsMakeSense' /\ DisputesAboutOneOrder'
  BY DEF OrderInv, EventsMakeSense, DisputesAboutOneOrder, OpenedFor
<1>2. CheckoutsPending'
  BY DEF OrderInv, CheckoutsPending
<1>3. PaymentsCredited' /\ DebitsTaken' /\ StatusAgreesWithNet'
  BY DEF OrderInv, PaymentsCredited, DebitsTaken, StatusAgreesWithNet, OpenedFor
<1>4. NetCovered'
  BY DEF OrderInv, NetCovered, Open, OpenedFor
<1> QED
  BY <1>1, <1>2, <1>3, <1>4 DEF OrderInv

(* A step of the provider: an event about an order with a link, and for a   *)
(* dispute one nobody opened or one about the order it was opened for.      *)
LEMMA OrdersProvider ==
    ASSUME OrderInv, TypeInv', UNCHANGED <<order, net, debit, seen, call>>,
           NEW e \in Events, sent' = sent \cup {e},
           order[e.order].status \notin Unlinked,
           e.type = "purchase" => e.object = e.order,
           e.type = "dispute-release" => OpenedFor(e.object, e.order),
           e.type = "dispute-opened" => \A o \in Orders : ~ OpenedFor(e.object, o)
    PROVE  OrderInv'
<1>0. TypeOK
  BY DEF OrderInv, TypeInv
<1>1. \A d, o : OpenedFor(d, o)' <=> \/ OpenedFor(d, o)
                                     \/ e.type = "dispute-opened" /\ e.object = d /\ e.order = o
  BY DEF OpenedFor
<1>2. EventsMakeSense'
  BY <1>1 DEF OrderInv, EventsMakeSense
<1>3. DisputesAboutOneOrder'
  BY <1>1 DEF OrderInv, DisputesAboutOneOrder
<1>4. CheckoutsPending' /\ PaymentsCredited' /\ StatusAgreesWithNet'
  BY DEF OrderInv, CheckoutsPending, PaymentsCredited, StatusAgreesWithNet
<1>5. DebitsTaken'
  BY <1>1 DEF OrderInv, DebitsTaken
<1>6. NetCovered'
  <2>1. SUFFICES ASSUME NEW o \in Orders
                 PROVE  SumFunctionOnSet(debit, Open(o))' = SumFunctionOnSet(debit, Open(o))
    BY DEF OrderInv, NetCovered
  <2>2. CASE Open(o)' = Open(o)
    BY <2>2
  <2>3. CASE Open(o)' # Open(o)
    <3>1. /\ e.type = "dispute-opened" /\ e.order = o
          /\ Open(o)' = Open(o) \cup {e.object}
          /\ e.object \in Disputes
      BY <1>1, <2>3, EventShape DEF Open
    <3>2. e.object \notin Open(o) /\ debit[e.object] = 0
      <4>1. \A p \in Orders : ~ OpenedFor(e.object, p)
        BY <3>1
      <4>2. debit[e.object] \in Int /\ debit[e.object] >= 0 /\ ~ debit[e.object] > 0
        BY <1>0, <3>1, <4>1 DEF OrderInv, DebitsTaken, TypeOK
      <4> QED
        BY <4>1, <4>2 DEF Open
    <3>3. /\ IsFiniteSet(Open(o)) /\ \A d \in Open(o) : debit[d] \in Int
          /\ SumFunctionOnSet(debit, Open(o)) \in Nat
      BY <1>0, OpenSumType DEF OrderInv
    <3> DEFINE S == Open(o)
               d == e.object
    <3> HIDE DEF S, d
    <3>4. SumFunctionOnSet(debit, S \cup {d}) = SumFunctionOnSet(debit, S) + debit[d]
      <4>1. IsFiniteSet(S) /\ d \notin S /\ \A x \in S \cup {d} : debit[x] \in Int
        BY <3>2, <3>3 DEF S, d
      <4> QED
        BY <4>1, SumAdd
    <3> QED
      BY <3>1, <3>2, <3>3, <3>4 DEF S, d
  <2> QED
    BY <2>2, <2>3
<1> QED
  BY <1>2, <1>3, <1>4, <1>5, <1>6 DEF OrderInv

(* What the provider emits is of that kind. *)
LEMMA OrdersAfterProvider ==
    ASSUME OrderInv, TypeInv', Provider
    PROVE  OrderInv'
<1>0. TypeOK
  BY DEF OrderInv, TypeInv
<1>1. ASSUME NEW o \in Orders, Paid(o)
      PROVE  order[o].status \notin Unlinked
  BY <1>1 DEF Paid, OrderInv, EventsMakeSense
<1>2. ASSUME NEW o \in Orders, NEW m \in Prices, Pay(o, m)
      PROVE  OrderInv'
  <2> DEFINE e == [type |-> "purchase", object |-> o, order |-> o, micros |-> m]
  <2>1. /\ e \in Events /\ e.type = "purchase" /\ e.order = o /\ e.object = o
        /\ sent' = sent \cup {e}
        /\ order[o].status \notin Unlinked
        /\ UNCHANGED <<order, net, debit, seen, call>>
    BY <1>2 DEF Pay, Events, Unlinked
  <2> HIDE DEF e
  <2> QED
    BY <2>1, OrdersProvider
<1>3. ASSUME NEW r \in Refunds, NEW o \in Orders, NEW m \in Prices, IssueRefund(r, o, m)
      PROVE  OrderInv'
  <2> DEFINE e == [type |-> "refund", object |-> r, order |-> o, micros |-> m]
  <2>1. /\ e \in Events /\ e.type = "refund" /\ e.order = o
        /\ sent' = sent \cup {e}
        /\ order[o].status \notin Unlinked
        /\ UNCHANGED <<order, net, debit, seen, call>>
    BY <1>1, <1>3 DEF IssueRefund, Events
  <2> HIDE DEF e
  <2> QED
    BY <2>1, OrdersProvider
<1>4. ASSUME NEW d \in Disputes, NEW o \in Orders, NEW m \in Prices, OpenDispute(d, o, m)
      PROVE  OrderInv'
  <2> DEFINE e == [type |-> "dispute-opened", object |-> d, order |-> o, micros |-> m]
  <2>1. /\ e \in Events /\ e.type = "dispute-opened" /\ e.order = o /\ e.object = d
        /\ sent' = sent \cup {e}
        /\ order[o].status \notin Unlinked
        /\ UNCHANGED <<order, net, debit, seen, call>>
    BY <1>1, <1>4 DEF OpenDispute, Events
  <2>2. \A p \in Orders : ~ OpenedFor(d, p)
    BY <1>4 DEF OpenDispute, OpenedFor, KeyOf
  <2> HIDE DEF e
  <2> QED
    BY <2>1, <2>2, OrdersProvider
<1>5. ASSUME NEW d \in Disputes, ResolveDispute(d)
      PROVE  OrderInv'
  <2>1. PICK a \in sent, t \in {"dispute-release", "dispute-final"} :
           /\ KeyOf(a) = <<"dispute-opened", d>>
           /\ sent' = sent \cup {[a EXCEPT !.type = t]}
           /\ UNCHANGED <<order, net, debit, seen, call>>
    BY <1>5 DEF ResolveDispute
  <2> DEFINE e == [a EXCEPT !.type = t]
  <2>2. a \in [type : {"dispute-opened", "dispute-release", "dispute-final"},
               object : Disputes, order : Orders, micros : Prices]
    BY <1>0, <2>1 DEF TypeOK, Events, KeyOf
  <2>3. /\ e \in Events /\ e.type = t /\ e.order = a.order /\ e.object = a.object
        /\ a.type = "dispute-opened"
    BY <2>1, <2>2 DEF Events, KeyOf
  <2>4. /\ OpenedFor(a.object, a.order)
        /\ order[a.order].status \notin Unlinked
    BY <2>1, <2>3 DEF OpenedFor, OrderInv, EventsMakeSense
  <2> HIDE DEF e
  <2>5. sent' = sent \cup {e}
    BY <2>1 DEF e
  <2> QED
    BY <2>1, <2>3, <2>4, <2>5, OrdersProvider
<1> QED
  BY <1>2, <1>3, <1>4, <1>5 DEF Provider
(* The portal.  A new checkout takes an order nobody has seen, and cancels  *)
(* orders nobody has paid and no request is busy with.                      *)
LEMMA OrdersAfterBegin ==
    ASSUME OrderInv, TypeInv', NEW c \in Calls, NEW o \in Orders, NEW m \in Prices,
           BeginCheckout(c, o, m)
    PROVE  OrderInv'
<1>0. TypeOK /\ m \in Nat
  BY PricesAssumption DEF OrderInv, TypeInv
<1>1. PICK stale \in SUBSET {p \in Orders :
                              /\ order[p].status \in {"pending", "checkout_created"}
                              /\ \A e \in sent : e.order # p
                              /\ \A d \in Calls : call[d] # [op |-> "checkout", order |-> p]} :
         order' = [p \in Orders |->
                     IF p = o THEN [status |-> "pending", amount |-> m, payment |-> FALSE]
                     ELSE IF p \in stale THEN [order[p] EXCEPT !.status = "cancelled"]
                     ELSE order[p]]
  BY DEF BeginCheckout
<1>2. /\ order[o].status = "none"
      /\ call[c] = Idle
      /\ call' = [call EXCEPT ![c] = [op |-> "checkout", order |-> o]]
      /\ UNCHANGED <<net, debit, sent, seen>>
  BY DEF BeginCheckout, Goto
<1>3. /\ order'[o].status = "pending" /\ order'[o].amount = m /\ ~ order'[o].payment
      /\ \A p \in Orders \ {o} :
            /\ order'[p].amount = order[p].amount /\ order'[p].payment = order[p].payment
            /\ \/ order'[p].status = order[p].status
               \/ p \in stale /\ order'[p].status = "cancelled"
  <2>1. \A p \in Orders : order[p] \in OrderRows
    BY <1>0 DEF TypeOK
  <2> QED
    BY <1>1, <2>1 DEF OrderRows
<1>4. /\ \A p \in stale : /\ p \in Orders
                          /\ order[p].status \in {"pending", "checkout_created"}
                          /\ \A e \in sent : e.order # p
                          /\ \A d \in Calls : call[d] # [op |-> "checkout", order |-> p]
  BY <1>1
<1>5. ~ order[o].payment
  BY <1>2 DEF OrderInv, PaymentsCredited, Credited
<1>6. EventsMakeSense'
  <2>1. \A e \in sent : e.order \in Orders /\ e.order # o /\ e.order \notin stale
    BY <1>0, <1>2, <1>4, EventShape DEF OrderInv, EventsMakeSense, Unlinked, TypeOK
  <2> QED
    BY <1>2, <1>3, <2>1 DEF OrderInv, EventsMakeSense, OpenedFor
<1>7. DisputesAboutOneOrder'
  BY <1>2 DEF OrderInv, DisputesAboutOneOrder, OpenedFor
<1>8. CheckoutsPending'
  <2>1. ASSUME NEW d \in Calls, call[d].op = "checkout"
        PROVE  call[d].order \in Orders \ {o} /\ call[d].order \notin stale
    <3>1. call[d] \in [op : {"checkout"}, order : Orders]
      BY <1>0, <2>1 DEF TypeOK, CallStates, Idle
    <3>2. call[d] = [op |-> "checkout", order |-> call[d].order]
      BY <3>1
    <3> QED
      BY <1>2, <1>4, <2>1, <3>1, <3>2 DEF OrderInv, CheckoutsPending
  <2>2. \A d \in Calls : call'[d] = IF d = c THEN [op |-> "checkout", order |-> o] ELSE call[d]
    BY <1>0, <1>2 DEF TypeOK
  <2>3. SUFFICES ASSUME NEW d \in Calls, call'[d].op = "checkout"
                 PROVE  /\ order'[call'[d].order].status = "pending"
                        /\ \A b \in Calls : call'[b].op = "checkout"
                                             /\ call'[b].order = call'[d].order => d = b
    BY DEF CheckoutsPending
  <2>4. CASE d = c
    BY <1>3, <2>1, <2>2, <2>4
  <2>5. CASE d # c
    <3>1. call'[d] = call[d] /\ call[d].op = "checkout"
      BY <2>2, <2>3, <2>5
    <3>2. call[d].order \in Orders \ {o} /\ call[d].order \notin stale
      BY <2>1, <3>1
    <3>3. order[call[d].order].status = "pending"
      BY <3>1 DEF OrderInv, CheckoutsPending
    <3>4. order'[call'[d].order].status = "pending"
      BY <1>3, <3>1, <3>2, <3>3
    <3> QED
      BY <2>2, <3>1, <3>2, <3>4 DEF OrderInv, CheckoutsPending
  <2> QED
    BY <2>4, <2>5
<1>9. PaymentsCredited'
  BY <1>2, <1>3, <1>4, <1>5 DEF OrderInv, PaymentsCredited, Uncredited, Credited
<1>10. DebitsTaken'
  <2>1. \A p \in Orders : order[p].payment => order'[p].payment
    BY <1>3, <1>5
  <2> QED
    <3>1. \A d, p : OpenedFor(d, p)' <=> OpenedFor(d, p)
      BY <1>2 DEF OpenedFor
    <3> QED
      BY <1>2, <2>1, <3>1 DEF OrderInv, DebitsTaken
<1>11. /\ net[o] = 0 /\ SumFunctionOnSet(debit, Open(o)) = 0
  BY <1>5, NothingOpen DEF OrderInv, PaymentsCredited
<1>12. \A p \in Orders : SumFunctionOnSet(debit, Open(p))' = SumFunctionOnSet(debit, Open(p))
  BY <1>2 DEF Open, OpenedFor
<1>13. NetCovered'
  BY <1>0, <1>2, <1>3, <1>11, <1>12 DEF OrderInv, NetCovered
<1>14. StatusAgreesWithNet'
  <2>1. \A p \in Orders \ {o} :
          \/ order'[p].status = order[p].status
          \/ order'[p].status = "cancelled" /\ net[p] = 0
    BY <1>3, <1>4 DEF OrderInv, StatusAgreesWithNet
  <2> QED
    BY <1>2, <1>3, <1>11, <2>1 DEF OrderInv, StatusAgreesWithNet
<1> QED
  BY <1>6, <1>7, <1>8, <1>9, <1>10, <1>13, <1>14 DEF OrderInv

(* The order whose checkout ends has no events and no money. *)
LEMMA OrdersAfterFinish ==
    ASSUME OrderInv, TypeInv', NEW c \in Calls, FinishCheckout(c)
    PROVE  OrderInv'
<1> DEFINE o == call[c].order
<1>0. TypeOK
  BY DEF OrderInv, TypeInv
<1>1. PICK s \in {"checkout_created", "failed"} :
         order' = [order EXCEPT ![o].status = s, ![o].payment = FALSE]
  BY DEF FinishCheckout
<1>2. /\ o \in Orders /\ order[o].status = "pending"
      /\ \A d \in Calls : call[d].op = "checkout" /\ call[d].order = o => c = d
      /\ \A d \in Calls : call'[d] = IF d = c THEN Idle ELSE call[d]
      /\ UNCHANGED <<net, debit, sent, seen>>
  BY <1>0, CallShape DEF FinishCheckout, Goto, OrderInv, CheckoutsPending, TypeOK
<1> HIDE DEF o
<1>3. /\ order'[o].status = s /\ order'[o].payment = FALSE
      /\ order'[o].amount = order[o].amount
      /\ \A p \in Orders \ {o} : order'[p] = order[p]
  BY <1>0, <1>1, <1>2, OrderWritten DEF TypeOK, OrderStatuses
<1>4. ~ order[o].payment
  BY <1>2 DEF OrderInv, PaymentsCredited, Credited
<1>5. EventsMakeSense' /\ DisputesAboutOneOrder'
  <2>1. \A e \in sent : e.order \in Orders /\ e.order # o
    BY <1>0, <1>2, EventShape DEF OrderInv, EventsMakeSense, Unlinked, TypeOK
  <2> QED
    BY <1>2, <1>3, <2>1 DEF OrderInv, EventsMakeSense, DisputesAboutOneOrder, OpenedFor
<1>6. CheckoutsPending'
  <2>1. SUFFICES ASSUME NEW d \in Calls, call'[d].op = "checkout"
                 PROVE  /\ order'[call'[d].order].status = "pending"
                        /\ \A b \in Calls : call'[b].op = "checkout"
                                             /\ call'[b].order = call'[d].order => d = b
    BY DEF CheckoutsPending
  <2>2. d # c /\ call'[d] = call[d]
    BY <1>2, <2>1 DEF Idle
  <2>3. call[d].order \in Orders \ {o} /\ order[call[d].order].status = "pending"
    BY <1>0, <1>2, <2>1, <2>2, CallShape DEF OrderInv, CheckoutsPending
  <2>4. order'[call'[d].order].status = "pending"
    BY <1>3, <2>2, <2>3
  <2>5. ASSUME NEW b \in Calls, call'[b].op = "checkout", call'[b].order = call'[d].order
        PROVE  d = b
    <3>1. call'[b] = call[b]
      BY <1>2, <2>5 DEF Idle
    <3> QED
      BY <2>1, <2>2, <2>5, <3>1 DEF OrderInv, CheckoutsPending
  <2> QED
    BY <2>4, <2>5
<1>7. PaymentsCredited' /\ DebitsTaken'
  BY <1>2, <1>3, <1>4 DEF OrderInv, PaymentsCredited, DebitsTaken, Uncredited, Credited, OpenedFor
<1>8. \A p \in Orders : order'[p].amount = order[p].amount
  BY <1>3
<1>9. \A p \in Orders : SumFunctionOnSet(debit, Open(p))' = SumFunctionOnSet(debit, Open(p))
  BY <1>2 DEF Open, OpenedFor
<1>10. NetCovered'
  BY <1>2, <1>8, <1>9 DEF OrderInv, NetCovered
<1>11. StatusAgreesWithNet'
  <2>1. net[o] = 0
    BY <1>2, <1>4 DEF OrderInv, PaymentsCredited
  <2> QED
    BY <1>2, <1>3, <2>1 DEF OrderInv, StatusAgreesWithNet
<1> QED
  BY <1>5, <1>6, <1>7, <1>10, <1>11 DEF OrderInv
(* A webhook.  What it does to its order, in each of its five kinds.        *)

(* Every other order keeps its row and its net, and no more of it is open.  *)
LEMMA OtherOrders ==
    ASSUME OrderInv, NEW e \in sent, ApplyEvent(e), NEW p \in Orders, p # e.order
    PROVE  /\ order'[p] = order[p]
           /\ net'[p] = net[p]
           /\ SumFunctionOnSet(debit, Open(p))' \in Int
           /\ SumFunctionOnSet(debit, Open(p))' <= SumFunctionOnSet(debit, Open(p))
<1>0. TypeOK /\ DebitsTaken
  BY DEF OrderInv, TypeInv
<1>1. e \in Events /\ e.order \in Orders /\ Delta(e) \in Int
      /\ StatusAfter(e) \in OrderStatuses
  BY <1>0, EventShape, DeltaType DEF TypeOK
<1>2. order'[p] = order[p]
  BY <1>0, <1>1, OrderWritten DEF ApplyEvent, TypeOK
<1>3. net'[p] = net[p]
  BY <1>0, <1>1 DEF ApplyEvent, TypeOK
<1> DEFINE S == Open(p)
           T == Open(p)'
<1>4. T \subseteq S
  BY DEF Open, OpenedFor, ApplyEvent
<1>5. /\ IsFiniteSet(S) /\ \A d \in S : d \in Disputes /\ debit[d] \in Int /\ debit[d] >= 0
      /\ SumFunctionOnSet(debit, S) \in Nat
  BY <1>0, OpenSumType DEF DebitsTaken
<1>6. \A d \in T : debit'[d] = debit[d]
  <2>1. e.type = "dispute-opened" => e.object \notin T
    BY <1>1, <1>4 DEF Open, OpenedFor, OrderInv, DisputesAboutOneOrder
  <2> QED
    BY <1>0, <1>4, <1>5, <2>1 DEF ApplyEvent, TypeOK
<1> HIDE DEF S, T
<1>7. IsFiniteSet(T)
  BY <1>4, <1>5, FS_Subset
<1>8. SumFunctionOnSet(debit', T) = SumFunctionOnSet(debit, T)
  BY <1>6, <1>7, SumEqual
<1>9. /\ SumFunctionOnSet(debit, T) \in Int
      /\ SumFunctionOnSet(debit, T) <= SumFunctionOnSet(debit, S)
  BY <1>4, <1>5, SumOfPart
<1> QED
  BY <1>2, <1>3, <1>8, <1>9 DEF S, T

(* Its own order stays covered. *)
LEMMA OwnOrder ==
    ASSUME OrderInv, NEW e \in sent, ApplyEvent(e)
    PROVE  LET o == e.order
           IN /\ order'[o].status = StatusAfter(e)
              /\ order'[o].payment = TRUE
              /\ order'[o].amount = order[o].amount
              /\ net'[o] = net[o] + Delta(e)
              /\ net'[o] >= 0
              /\ net'[o] + SumFunctionOnSet(debit, Open(o))' <= order[o].amount
              /\ SumFunctionOnSet(debit, Open(o))' \in Int
              /\ SumFunctionOnSet(debit, Open(o))' >= 0
              /\ e.type = "purchase" => net'[o] = order[o].amount
<1> DEFINE o == e.order
           d == e.object
<1>0. TypeOK /\ DebitsTaken
  BY DEF OrderInv, TypeInv
<1>1. e \in Events /\ o \in Orders /\ Delta(e) \in Int
      /\ StatusAfter(e) \in OrderStatuses /\ order[o].amount \in Nat
  BY <1>0, EventShape, DeltaType DEF TypeOK, OrderRows
<1>2. /\ order'[o].status = StatusAfter(e)
      /\ order'[o].payment = TRUE
      /\ order'[o].amount = order[o].amount
  BY <1>0, <1>1, OrderWritten DEF ApplyEvent, TypeOK
<1>3. net'[o] = net[o] + Delta(e)
  BY <1>0, <1>1 DEF ApplyEvent, TypeOK
<1>4. /\ net[o] \in Int /\ net[o] >= 0
      /\ net[o] + SumFunctionOnSet(debit, Open(o)) <= order[o].amount
  BY <1>0, <1>1 DEF OrderInv, NetCovered, TypeOK
<1>5. /\ IsFiniteSet(Open(o)) /\ \A x \in Open(o) : x \in Disputes /\ debit[x] \in Int
      /\ SumFunctionOnSet(debit, Open(o)) \in Nat
  BY <1>0, <1>1, OpenSumType
<1>6. seen' = seen \cup {<<e.type, d>>} /\ sent' = sent
  BY DEF ApplyEvent, KeyOf
<1> DEFINE Right == /\ net'[o] >= 0
                    /\ net'[o] + SumFunctionOnSet(debit, Open(o))' <= order[o].amount
                    /\ SumFunctionOnSet(debit, Open(o))' \in Int
                    /\ SumFunctionOnSet(debit, Open(o))' >= 0
                    /\ e.type = "purchase" => net'[o] = order[o].amount
<1>7. ASSUME e.type = "purchase" PROVE Right
  <2>1. ~ order[o].payment
    BY <1>1, <1>7 DEF ApplyEvent, PurchaseMatches, OrderInv, PaymentsCredited, Credited
  <2>2. net[o] = 0 /\ SumFunctionOnSet(debit, Open(o)) = 0
    BY <1>1, <2>1, NothingOpen DEF OrderInv, PaymentsCredited
  <2>3. Delta(e) = order[o].amount
    BY <1>7 DEF Delta
  <2>4. Open(o)' = Open(o) /\ debit' = debit
    BY <1>6, <1>7 DEF Open, OpenedFor, ApplyEvent
  <2> QED
    BY <1>1, <1>3, <1>4, <1>5, <2>2, <2>3, <2>4
<1>8. ASSUME e.type = "refund" PROVE Right
  <2>1. Delta(e) = - Removed(e) /\ Removed(e) \in Nat /\ Removed(e) <= net[o]
    BY <1>0, <1>1, <1>4, <1>8, RemovedBounds DEF Delta
  <2>2. Open(o)' = Open(o) /\ debit' = debit
    BY <1>6, <1>8 DEF Open, OpenedFor, ApplyEvent
  <2> QED
    BY <1>1, <1>3, <1>4, <1>5, <1>8, <2>1, <2>2
<1>9. ASSUME e.type = "dispute-final" PROVE Right
  <2>1. Delta(e) = 0
    BY <1>9 DEF Delta
  <2>2. Open(o)' = Open(o) /\ debit' = debit
    BY <1>6, <1>9 DEF Open, OpenedFor, ApplyEvent
  <2> QED
    BY <1>1, <1>3, <1>4, <1>5, <1>9, <2>1, <2>2
<1>10. ASSUME e.type = "dispute-release" PROVE Right
  <2>1. Delta(e) = debit[d] /\ d \in Disputes /\ debit[d] \in Int /\ debit[d] >= 0
    BY <1>0, <1>1, <1>10, EventShape DEF Delta, DebitsTaken, TypeOK
  <2>2. d \in Open(o) /\ Open(o)' = Open(o) \ {d} /\ debit' = debit
    <3>1. OpenedFor(d, o)
      BY <1>10 DEF OrderInv, EventsMakeSense
    <3>2. <<"dispute-release", d>> \notin seen
      BY <1>10 DEF ApplyEvent, Fresh, KeyOf
    <3> QED
      BY <1>6, <1>10, <2>1, <3>1, <3>2 DEF Open, OpenedFor, ApplyEvent
  <2> DEFINE S == Open(o)
             Q == S \ {d}
  <2>3. d \in S /\ Open(o)' = Q /\ Q \subseteq S
    BY <2>2
  <2>4. IsFiniteSet(S) /\ \A x \in S : debit[x] \in Int /\ debit[x] >= 0
    BY <1>0, <1>5 DEF DebitsTaken
  <2> HIDE DEF S
  <2>5. SumFunctionOnSet(debit, S) = debit[d] + SumFunctionOnSet(debit, Q)
    BY <2>3, <2>4, SumRemove
  <2> HIDE DEF Q
  <2>6. SumFunctionOnSet(debit, Q) \in Int /\ SumFunctionOnSet(debit, Q) >= 0
    BY <2>3, <2>4, SumOfPart
  <2>7. SumFunctionOnSet(debit, Open(o))' = SumFunctionOnSet(debit, Q)
    BY <2>2, <2>3
  <2>8. SumFunctionOnSet(debit, Open(o)) = debit[d] + SumFunctionOnSet(debit, Q)
    BY <2>5 DEF S
  <2> QED
    BY <1>1, <1>3, <1>4, <1>10, <2>1, <2>6, <2>7, <2>8
<1>11. ASSUME e.type = "dispute-opened" PROVE Right
  <2>1. /\ Delta(e) = - Removed(e) /\ Removed(e) \in Nat /\ Removed(e) <= net[o]
        /\ d \in Disputes
    BY <1>0, <1>1, <1>4, <1>11, RemovedBounds, EventShape DEF Delta
  <2>2. debit[d] = 0
    <3>1. <<"dispute-opened", d>> \notin seen
      BY <1>11 DEF ApplyEvent, Fresh, KeyOf
    <3>2. debit[d] \in Int /\ debit[d] >= 0 /\ ~ debit[d] > 0
      BY <1>0, <2>1, <3>1 DEF DebitsTaken, TypeOK
    <3> QED
      BY <3>2
  <2>3. /\ Open(o)' = Open(o)
        /\ debit' = [debit EXCEPT ![d] = Removed(e)]
    <3>1. Open(o)' = Open(o)
      BY <1>6, <1>11 DEF Open, OpenedFor
    <3>2. debit' = [debit EXCEPT ![d] = - Delta(e)]
      BY <1>11 DEF ApplyEvent
    <3>3. - Delta(e) = Removed(e)
      BY <2>1
    <3> QED
      BY <3>1, <3>2, <3>3
  <2>4. /\ debit'[d] = Removed(e)
        /\ \A x \in Disputes \ {d} : debit'[x] = debit[x]
    BY <1>0, <2>1, <2>3 DEF TypeOK
  <2> DEFINE S == Open(o)
  <2>5. /\ IsFiniteSet(S)
        /\ \A x \in S : x \in Disputes /\ debit[x] \in Int /\ debit'[x] \in Int
        /\ SumFunctionOnSet(debit, S) \in Nat
    BY <1>5, <2>1, <2>4
  <2>6. SumFunctionOnSet(debit, Open(o))' = SumFunctionOnSet(debit', S)
    BY <2>3
  <2> HIDE DEF S
  <2>7. CASE d \in S
    <3>1. SumFunctionOnSet(debit', S) = SumFunctionOnSet(debit, S) - debit[d] + debit'[d]
      <4>1. \A x \in S \ {d} : debit[x] = debit'[x]
        BY <2>4, <2>5
      <4> QED
        BY <2>5, <2>7, <4>1, SumChange
    <3> QED
      BY <1>1, <1>3, <1>4, <1>11, <2>1, <2>2, <2>4, <2>5, <2>6, <3>1 DEF S
  <2>8. CASE d \notin S
    <3>1. SumFunctionOnSet(debit', S) = SumFunctionOnSet(debit, S)
      <4>1. \A x \in S : debit[x] = debit'[x]
        BY <2>4, <2>5, <2>8
      <4> QED
        BY <2>5, <4>1, SumEqual
    <3> QED
      BY <1>1, <1>3, <1>4, <1>11, <2>1, <2>5, <2>6, <3>1 DEF S
  <2> QED
    BY <2>7, <2>8
<1>12. e.type \in {"purchase", "refund", "dispute-final", "dispute-release", "dispute-opened"}
  BY <1>1, EventShape
<1> QED
  BY <1>2, <1>3, <1>7, <1>8, <1>9, <1>10, <1>11, <1>12
(* The status an event leaves agrees with what it leaves of the net. *)
LEMMA StatusAfterAgrees ==
    ASSUME OrderInv, NEW e \in sent, ApplyEvent(e)
    PROVE  LET o == e.order
           IN /\ StatusAfter(e) \in Credited
              /\ StatusAfter(e) = "paid" => net'[o] = order[o].amount
              /\ StatusAfter(e) = "partially_reversed" =>
                    net'[o] > 0 /\ net'[o] < order[o].amount
<1> DEFINE o == e.order
           n == net[o] + Delta(e)
           s == StatusAfter(e)
<1>0. TypeOK
  BY DEF OrderInv, TypeInv
<1>1. e \in Events /\ o \in Orders /\ Delta(e) \in Int /\ order[o].amount \in Nat
      /\ net[o] \in Int
  BY <1>0, EventShape, DeltaType DEF TypeOK, OrderRows
<1>2. /\ net'[o] = n /\ n >= 0 /\ n <= order[o].amount
      /\ e.type = "purchase" => n = order[o].amount
  <2>1. /\ net'[o] = n /\ n >= 0
        /\ net'[o] + SumFunctionOnSet(debit, Open(o))' <= order[o].amount
        /\ SumFunctionOnSet(debit, Open(o))' \in Int
        /\ SumFunctionOnSet(debit, Open(o))' >= 0
        /\ e.type = "purchase" => net'[o] = order[o].amount
    BY OwnOrder
  <2> QED
    BY <1>1, <2>1
<1>3. \/ e.type = "purchase" /\ s = "paid"
      \/ s = "disputed" \/ s = "reversed"
      \/ n > 0 /\ n < order[o].amount /\ s = "partially_reversed"
      \/ n > 0 /\ ~ n < order[o].amount /\ s = "paid"
  <2>1. e.type \in {"purchase", "refund", "dispute-opened", "dispute-release",
                    "dispute-final"}
    BY <1>1, EventShape
  <2> QED
    BY <1>1, <2>1 DEF StatusAfter
<1> HIDE DEF s, n
<1>4. n \in Int
  BY <1>1 DEF n
<1> QED
  BY <1>1, <1>2, <1>3, <1>4 DEF Credited, s

(* An event that is applied keeps the books of every order. *)
LEMMA OrdersAfterApply ==
    ASSUME OrderInv, TypeInv', NEW e \in sent, ApplyEvent(e)
    PROVE  OrderInv'
<1> DEFINE o == e.order
           d == e.object
<1>0. TypeOK /\ DebitsTaken
  BY DEF OrderInv, TypeInv
<1>1. e \in Events /\ o \in Orders /\ order[o].amount \in Nat
      /\ order[o].status \notin Unlinked
  BY <1>0, EventShape DEF OrderInv, EventsMakeSense, TypeOK, OrderRows
<1>2. /\ order'[o].status = StatusAfter(e) /\ StatusAfter(e) \in Credited
      /\ order'[o].payment = TRUE /\ order'[o].amount = order[o].amount
      /\ \A p \in Orders \ {o} : order'[p] = order[p] /\ net'[p] = net[p]
  BY OwnOrder, StatusAfterAgrees, OtherOrders
<1>3. sent' = sent /\ seen' = seen \cup {<<e.type, d>>} /\ call' = call
  BY DEF ApplyEvent, KeyOf
<1>4. \A b, p : OpenedFor(b, p)' <=> OpenedFor(b, p)
  BY <1>3 DEF OpenedFor
<1>5. EventsMakeSense'
  <2>1. \A x \in sent : order'[x.order].status \notin Unlinked
    <3> SUFFICES ASSUME NEW x \in sent PROVE order'[x.order].status \notin Unlinked
      OBVIOUS
    <3>1. x.order \in Orders /\ order[x.order].status \notin Unlinked
      BY <1>0, EventShape DEF OrderInv, EventsMakeSense, TypeOK
    <3> QED
      BY <1>2, <3>1 DEF Credited, Unlinked
  <2> QED
    BY <1>3, <1>4, <2>1 DEF OrderInv, EventsMakeSense
<1>6. DisputesAboutOneOrder'
  BY <1>4 DEF OrderInv, DisputesAboutOneOrder
<1>7. CheckoutsPending'
  <2>1. \A c \in Calls : call[c].op = "checkout" =>
           call[c].order \in Orders \ {o}
    BY <1>0, <1>1, CallShape DEF OrderInv, CheckoutsPending, Unlinked
  <2> QED
    BY <1>2, <1>3, <2>1 DEF OrderInv, CheckoutsPending
<1>8. PaymentsCredited'
  <2>1. <<"purchase", o>> \in seen'
    <3>1. CASE e.type = "purchase"
      BY <1>3, <3>1 DEF OrderInv, EventsMakeSense
    <3>2. CASE e.type # "purchase"
      BY <1>1, <1>3, <3>2 DEF ApplyEvent, OrderFound, OrderInv, PaymentsCredited
    <3> QED
      BY <3>1, <3>2
  <2>2. \A p \in Orders \ {o} :
          /\ order'[p].payment => /\ order'[p].status \in Credited
                                  /\ <<"purchase", p>> \in seen'
          /\ ~ order'[p].payment => order'[p].status \in Uncredited /\ net'[p] = 0
    BY <1>2, <1>3 DEF OrderInv, PaymentsCredited
  <2> QED
    BY <1>2, <2>1, <2>2 DEF PaymentsCredited
<1>9. DebitsTaken'
  <2>1. \A p \in Orders : order[p].payment => order'[p].payment
    BY <1>2
  <2>2. SUFFICES ASSUME NEW b \in Disputes
                 PROVE  /\ debit'[b] >= 0
                        /\ debit'[b] > 0 =>
                             /\ <<"dispute-opened", b>> \in seen'
                             /\ \E p \in Orders : order'[p].payment /\ OpenedFor(b, p)
    BY <1>4 DEF DebitsTaken
  <2>3. CASE debit'[b] = debit[b]
    BY <1>3, <2>1, <2>3 DEF OrderInv, DebitsTaken
  <2>4. CASE debit'[b] # debit[b]
    <3>1. e.type = "dispute-opened" /\ b = d /\ debit'[b] = - Delta(e)
      BY <1>0, <2>4 DEF ApplyEvent, TypeOK
    <3>2. debit'[b] = Removed(e) /\ Removed(e) \in Nat
      BY <1>0, <1>1, <3>1, RemovedBounds DEF Delta
    <3>3. OpenedFor(d, o)
      BY <3>1 DEF OpenedFor
    <3> QED
      BY <1>1, <1>2, <1>3, <3>1, <3>2, <3>3
  <2> QED
    BY <2>3, <2>4
<1>10. NetCovered'
  <2>1. ASSUME NEW p \in Orders, p # o
        PROVE  /\ net'[p] >= 0
               /\ net'[p] + SumFunctionOnSet(debit, Open(p))' <= order'[p].amount
    <3>1. /\ order'[p] = order[p] /\ net'[p] = net[p]
          /\ SumFunctionOnSet(debit, Open(p))' \in Int
          /\ SumFunctionOnSet(debit, Open(p))' <= SumFunctionOnSet(debit, Open(p))
      BY <2>1, OtherOrders
    <3>2. /\ net[p] \in Int /\ net[p] >= 0 /\ order[p].amount \in Nat
          /\ net[p] + SumFunctionOnSet(debit, Open(p)) <= order[p].amount
      BY <1>0 DEF OrderInv, NetCovered, TypeOK, OrderRows
    <3>3. SumFunctionOnSet(debit, Open(p)) \in Nat
      BY <1>0, OpenSumType
    <3> QED
      BY <3>1, <3>2, <3>3
  <2>2. /\ net'[o] >= 0
        /\ net'[o] + SumFunctionOnSet(debit, Open(o))' <= order'[o].amount
    BY <1>2, OwnOrder
  <2> QED
    BY <2>1, <2>2 DEF NetCovered
<1>11. StatusAgreesWithNet'
  <2>1. /\ order'[o].status = "paid" => net'[o] = order'[o].amount
        /\ order'[o].status = "partially_reversed" =>
              net'[o] > 0 /\ net'[o] < order'[o].amount
        /\ order'[o].status \in {"paid", "partially_reversed", "reversed", "disputed"}
    BY <1>2, StatusAfterAgrees DEF Credited
  <2> QED
    BY <1>2, <2>1 DEF OrderInv, StatusAgreesWithNet
<1> QED
  BY <1>5, <1>6, <1>7, <1>8, <1>9, <1>10, <1>11 DEF OrderInv

(* A purchase the store did not expect leaves an order without money.       *)
LEMMA OrdersAfterQuarantine ==
    ASSUME OrderInv, TypeInv', NEW e \in sent, QuarantinePurchase(e)
    PROVE  OrderInv'
<1> DEFINE o == e.order
<1>0. TypeOK
  BY DEF OrderInv, TypeInv
<1>1. /\ e \in Events /\ o \in Orders /\ order[o].status \notin Unlinked
      /\ e.type = "purchase" /\ e.object = o /\ <<"purchase", o>> \notin seen
  BY <1>0, EventShape DEF OrderInv, EventsMakeSense, TypeOK, QuarantinePurchase, Fresh, KeyOf
<1>2. ~ order[o].payment /\ net[o] = 0
  BY <1>1 DEF OrderInv, PaymentsCredited
<1>3. /\ order'[o].status = "review_required" /\ order'[o].payment = order[o].payment
      /\ order'[o].amount = order[o].amount
      /\ \A p \in Orders \ {o} : order'[p] = order[p]
  <2>1. order' = [order EXCEPT ![o] = [order[o] EXCEPT !.status = "review_required"]]
    BY DEF QuarantinePurchase
  <2>2. order[o] \in OrderRows
    BY <1>0, <1>1 DEF TypeOK
  <2> QED
    BY <1>0, <1>1, <2>1, <2>2 DEF TypeOK, OrderRows
<1>4. /\ seen' = seen \cup {<<"purchase", o>>}
      /\ UNCHANGED <<net, debit, sent, call>>
  BY <1>1 DEF QuarantinePurchase, KeyOf
<1> HIDE DEF o
<1>5. \A b, p : OpenedFor(b, p)' <=> OpenedFor(b, p)
  BY <1>4 DEF OpenedFor
<1>6. EventsMakeSense' /\ DisputesAboutOneOrder'
  <2>1. \A x \in sent : order'[x.order].status \notin Unlinked
    <3> SUFFICES ASSUME NEW x \in sent PROVE order'[x.order].status \notin Unlinked
      OBVIOUS
    <3>1. x.order \in Orders /\ order[x.order].status \notin Unlinked
      BY <1>0, EventShape DEF OrderInv, EventsMakeSense, TypeOK
    <3> QED
      BY <1>3, <3>1 DEF Unlinked
  <2> QED
    BY <1>4, <1>5, <2>1 DEF OrderInv, EventsMakeSense, DisputesAboutOneOrder
<1>7. CheckoutsPending'
  <2>1. \A c \in Calls : call[c].op = "checkout" =>
           call[c].order \in Orders \ {o}
    BY <1>0, <1>1, CallShape DEF OrderInv, CheckoutsPending, Unlinked
  <2> QED
    BY <1>3, <1>4, <2>1 DEF OrderInv, CheckoutsPending
<1>8. PaymentsCredited'
  BY <1>2, <1>3, <1>4 DEF OrderInv, PaymentsCredited, Uncredited
<1>9. DebitsTaken'
  <2>1. \A p \in Orders : order'[p].payment = order[p].payment
    BY <1>3
  <2> QED
    BY <1>4, <1>5, <2>1 DEF OrderInv, DebitsTaken
<1>10. NetCovered'
  <2>1. \A p \in Orders : Open(p)' = Open(p) /\ order'[p].amount = order[p].amount
    BY <1>3, <1>4, <1>5 DEF Open
  <2> QED
    BY <1>4, <2>1 DEF OrderInv, NetCovered
<1>11. StatusAgreesWithNet'
  BY <1>2, <1>3, <1>4 DEF OrderInv, StatusAgreesWithNet
<1> QED
  BY <1>6, <1>7, <1>8, <1>9, <1>10, <1>11 DEF OrderInv

(* An ignored reversal only leaves a trace: its order was not credited, so  *)
(* its dispute took nothing.                                                *)
LEMMA OrdersAfterIgnore ==
    ASSUME OrderInv, TypeInv', NEW e \in sent, IgnoreEvent(e)
    PROVE  OrderInv'
<1>0. TypeOK /\ DebitsTaken
  BY DEF OrderInv, TypeInv
<1>1. /\ e \in Events /\ e.order \in Orders /\ ~ order[e.order].payment
      /\ seen' = seen \cup {<<e.type, e.object>>}
      /\ UNCHANGED <<order, net, debit, sent, call>>
  BY <1>0, EventShape DEF TypeOK, IgnoreEvent, OrderFound, KeyOf
<1>2. \A b, p : OpenedFor(b, p)' <=> OpenedFor(b, p)
  BY <1>1 DEF OpenedFor
<1>3. EventsMakeSense' /\ DisputesAboutOneOrder' /\ CheckoutsPending'
  BY <1>1, <1>2 DEF OrderInv, EventsMakeSense, DisputesAboutOneOrder, CheckoutsPending
<1>4. PaymentsCredited' /\ StatusAgreesWithNet'
  BY <1>1 DEF OrderInv, PaymentsCredited, StatusAgreesWithNet
<1>5. DebitsTaken'
  BY <1>1, <1>2 DEF OrderInv, DebitsTaken
<1>6. NetCovered'
  <2>1. SUFFICES ASSUME NEW p \in Orders
                 PROVE  /\ net[p] >= 0
                        /\ net[p] + SumFunctionOnSet(debit, Open(p)') <= order[p].amount
    BY <1>1 DEF NetCovered
  <2> DEFINE S == Open(p)
             T == Open(p)'
  <2>2. T \subseteq S
    BY <1>1, <1>2 DEF Open
  <2>3. /\ IsFiniteSet(S) /\ \A d \in S : d \in Disputes /\ debit[d] \in Int /\ debit[d] >= 0
        /\ SumFunctionOnSet(debit, S) \in Nat
    BY <1>0, OpenSumType DEF DebitsTaken
  <2>4. /\ net[p] \in Int /\ net[p] >= 0 /\ order[p].amount \in Nat
        /\ net[p] + SumFunctionOnSet(debit, S) <= order[p].amount
    BY <1>0 DEF OrderInv, NetCovered, TypeOK, OrderRows
  <2> HIDE DEF S, T
  <2>5. SumFunctionOnSet(debit, T) \in Int /\ SumFunctionOnSet(debit, T) <= SumFunctionOnSet(debit, S)
    BY <2>2, <2>3, SumOfPart
  <2>6. net[p] + SumFunctionOnSet(debit, T) <= order[p].amount
    BY <2>3, <2>4, <2>5
  <2> QED
    BY <2>4, <2>6 DEF T
<1> QED
  BY <1>3, <1>4, <1>5, <1>6 DEF OrderInv
(* OrderInv is inductive. *)
LEMMA OrderInit == Init => OrderInv
<1> SUFFICES ASSUME Init PROVE OrderInv
  OBVIOUS
<1>1. TypeInv
  BY TypeInit DEF Init, TypeInv, MovesBetweenTwo, Idle
<1>2. \A o \in Orders : Open(o) = {}
  BY DEF Init, Open, OpenedFor
<1>3. NetCovered
  <2> SUFFICES ASSUME NEW o \in Orders
               PROVE  net[o] >= 0 /\ net[o] + SumFunctionOnSet(debit, Open(o)) <= order[o].amount
    BY DEF NetCovered
  <2>1. SumFunctionOnSet(debit, Open(o)) = 0
    <3>1. Open(o) = {}
      BY <1>2
    <3> QED
      BY <3>1, SumEmpty
  <2>2. net[o] = 0 /\ order[o].amount = 0
    BY DEF Init, NoOrder
  <2> QED
    BY <2>1, <2>2
<1> QED
  BY <1>1, <1>3 DEF Init, OrderInv, EventsMakeSense, DisputesAboutOneOrder, OpenedFor,
     CheckoutsPending, PaymentsCredited, DebitsTaken, StatusAgreesWithNet, NoOrder,
     Idle, Credited, Uncredited

(* Requests that go on to something other than a checkout leave the         *)
(* checkouts as they are.                                                   *)
LEMMA CheckoutsKept ==
    ASSUME TypeOK, NEW c \in Calls \cup Admins, NEW x, x.op # "checkout", Goto(c, x)
    PROVE  \A d \in Calls : call'[d].op = "checkout" => call'[d] = call[d]
  BY DEF TypeOK, Goto

(* Every step keeps it. *)
LEMMA OrderStep ==
    ASSUME OrderInv, [Next]_vars
    PROVE  OrderInv'
<1>0. TypeOK /\ TypeInv'
  BY TypeStep DEF OrderInv, TypeInv
<1> DEFINE Kept == \A d \in Calls : call'[d].op = "checkout" => call'[d] = call[d]
<1>1. CASE Provider
  BY <1>0, <1>1, OrdersAfterProvider
<1>2. CASE Webhook
  BY <1>0, <1>2, OrdersAfterApply, OrdersAfterQuarantine, OrdersAfterIgnore DEF Webhook
<1>3. ASSUME NEW c \in Calls, Portal(c)
      PROVE  OrderInv'
  <2>1. ASSUME NEW o \in Orders, NEW m \in Prices, BeginCheckout(c, o, m)
        PROVE  OrderInv'
    BY <1>0, <2>1, OrdersAfterBegin
  <2>2. CASE FinishCheckout(c)
    BY <1>0, <2>2, OrdersAfterFinish
  <2>3. ASSUME NEW k \in Campaigns, NEW n \in {"active", "paused", "ended"},
               ReadCampaign(c, k, n)
        PROVE  Kept /\ UNCHANGED credit
    BY <1>0, <2>3, CheckoutsKept DEF ReadCampaign
  <2>4. ASSUME ReadSpend(c)
        PROVE  Kept /\ UNCHANGED credit
    BY <1>0, <2>4, CheckoutsKept DEF ReadSpend
  <2>5. ASSUME CommitTransition(c) \/ CommitMove(c)
        PROVE  Kept /\ UNCHANGED credit
    BY <1>0, <2>5, CheckoutsKept DEF CommitTransition, CommitMove, Idle
  <2>6. ASSUME NEW j \in Campaigns, NEW k \in Campaigns, NEW m \in Moves,
               ReadForMove(c, j, k, m)
        PROVE  Kept /\ UNCHANGED credit
    BY <1>0, <2>6, CheckoutsKept DEF ReadForMove
  <2>7. ASSUME NEW k \in Campaigns, ReadForServe(c, k)
        PROVE  Kept /\ UNCHANGED credit
    BY <1>0, <2>7, CheckoutsKept DEF ReadForServe
  <2>8. ASSUME RecordServe(c)
        PROVE  Kept /\ UNCHANGED credit
    BY <1>0, <2>8, CheckoutsKept DEF RecordServe, Idle
  <2>9. ASSUME Kept, UNCHANGED credit
        PROVE  OrderInv'
    BY <1>0, <2>9, OrdersUndisturbed
  <2> HIDE DEF Kept
  <2> QED
    BY <1>3, <2>1, <2>2, <2>3, <2>4, <2>5, <2>6, <2>7, <2>8, <2>9 DEF Portal
<1>4. ASSUME NEW c \in Admins, NEW s \in {"active", "suspended"}, ReadForStanding(c, s)
      PROVE  Kept /\ UNCHANGED credit
  BY <1>0, <1>4, CheckoutsKept DEF ReadForStanding
<1>5. ASSUME NEW c \in Admins, PutAdvertiser(c)
      PROVE  Kept /\ UNCHANGED credit
  BY <1>0, <1>5, CheckoutsKept DEF PutAdvertiser, Idle
<1>6. ASSUME NEW c \in Calls \cup Admins, Crash(c)
      PROVE  Kept /\ UNCHANGED credit
  BY <1>0, <1>6, CheckoutsKept DEF Crash, Idle
<1>7. ASSUME NEW k \in Campaigns,
             \/ \E b \in Budgets : CreateCampaign(k, b)
             \/ SettleReceipt(k) \/ ExpireServe(k)
      PROVE  Kept /\ UNCHANGED credit
  BY <1>7 DEF CreateCampaign, SettleReceipt, ExpireServe
<1>8. ASSUME UNCHANGED vars
      PROVE  Kept /\ UNCHANGED credit
  BY <1>8 DEF vars, credit
<1>9. ASSUME Kept, UNCHANGED credit
      PROVE  OrderInv'
  BY <1>0, <1>9, OrdersUndisturbed
<1> HIDE DEF Kept
<1> QED
  BY <1>1, <1>2, <1>3, <1>4, <1>5, <1>6, <1>7, <1>8, <1>9 DEF Next

(* So it always holds. *)
LEMMA OrderInvariant == Spec => []OrderInv
<1>1. Init => OrderInv
  BY OrderInit
<1>2. OrderInv /\ [Next]_vars => OrderInv'
  BY OrderStep
<1> QED
  BY <1>1, <1>2, PTL DEF Spec

(* However often and in whatever order the provider delivers payments,      *)
(* refunds and disputes, an order is never worth less than nothing nor more *)
(* than was asked for it.                                                   *)
THEOREM OrdersNeverOverdrawn == Spec => []OrderNetBounded
<1>1. OrderInv => OrderNetBounded
  <2> SUFFICES ASSUME OrderInv, NEW o \in Orders
               PROVE  net[o] >= 0 /\ net[o] <= order[o].amount
    BY DEF OrderNetBounded
  <2>1. /\ net[o] \in Int /\ net[o] >= 0 /\ order[o].amount \in Nat
        /\ net[o] + SumFunctionOnSet(debit, Open(o)) <= order[o].amount
    BY DEF OrderInv, TypeInv, TypeOK, OrderRows, NetCovered
  <2>2. SumFunctionOnSet(debit, Open(o)) \in Nat
    BY OpenSumType DEF OrderInv, TypeInv
  <2> QED
    BY <2>1, <2>2
<1> QED
  BY <1>1, OrderInvariant, PTL

(* The status an order shows agrees with what its entries add up to.        *)
THEOREM StatusHonest == Spec => []StatusAgreesWithNet
<1>1. OrderInv => StatusAgreesWithNet
  BY DEF OrderInv
<1> QED
  BY <1>1, OrderInvariant, PTL
-----------------------------------------------------------------------------
(* Credits and campaigns.  An administrator's write-back restores whatever  *)
(* it read; these are theorems about everything else.                       *)

(* The credits an administrator writes back are those of the moment. *)
WritesBackCredits ==
    \A c \in Admins : PutAdvertiser(c) => call[c].funded = funded

(* No administrator's decision lands. *)
NoWriteBack == \A c \in Admins : ~ PutAdvertiser(c)

(* The steps that change the credits or the orders' entries. *)
LEMMA StepsOfCredits ==
    ASSUME [Next]_vars
    PROVE  \/ UNCHANGED <<funded, net>>
           \/ \E e \in sent : ApplyEvent(e)
           \/ \E c \in Admins : PutAdvertiser(c)
<1>1. ASSUME Provider
      PROVE  UNCHANGED <<funded, net>>
  BY <1>1 DEF Provider, Pay, IssueRefund, OpenDispute, ResolveDispute, money
<1>2. ASSUME NEW e \in sent, QuarantinePurchase(e) \/ IgnoreEvent(e)
      PROVE  UNCHANGED <<funded, net>>
  BY <1>2 DEF QuarantinePurchase, IgnoreEvent, money
<1>3. ASSUME NEW c \in Calls, Portal(c)
      PROVE  UNCHANGED <<funded, net>>
  BY <1>3 DEF Portal, BeginCheckout, FinishCheckout, ReadCampaign, ReadSpend,
     CommitTransition, ReadForMove, CommitMove, ReadForServe, RecordServe, money, credit
<1>4. ASSUME NEW c \in Calls \cup Admins,
             Crash(c) \/ \E s \in {"active", "suspended"} : ReadForStanding(c, s)
      PROVE  UNCHANGED <<funded, net>>
  BY <1>4 DEF Crash, ReadForStanding, money, credit
<1>5. ASSUME NEW k \in Campaigns,
             \/ \E b \in Budgets : CreateCampaign(k, b)
             \/ SettleReceipt(k) \/ ExpireServe(k)
      PROVE  UNCHANGED <<funded, net>>
  BY <1>5 DEF CreateCampaign, SettleReceipt, ExpireServe, money, credit
<1>6. ASSUME UNCHANGED vars
      PROVE  UNCHANGED <<funded, net>>
  BY <1>6 DEF vars
<1> QED
  BY <1>1, <1>2, <1>3, <1>4, <1>5, <1>6 DEF Next, Webhook

ReconcileInv == TypeInv /\ Reconciles

(* The credits move with the entries, by the same amount. *)
LEMMA ReconcileStep ==
    ASSUME ReconcileInv, [Next]_vars, WritesBackCredits
    PROVE  ReconcileInv'
<1>0. TypeOK /\ TypeInv' /\ funded = SumFunctionOnSet(net, Orders)
  BY TypeStep DEF ReconcileInv, TypeInv, Reconciles
<1>1. CASE UNCHANGED <<funded, net>>
  BY <1>0, <1>1 DEF ReconcileInv, Reconciles
<1>2. CASE \E e \in sent : ApplyEvent(e)
  <2>1. PICK e \in sent : ApplyEvent(e)
    BY <1>2
  <2>2. e.order \in Orders /\ Delta(e) \in Int
    BY <1>0, EventShape, DeltaType DEF TypeOK
  <2>3. /\ net'[e.order] = net[e.order] + Delta(e)
        /\ \A o \in Orders \ {e.order} : net[o] = net'[o]
        /\ \A o \in Orders : net[o] \in Int /\ net'[o] \in Int
        /\ funded' = funded + Delta(e)
    BY <1>0, <2>1, <2>2 DEF ApplyEvent, TypeOK
  <2>4. SumFunctionOnSet(net', Orders) =
          SumFunctionOnSet(net, Orders) - net[e.order] + net'[e.order]
    BY <2>2, <2>3, FiniteAssumption, SumChange
  <2>5. SumFunctionOnSet(net, Orders) \in Int
    BY <2>3, FiniteAssumption, SumType
  <2> QED
    BY <1>0, <2>2, <2>3, <2>4, <2>5 DEF ReconcileInv, Reconciles
<1>3. CASE \E c \in Admins : PutAdvertiser(c)
  BY <1>0, <1>3 DEF PutAdvertiser, WritesBackCredits, ReconcileInv, Reconciles, credit
<1> QED
  BY <1>1, <1>2, <1>3, StepsOfCredits

(* The advertiser's credits are the sum of what their orders count for,     *)
(* through every payment, refund and dispute, unless an administrator       *)
(* writes back credits that have changed since they were read.              *)
THEOREM CreditsReconcile ==
    Spec /\ [][WritesBackCredits]_vars => []Reconciles
<1>1. Init => ReconcileInv
  <2> SUFFICES ASSUME Init PROVE ReconcileInv
    OBVIOUS
  <2>1. TypeInv
    BY TypeInit DEF Init, TypeInv, MovesBetweenTwo, Idle
  <2>2. SumFunctionOnSet(net, Orders) = 0
    BY FiniteAssumption, SumZero DEF Init
  <2> QED
    BY <2>1, <2>2 DEF Init, ReconcileInv, Reconciles
<1>2. ReconcileInv /\ [Next]_vars /\ [WritesBackCredits]_vars => ReconcileInv'
  <2>1. CASE UNCHANGED vars
    BY <2>1, TypeStep DEF vars, ReconcileInv, Reconciles
  <2> QED
    BY <2>1, ReconcileStep
<1>3. ReconcileInv => Reconciles
  BY DEF ReconcileInv
<1> QED
  BY <1>1, <1>2, <1>3, PTL DEF Spec
(* What a step may do to the standing, the reservation and the campaigns.   *)
LEMMA StepsOfCampaigns ==
    ASSUME [Next]_vars, NoWriteBack
    PROVE  \/ UNCHANGED <<money, campaign>>
           \/ \E e \in sent : ApplyEvent(e)
           \/ \E c \in Calls : CommitTransition(c) \/ CommitMove(c) \/ RecordServe(c)
           \/ \E k \in Campaigns : \/ \E b \in Budgets : CreateCampaign(k, b)
                                   \/ SettleReceipt(k) \/ ExpireServe(k)
<1>1. ASSUME Provider
      PROVE  UNCHANGED <<money, campaign>>
  BY <1>1 DEF Provider, Pay, IssueRefund, OpenDispute, ResolveDispute, money
<1>2. ASSUME NEW e \in sent, QuarantinePurchase(e) \/ IgnoreEvent(e)
      PROVE  UNCHANGED <<money, campaign>>
  BY <1>2 DEF QuarantinePurchase, IgnoreEvent, money
<1>3. ASSUME NEW c \in Calls, Portal(c),
             ~ (CommitTransition(c) \/ CommitMove(c) \/ RecordServe(c))
      PROVE  UNCHANGED <<money, campaign>>
  BY <1>3 DEF Portal, BeginCheckout, FinishCheckout, ReadCampaign, ReadSpend,
     ReadForMove, ReadForServe, money
<1>4. ASSUME NEW c \in Calls \cup Admins,
             Crash(c) \/ \E s \in {"active", "suspended"} : ReadForStanding(c, s)
      PROVE  UNCHANGED <<money, campaign>>
  BY <1>4 DEF Crash, ReadForStanding, money
<1>5. ASSUME UNCHANGED vars
      PROVE  UNCHANGED <<money, campaign>>
  BY <1>5 DEF vars, money
<1> QED
  BY <1>1, <1>2, <1>3, <1>4, <1>5 DEF Next, Webhook, NoWriteBack

(* What is stopped stays so: a step changes the status of one campaign at   *)
(* most, unless it stops them all.                                          *)
StopInv == TypeInv /\ reserved >= 0 /\ UnderfundedIsStopped

(* What a transition commits is a natural number. *)
LEMMA RemainingType ==
    ASSUME TypeOK, NEW c \in Calls, call[c].op = "commit"
    PROVE  /\ call[c].campaign \in Campaigns /\ call[c].next \in CampaignStatuses
           /\ Remaining(call[c]) \in Nat
<1>1. /\ call[c].campaign \in Campaigns /\ call[c].next \in CampaignStatuses
      /\ call[c].spent \in Nat
  BY CallShape
<1>2. campaign[call[c].campaign].budget \in Nat
  BY <1>1 DEF TypeOK, CampaignRows
<1> QED
  BY <1>1, <1>2 DEF Remaining, AtLeastZero

(* Every step but a write-back keeps the stop. *)
LEMMA StopStep ==
    ASSUME StopInv, [Next]_vars, NoWriteBack
    PROVE  StopInv'
<1>0. /\ TypeOK /\ TypeOK' /\ TypeInv' /\ reserved \in Int /\ reserved >= 0 /\ funded \in Int
      /\ reserved' \in Int /\ funded' \in Int
  BY TypeStep DEF StopInv, TypeInv, TypeOK
<1>1. CASE UNCHANGED <<money, campaign>>
  BY <1>0, <1>1 DEF StopInv, UnderfundedIsStopped, money
<1>2. ASSUME NEW e \in sent, ApplyEvent(e)
      PROVE  StopInv'
  <2>1. reserved' = reserved /\ StopIfUnderfunded(funded')
    BY <1>2 DEF ApplyEvent
  <2>2. UnderfundedIsStopped'
    <3> SUFFICES ASSUME funded' < reserved
                 PROVE  standing' = "suspended" /\ \A k \in Campaigns : campaign'[k].status # "active"
      BY <2>1 DEF UnderfundedIsStopped
    <3>1. standing' = "suspended"
      BY <2>1 DEF StopIfUnderfunded
    <3>2. ASSUME NEW k \in Campaigns
          PROVE  campaign'[k].status # "active"
      <4>1. campaign'[k] = IF campaign[k].status = "active"
                           THEN [campaign[k] EXCEPT !.status = "paused"]
                           ELSE campaign[k]
        BY <2>1 DEF StopIfUnderfunded
      <4>2. campaign[k] \in CampaignRows
        BY <1>0 DEF TypeOK
      <4> QED
        BY <4>1, <4>2 DEF CampaignRows
    <3> QED
      BY <3>1, <3>2
  <2> QED
    BY <1>0, <2>1, <2>2 DEF StopInv
<1>3. ASSUME NEW c \in Calls, CommitTransition(c)
      PROVE  StopInv'
  <2> DEFINE x == call[c]
  <2>1. /\ x.campaign \in Campaigns /\ x.next \in CampaignStatuses
        /\ Remaining(x) \in Nat
    BY <1>0, <1>3, RemainingType DEF CommitTransition
  <2>2. funded' = funded /\ standing' = standing
    BY <1>3 DEF CommitTransition
  <2>3. CASE ~ MayCommit(x)
    <3>1. reserved' = reserved /\ campaign' = campaign
      BY <1>3, <2>3 DEF CommitTransition
    <3> QED
      BY <1>0, <2>2, <3>1 DEF StopInv, UnderfundedIsStopped
  <2>4. CASE MayCommit(x) /\ x.next = "active"
    <3>1. reserved' = reserved + Remaining(x) /\ Remaining(x) <= funded - reserved
      BY <1>3, <2>4 DEF CommitTransition, MayCommit
    <3>2. reserved' >= 0 /\ ~ funded' < reserved'
      BY <1>0, <2>1, <2>2, <3>1
    <3> QED
      BY <1>0, <3>2 DEF StopInv, UnderfundedIsStopped
  <2>5. CASE MayCommit(x) /\ x.next # "active"
    <3>1. /\ reserved' = AtLeastZero(reserved - Remaining(x))
          /\ campaign' = [campaign EXCEPT ![x.campaign].status = x.next]
      BY <1>3, <2>5 DEF CommitTransition
    <3>2. reserved' >= 0 /\ reserved' <= reserved
      BY <1>0, <2>1, <3>1 DEF AtLeastZero
    <3>3. \A k \in Campaigns : campaign'[k].status = "active" => campaign[k].status = "active"
      BY <1>0, <2>1, <2>5, <3>1 DEF TypeOK, CampaignRows
    <3>4. funded' < reserved' => funded < reserved
      BY <1>0, <2>2, <3>2
    <3> QED
      BY <1>0, <2>2, <3>2, <3>3, <3>4 DEF StopInv, UnderfundedIsStopped
  <2> QED
    BY <2>3, <2>4, <2>5
<1>4. ASSUME NEW c \in Calls, CommitMove(c)
      PROVE  StopInv'
  <2> DEFINE x == call[c]
  <2>1. /\ x.from \in Campaigns /\ x.to \in Campaigns /\ x.micros \in Nat /\ x.from # x.to
    BY <1>0, <1>4, CallShape DEF CommitMove, StopInv, TypeInv, MovesBetweenTwo
  <2>2. HeldBy(x) \in Int
    BY <2>1 DEF HeldBy
  <2>3. funded' = funded /\ standing' = standing
    BY <1>4 DEF CommitMove
  <2>4. CASE ~ MayMove(x)
    <3>1. reserved' = reserved /\ campaign' = campaign
      BY <1>4, <2>4 DEF CommitMove
    <3> QED
      BY <1>0, <2>3, <3>1 DEF StopInv, UnderfundedIsStopped
  <2>5. CASE MayMove(x)
    <3>1. reserved' = AtLeastZero(reserved + HeldBy(x))
      BY <1>4, <2>5 DEF CommitMove
    <3>2. HeldBy(x) > 0 => HeldBy(x) <= funded - reserved
      BY <2>5 DEF MayMove
    <3>3. reserved' >= 0 /\ (funded' < reserved' => funded < reserved)
      BY <1>0, <2>2, <2>3, <3>1, <3>2 DEF AtLeastZero
    <3>4. \A k \in Campaigns : campaign'[k].status = campaign[k].status
      BY <1>4, <2>1, <2>5, MovedRows DEF StopInv
    <3> QED
      BY <1>0, <2>3, <3>3, <3>4 DEF StopInv, UnderfundedIsStopped
  <2> QED
    BY <2>4, <2>5
<1>5. ASSUME NEW c \in Calls, RecordServe(c)
      PROVE  StopInv'
  <2>1. /\ \A k \in Campaigns : campaign'[k].status = campaign[k].status
        /\ UNCHANGED money
    BY <1>0, <1>5, CallShape DEF RecordServe, TypeOK, CampaignRows
  <2> QED
    BY <1>0, <2>1 DEF StopInv, UnderfundedIsStopped, money
<1>6. ASSUME NEW j \in Campaigns, SettleReceipt(j) \/ ExpireServe(j)
      PROVE  StopInv'
  <2>1. /\ \A k \in Campaigns : campaign'[k].status = campaign[k].status
        /\ UNCHANGED money
    BY <1>0, <1>6 DEF SettleReceipt, ExpireServe, TypeOK, CampaignRows
  <2> QED
    BY <1>0, <2>1 DEF StopInv, UnderfundedIsStopped, money
<1>7. ASSUME NEW j \in Campaigns, NEW b \in Budgets, CreateCampaign(j, b)
      PROVE  StopInv'
  BY <1>0, <1>7 DEF CreateCampaign, StopInv, UnderfundedIsStopped, money, TypeOK
<1> QED
  BY <1>1, <1>2, <1>3, <1>4, <1>5, <1>6, <1>7, StepsOfCampaigns

(* When the credits no longer cover what is reserved, nothing of the        *)
(* advertiser's runs, nor can a request already on its way start anything - *)
(* whatever their number and interleaving - until an administrator decides. *)
THEOREM UnderfundedStops ==
    Spec /\ [][NoWriteBack]_vars => []UnderfundedIsStopped
<1>1. Init => StopInv
  BY TypeInit DEF Init, StopInv, TypeInv, MovesBetweenTwo, Idle, UnderfundedIsStopped
<1>2. StopInv /\ [Next]_vars /\ [NoWriteBack]_vars => StopInv'
  <2>1. CASE UNCHANGED vars
    BY <2>1, TypeStep DEF vars, StopInv, UnderfundedIsStopped
  <2> QED
    BY <2>1, StopStep
<1>3. StopInv => UnderfundedIsStopped
  BY DEF StopInv
<1> QED
  BY <1>1, <1>2, <1>3, PTL DEF Spec
(* What HeldIsActiveBudget rests on: a request is about campaigns that      *)
(* exist, a transition is to a status a campaign may be given and with a    *)
(* spend that is at most the campaign's.                                    *)
RequestsMakeSense ==
    \A c \in Calls :
        /\ call[c].op \in {"spend", "commit"} =>
              call[c].next \in {"active", "paused", "ended"}
        /\ call[c].op \in {"spend", "commit", "serve"} =>
              campaign[call[c].campaign].status # "none"
        /\ call[c].op = "move" => /\ campaign[call[c].from].status # "none"
                                  /\ campaign[call[c].to].status # "none"
        /\ call[c].op = "commit" =>
              call[c].spent <= campaign[call[c].campaign].spent

(* A campaign that was not created has no spend and nothing to pay for. *)
Unborn == \A k \in Campaigns : campaign[k].status = "none" => campaign[k] = NoCampaign

HeldInv ==
    TypeInv /\ reserved >= 0 /\ RequestsMakeSense /\ Unborn /\ HeldIsActiveBudget

(* What campaign k adds to ActiveBudget. *)
Part(k) == IF campaign[k].status = "active" THEN campaign[k].budget ELSE 0

(* Parts and whole are natural numbers. *)
LEMMA PartType ==
    ASSUME TypeOK
    PROVE  /\ \A k \in Campaigns : Part(k) \in Int /\ Part(k) >= 0
           /\ ActiveBudget = SumFunctionOnSet([k \in Campaigns |-> Part(k)], Campaigns)
           /\ ActiveBudget \in Int /\ ActiveBudget >= 0
<1> DEFINE f == [k \in Campaigns |-> Part(k)]
<1>1. \A k \in Campaigns : f[k] \in Int /\ f[k] >= 0 /\ f[k] = Part(k)
  BY DEF Part, TypeOK, CampaignRows
<1>2. ActiveBudget = SumFunctionOnSet(f, Campaigns)
  BY DEF ActiveBudget, Part
<1> HIDE DEF f
<1>3. SumFunctionOnSet(f, Campaigns) \in Int /\ SumFunctionOnSet(f, Campaigns) >= 0
  BY <1>1, FiniteAssumption, SumType
<1> QED
  BY <1>1, <1>2, <1>3 DEF f

(* No campaign's part is more than the whole. *)
LEMMA PartOfWhole ==
    ASSUME TypeOK, NEW k \in Campaigns
    PROVE  Part(k) <= ActiveBudget
<1> DEFINE f == [j \in Campaigns |-> Part(j)]
           R == {k}
<1>1. /\ \A j \in Campaigns : f[j] \in Int /\ f[j] >= 0
      /\ f[k] = Part(k)
      /\ ActiveBudget = SumFunctionOnSet(f, Campaigns)
  BY PartType
<1> HIDE DEF f
<1>2. SumFunctionOnSet(f, Campaigns) = f[k] + SumFunctionOnSet(f, Campaigns \ R)
  BY <1>1, FiniteAssumption, SumRemove
<1>3. SumFunctionOnSet(f, Campaigns \ R) \in Int /\ SumFunctionOnSet(f, Campaigns \ R) >= 0
  BY <1>1, FiniteAssumption, SumOfPart
<1> QED
  BY <1>1, <1>2, <1>3

(* Nor are two. *)
LEMMA TwoPartsOfWhole ==
    ASSUME TypeOK, NEW i \in Campaigns, NEW j \in Campaigns, i # j
    PROVE  Part(i) + Part(j) <= ActiveBudget
<1> DEFINE f == [k \in Campaigns |-> Part(k)]
           R == {i}
           S == Campaigns \ R
           Q == S \ {j}
<1>1. /\ \A k \in Campaigns : f[k] \in Int /\ f[k] >= 0
      /\ f[i] = Part(i) /\ f[j] = Part(j)
      /\ ActiveBudget = SumFunctionOnSet(f, Campaigns)
  BY PartType
<1>2. IsFiniteSet(S) /\ j \in S /\ S \subseteq Campaigns /\ Q \subseteq Campaigns
  BY FiniteAssumption, FS_Subset
<1> HIDE DEF f
<1>3. SumFunctionOnSet(f, Campaigns) = f[i] + SumFunctionOnSet(f, S)
  BY <1>1, FiniteAssumption, SumRemove
<1> HIDE DEF S
<1>4. SumFunctionOnSet(f, S) = f[j] + SumFunctionOnSet(f, Q)
  BY <1>1, <1>2, SumRemove
<1> HIDE DEF Q
<1>5. SumFunctionOnSet(f, Q) \in Int /\ SumFunctionOnSet(f, Q) >= 0
  BY <1>1, <1>2, FiniteAssumption, SumOfPart
<1> QED
  BY <1>1, <1>3, <1>4, <1>5

(* The whole changes by what one campaign's part does. *)
LEMMA OnePartChanges ==
    ASSUME TypeOK, TypeOK', NEW k \in Campaigns,
           \A j \in Campaigns \ {k} : Part(j)' = Part(j)
    PROVE  ActiveBudget' = ActiveBudget - Part(k) + Part(k)'
<1> DEFINE f == [j \in Campaigns |-> Part(j)]
           g == [j \in Campaigns |-> Part(j)']
<1>1. /\ \A j \in Campaigns : f[j] \in Int /\ g[j] \in Int
      /\ \A j \in Campaigns \ {k} : f[j] = g[j]
      /\ f[k] = Part(k) /\ g[k] = Part(k)'
  BY PartType DEF Part, TypeOK, CampaignRows
<1>2. ActiveBudget = SumFunctionOnSet(f, Campaigns)
  BY DEF ActiveBudget, Part
<1>3. ActiveBudget' = SumFunctionOnSet(g, Campaigns)
  BY DEF ActiveBudget, Part
<1> HIDE DEF f, g
<1>4. SumFunctionOnSet(g, Campaigns) = SumFunctionOnSet(f, Campaigns) - f[k] + g[k]
  BY <1>1, FiniteAssumption, SumChange
<1> QED
  BY <1>1, <1>2, <1>3, <1>4

(* A move changes two parts. *)
LEMMA TwoPartsChange ==
    ASSUME TypeOK, TypeOK', NEW i \in Campaigns, NEW j \in Campaigns, i # j,
           \A k \in Campaigns \ {i, j} : Part(k)' = Part(k)
    PROVE  ActiveBudget' = ActiveBudget - Part(i) - Part(j) + Part(i)' + Part(j)'
<1> DEFINE f == [k \in Campaigns |-> Part(k)]
           h == [k \in Campaigns |-> IF k = i THEN Part(k)' ELSE Part(k)]
           g == [k \in Campaigns |-> Part(k)']
<1>1. /\ \A k \in Campaigns : f[k] \in Int /\ g[k] \in Int /\ h[k] \in Int
      /\ \A k \in Campaigns \ {i} : f[k] = h[k]
      /\ \A k \in Campaigns \ {j} : h[k] = g[k]
      /\ f[i] = Part(i) /\ h[i] = Part(i)' /\ h[j] = Part(j) /\ g[j] = Part(j)'
  BY PartType DEF Part, TypeOK, CampaignRows
<1>2. ActiveBudget = SumFunctionOnSet(f, Campaigns)
  BY DEF ActiveBudget, Part
<1>3. ActiveBudget' = SumFunctionOnSet(g, Campaigns)
  BY DEF ActiveBudget, Part
<1> HIDE DEF f, g, h
<1>4. SumFunctionOnSet(h, Campaigns) = SumFunctionOnSet(f, Campaigns) - f[i] + h[i]
  BY <1>1, FiniteAssumption, SumChange
<1>5. SumFunctionOnSet(g, Campaigns) = SumFunctionOnSet(h, Campaigns) - h[j] + g[j]
  BY <1>1, FiniteAssumption, SumChange
<1>6. SumFunctionOnSet(f, Campaigns) \in Int
  BY <1>1, FiniteAssumption, SumType
<1> QED
  BY <1>1, <1>2, <1>3, <1>4, <1>5, <1>6

(* Same parts, same whole. *)
LEMMA SameParts ==
    ASSUME TypeOK, TypeOK', \A k \in Campaigns : Part(k)' = Part(k)
    PROVE  ActiveBudget' = ActiveBudget
<1> DEFINE f == [k \in Campaigns |-> Part(k)]
           g == [k \in Campaigns |-> Part(k)']
<1>1. f = g
  OBVIOUS
<1>2. ActiveBudget = SumFunctionOnSet(f, Campaigns)
  BY DEF ActiveBudget, Part
<1>3. ActiveBudget' = SumFunctionOnSet(g, Campaigns)
  BY DEF ActiveBudget, Part
<1> QED
  BY <1>1, <1>2, <1>3
(* What no step undoes: a campaign stays created, an ended one ended, and   *)
(* what it has paid for paid.                                               *)
LEMMA CampaignsGrow ==
    ASSUME TypeInv, RequestsMakeSense, [Next]_vars, NEW k \in Campaigns
    PROVE  /\ campaign[k].status # "none" => /\ campaign'[k].status # "none"
                                             /\ campaign'[k].spent >= campaign[k].spent
           /\ campaign[k].status = "ended" => campaign'[k].status = "ended"
<1> DEFINE Grown == /\ campaign[k].status # "none" =>
                           /\ campaign'[k].status # "none"
                           /\ campaign'[k].spent >= campaign[k].spent
                    /\ campaign[k].status = "ended" => campaign'[k].status = "ended"
<1>0. TypeOK /\ campaign[k] \in CampaignRows /\ campaign[k].spent \in Nat
  BY DEF TypeInv, TypeOK, CampaignRows
<1>1. ASSUME UNCHANGED campaign
      PROVE  Grown
  BY <1>0, <1>1
<1>2. ASSUME NEW e \in sent, ApplyEvent(e)
      PROVE  Grown
  BY <1>0, <1>2 DEF ApplyEvent, StopIfUnderfunded, CampaignRows
<1>3. ASSUME NEW c \in Calls, CommitTransition(c)
      PROVE  Grown
  <2> DEFINE x == call[c]
  <2>1. x.campaign \in Campaigns /\ x.next \in {"active", "paused", "ended"}
    BY <1>0, <1>3, CallShape DEF CommitTransition, RequestsMakeSense
  <2>2. CASE ~ MayCommit(x)
    BY <1>0, <1>3, <2>2 DEF CommitTransition
  <2>3. CASE MayCommit(x)
    <3>1. /\ campaign' = [campaign EXCEPT ![x.campaign] =
                             [campaign[x.campaign] EXCEPT !.status = x.next]]
          /\ campaign[x.campaign].status \notin {"none", "ended"}
      BY <1>3, <2>3 DEF CommitTransition, MayCommit
    <3>2. CASE k = x.campaign
      BY <1>0, <2>1, <3>1, <3>2 DEF CampaignRows, TypeOK
    <3>3. CASE k # x.campaign
      BY <1>0, <2>1, <3>1, <3>3 DEF TypeOK
    <3> QED
      BY <3>2, <3>3
  <2> QED
    BY <2>2, <2>3
<1>4. ASSUME NEW c \in Calls, CommitMove(c)
      PROVE  Grown
  <2>1. CASE ~ MayMove(call[c])
    BY <1>0, <1>4, <2>1 DEF CommitMove
  <2>2. CASE MayMove(call[c])
    BY <1>0, <1>4, <2>2, MovedRows
  <2> QED
    BY <2>1, <2>2
<1>5. ASSUME NEW c \in Calls, RecordServe(c)
      PROVE  Grown
  BY <1>0, <1>5, CallShape DEF RecordServe, TypeOK, CampaignRows
<1>6. ASSUME NEW j \in Campaigns, SettleReceipt(j) \/ ExpireServe(j)
      PROVE  Grown
  BY <1>0, <1>6 DEF SettleReceipt, ExpireServe, TypeOK, CampaignRows
<1>7. ASSUME NEW j \in Campaigns, NEW b \in Budgets, CreateCampaign(j, b)
      PROVE  Grown
  BY <1>0, <1>7 DEF CreateCampaign, TypeOK
<1> HIDE DEF Grown
<1>8. ASSUME NoWriteBack
      PROVE  Grown
  BY <1>1, <1>2, <1>3, <1>4, <1>5, <1>6, <1>7, <1>8, StepsOfCampaigns
<1>9. ASSUME ~ NoWriteBack
      PROVE  Grown
  BY <1>1, <1>9 DEF NoWriteBack, PutAdvertiser
<1> QED
  BY <1>8, <1>9 DEF Grown

(* How a request comes to be about a campaign. *)
AsksAbout(c) ==
    \/ \E k \in Campaigns, n \in {"active", "paused", "ended"} : ReadCampaign(c, k, n)
    \/ ReadSpend(c)
    \/ \E i, j \in Campaigns, m \in Moves : ReadForMove(c, i, j, m)
    \/ \E k \in Campaigns : ReadForServe(c, k)

(* Only those four reads give a request a campaign. *)
LEMMA StepsOfRequests ==
    ASSUME TypeInv, [Next]_vars, NEW c \in Calls,
           call'[c].op \in {"spend", "commit", "move", "serve"}
    PROVE  call'[c] = call[c] \/ AsksAbout(c)
<1>0. TypeOK
  BY DEF TypeInv
<1>1. ASSUME NEW d \in Calls \cup Admins, NEW x,
             x.op \notin {"spend", "commit", "move", "serve"}, Goto(d, x)
      PROVE  call'[c] = call[c]
  BY <1>0, <1>1 DEF Goto, TypeOK
<1>2. ASSUME NEW d \in Calls, Portal(d)
      PROVE  call'[c] = call[c] \/ AsksAbout(c)
  <2>1. ASSUME NEW o \in Orders, NEW m \in Prices, BeginCheckout(d, o, m)
        PROVE  call'[c] = call[c]
    BY <1>1, <2>1 DEF BeginCheckout
  <2>2. ASSUME FinishCheckout(d) \/ CommitTransition(d) \/ CommitMove(d) \/ RecordServe(d)
        PROVE  call'[c] = call[c]
    BY <1>1, <2>2 DEF FinishCheckout, CommitTransition, CommitMove, RecordServe, Idle
  <2>3. ASSUME AsksAbout(d)
        PROVE  d = c \/ call'[c] = call[c]
    BY <1>0, <2>3 DEF AsksAbout, ReadCampaign, ReadSpend, ReadForMove, ReadForServe,
       Goto, TypeOK
  <2> QED
    BY <1>2, <2>1, <2>2, <2>3 DEF Portal, AsksAbout
<1>3. ASSUME Provider \/ Webhook
      PROVE  call'[c] = call[c]
  BY <1>3 DEF Provider, Pay, IssueRefund, OpenDispute, ResolveDispute,
              Webhook, ApplyEvent, QuarantinePurchase, IgnoreEvent
<1>4. ASSUME NEW d \in Admins,
             PutAdvertiser(d) \/ \E s \in {"active", "suspended"} : ReadForStanding(d, s)
      PROVE  call'[c] = call[c]
  BY <1>1, <1>4 DEF PutAdvertiser, ReadForStanding, Idle
<1>5. ASSUME NEW d \in Calls \cup Admins, Crash(d)
      PROVE  call'[c] = call[c]
  BY <1>1, <1>5 DEF Crash, Idle
<1>6. ASSUME NEW k \in Campaigns,
             \/ \E b \in Budgets : CreateCampaign(k, b)
             \/ SettleReceipt(k) \/ ExpireServe(k)
      PROVE  call'[c] = call[c]
  BY <1>6 DEF CreateCampaign, SettleReceipt, ExpireServe
<1>7. ASSUME UNCHANGED vars
      PROVE  call'[c] = call[c]
  BY <1>7 DEF vars
<1> QED
  BY <1>2, <1>3, <1>4, <1>5, <1>6, <1>7 DEF Next

(* The campaigns a request is about. *)
About(x) ==
    CASE x.op \in {"spend", "commit", "serve"} -> {x.campaign}
      [] x.op = "move" -> {x.from, x.to}
      [] OTHER -> {}

(* Every step keeps the requests sensible. *)
LEMMA RequestsStep ==
    ASSUME TypeInv, RequestsMakeSense, [Next]_vars
    PROVE  RequestsMakeSense'
<1>0. TypeOK /\ TypeOK'
  BY TypeStep DEF TypeInv
<1>1. SUFFICES ASSUME NEW c \in Calls,
                      call'[c].op \in {"spend", "commit", "move", "serve"}
               PROVE  /\ call'[c].op \in {"spend", "commit"} =>
                            call'[c].next \in {"active", "paused", "ended"}
                      /\ \A k \in About(call'[c]) : campaign'[k].status # "none"
                      /\ call'[c].op = "commit" =>
                            call'[c].spent <= campaign'[call'[c].campaign].spent
  BY DEF RequestsMakeSense, About
<1>2. CASE call'[c] = call[c]
  <2> DEFINE x == call[c]
  <2>1. /\ x.op \in {"spend", "commit"} => x.next \in {"active", "paused", "ended"}
        /\ \A k \in About(x) : k \in Campaigns /\ campaign[k].status # "none"
        /\ x.op = "commit" => /\ x.campaign \in About(x)
                              /\ x.spent <= campaign[x.campaign].spent
                              /\ x.spent \in Nat
    BY <1>0, <1>1, <1>2, CallShape DEF RequestsMakeSense, About
  <2>2. \A k \in About(x) : /\ campaign'[k].status # "none"
                            /\ campaign'[k].spent >= campaign[k].spent
                            /\ campaign[k].spent \in Nat /\ campaign'[k].spent \in Nat
    BY <1>0, <2>1, CampaignsGrow DEF TypeOK, CampaignRows
  <2> HIDE DEF x
  <2>3. x.op = "commit" => x.spent <= campaign'[x.campaign].spent
    BY <2>1, <2>2
  <2> QED
    BY <1>2, <2>1, <2>2, <2>3 DEF x
<1>3. ASSUME NEW k \in Campaigns, NEW n \in {"active", "paused", "ended"},
             ReadCampaign(c, k, n)
      PROVE  /\ call'[c].next \in {"active", "paused", "ended"}
             /\ \A j \in About(call'[c]) : campaign'[j].status # "none"
             /\ call'[c].op # "commit"
  BY <1>0, <1>3 DEF ReadCampaign, Goto, TypeOK, About
<1>4. CASE ReadSpend(c)
  <2>1. PICK k \in Campaigns : k = call[c].campaign
    BY <1>0, <1>4, CallShape DEF ReadSpend
  <2>2. /\ call'[c] = [op |-> "commit", campaign |-> k, next |-> call[c].next,
                       spent |-> campaign[k].spent]
        /\ campaign' = campaign
    BY <1>0, <1>4, <2>1 DEF ReadSpend, Goto, TypeOK
  <2>3. call[c].next \in {"active", "paused", "ended"} /\ campaign[k].status # "none"
    BY <1>4, <2>1 DEF ReadSpend, RequestsMakeSense
  <2>4. campaign[k].spent \in Nat
    BY <1>0 DEF TypeOK, CampaignRows
  <2> QED
    BY <2>2, <2>3, <2>4 DEF About
<1>5. ASSUME NEW i \in Campaigns, NEW j \in Campaigns, NEW m \in Moves,
             ReadForMove(c, i, j, m)
      PROVE  /\ call'[c].op = "move"
             /\ \A k \in About(call'[c]) : campaign'[k].status # "none"
  BY <1>0, <1>5 DEF ReadForMove, Goto, TypeOK, About
<1>6. ASSUME NEW k \in Campaigns, ReadForServe(c, k)
      PROVE  /\ call'[c].op = "serve"
             /\ \A j \in About(call'[c]) : campaign'[j].status # "none"
  BY <1>0, <1>6 DEF ReadForServe, Goto, TypeOK, About
<1> QED
  BY <1>1, <1>2, <1>3, <1>4, <1>5, <1>6, StepsOfRequests DEF AsksAbout

(* Nothing is spent or served of a campaign before it is created. *)
LEMMA UnbornStep ==
    ASSUME TypeInv, RequestsMakeSense, Unborn, [Next]_vars
    PROVE  Unborn'
<1>0. TypeOK
  BY DEF TypeInv
<1>1. SUFFICES ASSUME NEW k \in Campaigns, campaign'[k].status = "none"
               PROVE  campaign'[k] = campaign[k]
  <2>1. \A k \in Campaigns : campaign'[k].status = "none" => campaign[k].status = "none"
    BY CampaignsGrow
  <2> QED
    BY <2>1 DEF Unborn
<1>2. campaign[k] = NoCampaign /\ campaign[k].status = "none" /\ ~ campaign[k].served
  BY <1>1, CampaignsGrow DEF Unborn, NoCampaign
<1>3. ASSUME NEW e \in sent, ApplyEvent(e)
      PROVE  campaign'[k] = campaign[k]
  BY <1>2, <1>3 DEF ApplyEvent, StopIfUnderfunded
<1>4. ASSUME NEW c \in Calls, CommitTransition(c)
      PROVE  campaign'[k] = campaign[k]
  BY <1>0, <1>2, <1>4 DEF CommitTransition, MayCommit, TypeOK
<1>5. ASSUME NEW c \in Calls, CommitMove(c)
      PROVE  campaign'[k] = campaign[k]
  <2>1. CASE ~ MayMove(call[c])
    BY <1>5, <2>1 DEF CommitMove
  <2>2. CASE MayMove(call[c])
    <3>1. k \notin {call[c].from, call[c].to}
      BY <1>2, <1>5 DEF CommitMove, RequestsMakeSense
    <3> QED
      BY <1>5, <2>2, <3>1, MovedRows
  <2> QED
    BY <2>1, <2>2
<1>6. ASSUME NEW c \in Calls, RecordServe(c)
      PROVE  campaign'[k] = campaign[k]
  <2>1. k # call[c].campaign
    BY <1>2, <1>6 DEF RecordServe, RequestsMakeSense
  <2> QED
    BY <1>0, <1>6, <2>1 DEF RecordServe, TypeOK
<1>7. ASSUME NEW j \in Campaigns,
             \/ \E b \in Budgets : CreateCampaign(j, b)
             \/ SettleReceipt(j) \/ ExpireServe(j)
      PROVE  campaign'[k] = campaign[k]
  BY <1>0, <1>1, <1>2, <1>7 DEF CreateCampaign, SettleReceipt, ExpireServe, TypeOK,
     NoCampaign
<1>8. ASSUME NoWriteBack
      PROVE  campaign'[k] = campaign[k]
  BY <1>3, <1>4, <1>5, <1>6, <1>7, <1>8, StepsOfCampaigns
<1>9. ASSUME ~ NoWriteBack
      PROVE  campaign'[k] = campaign[k]
  BY <1>9 DEF NoWriteBack, PutAdvertiser
<1> QED
  BY <1>8, <1>9

(* A step that leaves statuses, budgets and the reservation alone, and     *)
(* undoes no spend.                                                         *)
LEMMA HeldUndisturbed ==
    ASSUME HeldInv, TypeInv', RequestsMakeSense', Unborn', UNCHANGED <<reserved, standing>>,
           \A k \in Campaigns : /\ campaign'[k].status = campaign[k].status
                                /\ campaign'[k].budget = campaign[k].budget
                                /\ campaign'[k].spent = 0 => campaign[k].spent = 0
    PROVE  HeldInv'
<1>1. TypeOK /\ TypeOK'
  BY DEF HeldInv, TypeInv
<1>2. ActiveBudget' = ActiveBudget
  <2>1. \A k \in Campaigns : Part(k)' = Part(k)
    <3> SUFFICES ASSUME NEW k \in Campaigns PROVE Part(k)' = Part(k)
      OBVIOUS
    <3>1. campaign'[k].status = campaign[k].status /\ campaign'[k].budget = campaign[k].budget
      OBVIOUS
    <3> QED
      BY <3>1 DEF Part
  <2> QED
    BY <1>1, <2>1, SameParts
<1>3. HeldIsActiveBudget'
  <2>1. SUFFICES ASSUME \A k \in Campaigns : campaign'[k].spent = 0, standing' = "active"
                 PROVE  /\ reserved' <= ActiveBudget'
                        /\ (\A k \in Campaigns : campaign'[k].status # "ended")
                              => reserved' = ActiveBudget'
    BY DEF HeldIsActiveBudget
  <2>2. (\A k \in Campaigns : campaign[k].spent = 0) /\ standing = "active"
    BY <2>1
  <2>3. /\ reserved <= ActiveBudget
        /\ (\A k \in Campaigns : campaign[k].status # "ended") => reserved = ActiveBudget
    BY <2>2 DEF HeldInv, HeldIsActiveBudget
  <2>4. reserved' = reserved
    OBVIOUS
  <2>5. ASSUME \A k \in Campaigns : campaign'[k].status # "ended"
        PROVE  \A k \in Campaigns : campaign[k].status # "ended"
    BY <2>5
  <2> QED
    BY <1>2, <2>3, <2>4, <2>5
<1> QED
  BY <1>3 DEF HeldInv

(* When nothing was paid for, a transition commits the campaign's budget.   *)
LEMMA HeldAfterCommit ==
    ASSUME HeldInv, TypeInv', RequestsMakeSense', Unborn', NEW c \in Calls, CommitTransition(c)
    PROVE  HeldInv'
<1> DEFINE x == call[c]
<1>0. /\ TypeOK /\ TypeOK' /\ reserved \in Int /\ reserved >= 0 /\ reserved' \in Int
      /\ standing' = standing
  BY DEF HeldInv, TypeInv, TypeOK, CommitTransition
<1>1. PICK k \in Campaigns : k = x.campaign
  BY <1>0, RemainingType DEF CommitTransition
<1>2. /\ x.next \in {"active", "paused", "ended"}
      /\ x.spent \in Nat /\ x.spent <= campaign[k].spent
      /\ Remaining(x) \in Nat
  BY <1>0, <1>1, CallShape, RemainingType DEF CommitTransition, HeldInv, RequestsMakeSense
<1>3. CASE ~ MayCommit(x)
  BY <1>0, <1>3, HeldUndisturbed DEF CommitTransition
<1>4. CASE MayCommit(x)
  <2>1. /\ reserved' = IF x.next = "active" THEN reserved + Remaining(x)
                       ELSE AtLeastZero(reserved - Remaining(x))
        /\ campaign' = [campaign EXCEPT ![k] = [campaign[k] EXCEPT !.status = x.next]]
        /\ campaign[k].status \notin {"none", "ended", x.next}
    BY <1>1, <1>4 DEF CommitTransition, MayCommit
  <2>2. reserved' >= 0
    BY <1>0, <1>1, <1>2, <2>1 DEF AtLeastZero
  <2>3. /\ campaign'[k].status = x.next /\ campaign'[k].budget = campaign[k].budget
        /\ campaign'[k].spent = campaign[k].spent
        /\ \A j \in Campaigns \ {k} : campaign'[j] = campaign[j]
    <3>1. campaign[k] \in CampaignRows
      BY <1>0, <1>1, <1>2 DEF TypeOK
    <3> QED
      BY <1>0, <1>1, <1>2, <2>1, <3>1 DEF CampaignRows, TypeOK
  <2>4. ActiveBudget' = ActiveBudget - Part(k) + Part(k)'
    <3>1. \A j \in Campaigns \ {k} : Part(j)' = Part(j)
      BY <2>3 DEF Part
    <3> QED
      BY <1>0, <3>1, OnePartChanges
  <2>5. /\ ActiveBudget \in Int /\ Part(k) \in Int /\ Part(k) >= 0 /\ Part(k) <= ActiveBudget
        /\ campaign[k].budget \in Nat /\ campaign[k].spent \in Nat
        /\ campaign[k].status \in CampaignStatuses
    BY <1>0, <1>1, <1>2, PartType, PartOfWhole DEF TypeOK, CampaignRows
  <2>6. SUFFICES ASSUME \A j \in Campaigns : campaign'[j].spent = 0, standing' = "active"
                 PROVE  /\ reserved' <= ActiveBudget'
                        /\ (\A j \in Campaigns : campaign'[j].status # "ended")
                              => reserved' = ActiveBudget'
    BY <2>2 DEF HeldInv, HeldIsActiveBudget
  <2>7. \A j \in Campaigns : campaign[j].spent = 0
    BY <1>1, <1>2, <2>3, <2>6
  <2>8. Remaining(x) = campaign[k].budget
    <3>1. x.spent = 0
      BY <1>1, <1>2, <2>5, <2>7
    <3> QED
      BY <1>1, <2>5, <3>1 DEF Remaining, AtLeastZero
  <2>9. /\ reserved <= ActiveBudget
        /\ (\A j \in Campaigns : campaign[j].status # "ended") => reserved = ActiveBudget
    BY <1>0, <2>6, <2>7 DEF HeldInv, HeldIsActiveBudget
  <2>10. CASE x.next = "active"
    <3>1. Part(k) = 0 /\ Part(k)' = campaign[k].budget
      BY <2>1, <2>3, <2>10 DEF Part
    <3>2. (\A j \in Campaigns : campaign'[j].status # "ended") =>
             \A j \in Campaigns : campaign[j].status # "ended"
      BY <1>1, <1>2, <2>1, <2>3
    <3> QED
      BY <1>0, <1>1, <1>2, <2>1, <2>4, <2>5, <2>8, <2>9, <2>10, <3>1, <3>2
  <2>11. CASE x.next = "paused"
    <3>1. Part(k) = campaign[k].budget /\ Part(k)' = 0
      BY <2>1, <2>3, <2>5, <2>11 DEF Part, CampaignStatuses
    <3>2. (\A j \in Campaigns : campaign'[j].status # "ended") =>
             \A j \in Campaigns : campaign[j].status # "ended"
      BY <1>1, <1>2, <2>1, <2>3
    <3> QED
      BY <1>0, <1>1, <1>2, <2>1, <2>4, <2>5, <2>8, <2>9, <2>11, <3>1, <3>2 DEF AtLeastZero
  <2>12. CASE x.next = "ended"
    <3>1. Part(k) \in {0, campaign[k].budget} /\ Part(k)' = 0
      BY <2>3, <2>12 DEF Part
    <3>2. campaign'[k].status = "ended"
      BY <2>3, <2>12
    <3> QED
      BY <1>0, <1>1, <1>2, <2>1, <2>4, <2>5, <2>8, <2>9, <2>12, <3>1, <3>2 DEF AtLeastZero
  <2> QED
    BY <1>1, <1>2, <2>10, <2>11, <2>12
<1> QED
  BY <1>3, <1>4

(* A move takes the reservation where it takes the budgets. *)
LEMMA HeldAfterMove ==
    ASSUME HeldInv, TypeInv', RequestsMakeSense', Unborn', NEW c \in Calls, CommitMove(c)
    PROVE  HeldInv'
<1> DEFINE x == call[c]
<1>0. /\ TypeOK /\ TypeOK' /\ reserved \in Int /\ reserved >= 0 /\ reserved' \in Int
      /\ standing' = standing
  BY DEF HeldInv, TypeInv, TypeOK, CommitMove
<1>1. PICK i \in Campaigns, j \in Campaigns :
         i = x.from /\ j = x.to /\ i # j /\ x.micros \in Nat
  BY <1>0, CallShape DEF CommitMove, HeldInv, TypeInv, MovesBetweenTwo
<1>2. CASE ~ MayMove(x)
  BY <1>0, <1>2, HeldUndisturbed DEF CommitMove
<1>3. CASE MayMove(x)
  <2>1. reserved' = AtLeastZero(reserved + HeldBy(x))
    BY <1>3 DEF CommitMove
  <2>2. /\ \A k \in Campaigns : /\ campaign'[k].status = campaign[k].status
                                /\ campaign'[k].spent = campaign[k].spent
        /\ campaign'[i].budget = campaign[i].budget - x.micros
        /\ campaign'[j].budget = campaign[j].budget + x.micros
        /\ \A k \in Campaigns \ {i, j} : campaign'[k] = campaign[k]
    BY <1>1, <1>3, MovedRows DEF HeldInv
  <2>3. ActiveBudget' = ActiveBudget - Part(i) - Part(j) + Part(i)' + Part(j)'
    <3>1. \A k \in Campaigns \ {i, j} : Part(k)' = Part(k)
      BY <2>2 DEF Part
    <3> QED
      BY <1>0, <1>1, <3>1, TwoPartsChange
  <2>4. /\ campaign[i].budget \in Nat /\ campaign[j].budget \in Nat
        /\ HeldBy(x) \in Int
    BY <1>0, <1>1 DEF TypeOK, CampaignRows, HeldBy
  <2>5. - Part(i) - Part(j) + Part(i)' + Part(j)' = HeldBy(x)
    <3>1. Part(i)' - Part(i) = IF campaign[i].status = "active" THEN - x.micros ELSE 0
      BY <1>1, <2>2, <2>4 DEF Part
    <3>2. Part(j)' - Part(j) = IF campaign[j].status = "active" THEN x.micros ELSE 0
      BY <1>1, <2>2, <2>4 DEF Part
    <3>3. Part(i) \in Int /\ Part(j) \in Int /\ Part(i)' \in Int /\ Part(j)' \in Int
      BY <1>0, <1>1 DEF Part, TypeOK, CampaignRows
    <3>4. HeldBy(x) = (IF campaign[j].status = "active" THEN x.micros ELSE 0)
                      - (IF campaign[i].status = "active" THEN x.micros ELSE 0)
      BY <1>1 DEF HeldBy
    <3> QED
      BY <1>1, <3>1, <3>2, <3>3, <3>4
  <2>6. ActiveBudget \in Int /\ ActiveBudget' \in Int /\ ActiveBudget' >= 0
    <3>1. /\ Part(i) \in Int /\ Part(j) \in Int /\ Part(i) >= 0 /\ Part(j) >= 0
          /\ ActiveBudget \in Int
      BY <1>0, <1>1, PartType
    <3>2. Part(i)' \in Int /\ Part(j)' \in Int /\ Part(i)' >= 0 /\ Part(j)' >= 0
      BY <1>0, <1>1 DEF Part, TypeOK, CampaignRows
    <3>3. Part(i) + Part(j) <= ActiveBudget
      BY <1>0, <1>1, TwoPartsOfWhole
    <3> QED
      BY <2>3, <3>1, <3>2, <3>3
  <2>7. ActiveBudget' = ActiveBudget + HeldBy(x)
    <3>1. /\ Part(i) \in Int /\ Part(j) \in Int /\ Part(i)' \in Int /\ Part(j)' \in Int
      BY <1>0, <1>1 DEF Part, TypeOK, CampaignRows
    <3> QED
      BY <2>3, <2>4, <2>5, <2>6, <3>1
  <2>8. /\ reserved' >= 0
        /\ reserved <= ActiveBudget => reserved' <= ActiveBudget'
        /\ reserved = ActiveBudget => reserved' = ActiveBudget'
    BY <1>0, <2>1, <2>4, <2>6, <2>7 DEF AtLeastZero
  <2>9. HeldIsActiveBudget'
    BY <1>0, <2>2, <2>8 DEF HeldInv, HeldIsActiveBudget
  <2> QED
    BY <2>8, <2>9 DEF HeldInv
<1> QED
  BY <1>2, <1>3
(* A webhook that stops the campaigns stops the advertiser. *)
LEMMA HeldAfterEvent ==
    ASSUME HeldInv, TypeInv', RequestsMakeSense', Unborn', NEW e \in sent, ApplyEvent(e)
    PROVE  HeldInv'
<1>1. StopIfUnderfunded(funded') /\ reserved' = reserved
  BY DEF ApplyEvent
<1>2. CASE funded' < reserved
  <2>1. standing' = "suspended"
    BY <1>1, <1>2 DEF StopIfUnderfunded
  <2> QED
    BY <1>1, <2>1 DEF HeldInv, HeldIsActiveBudget
<1>3. CASE ~ funded' < reserved
  <2>1. standing' = standing /\ \A k \in Campaigns : campaign'[k] = campaign[k]
    BY <1>1, <1>3 DEF StopIfUnderfunded
  <2> QED
    BY <1>1, <2>1, HeldUndisturbed
<1> QED
  BY <1>2, <1>3

(* Every step but a write-back keeps the reservation right. *)
LEMMA HeldStep ==
    ASSUME HeldInv, [Next]_vars, NoWriteBack
    PROVE  HeldInv'
<1>0. TypeOK /\ TypeInv' /\ RequestsMakeSense' /\ Unborn'
  BY TypeStep, RequestsStep, UnbornStep DEF HeldInv, TypeInv
<1>1. CASE UNCHANGED <<money, campaign>>
  BY <1>0, <1>1, HeldUndisturbed DEF money
<1>2. ASSUME NEW c \in Calls, RecordServe(c)
      PROVE  HeldInv'
  <2>1. /\ UNCHANGED money
        /\ \A k \in Campaigns : /\ campaign'[k].status = campaign[k].status
                                /\ campaign'[k].budget = campaign[k].budget
                                /\ campaign'[k].spent = campaign[k].spent
    BY <1>0, <1>2, CallShape DEF RecordServe, TypeOK, CampaignRows
  <2> QED
    BY <1>0, <2>1, HeldUndisturbed DEF money
<1>3. ASSUME NEW j \in Campaigns, SettleReceipt(j) \/ ExpireServe(j)
      PROVE  HeldInv'
  <2>1. /\ UNCHANGED money
        /\ \A k \in Campaigns : /\ campaign'[k].status = campaign[k].status
                                /\ campaign'[k].budget = campaign[k].budget
                                /\ campaign'[k].spent \in {campaign[k].spent,
                                                           campaign[k].spent + 1}
                                /\ campaign[k].spent \in Nat
    BY <1>0, <1>3 DEF SettleReceipt, ExpireServe, TypeOK, CampaignRows
  <2> QED
    BY <1>0, <2>1, HeldUndisturbed DEF money
<1>4. ASSUME NEW j \in Campaigns, NEW b \in Budgets, CreateCampaign(j, b)
      PROVE  HeldInv'
  <2>1. /\ campaign'[j].status = "paused" /\ campaign[j].status = "none"
        /\ \A k \in Campaigns \ {j} : campaign'[k] = campaign[k]
        /\ UNCHANGED money
    BY <1>0, <1>4 DEF CreateCampaign, TypeOK, NoCampaign
  <2>2. TypeOK'
    BY <1>0 DEF TypeInv
  <2>3. ActiveBudget' = ActiveBudget
    <3>1. \A k \in Campaigns : Part(k)' = Part(k)
      BY <2>1 DEF Part
    <3> QED
      BY <1>0, <2>2, <3>1, SameParts
  <2>4. HeldIsActiveBudget'
    <3>1. SUFFICES ASSUME \A k \in Campaigns : campaign'[k].spent = 0, standing' = "active"
                   PROVE  /\ reserved' <= ActiveBudget'
                          /\ (\A k \in Campaigns : campaign'[k].status # "ended")
                                => reserved' = ActiveBudget'
      BY DEF HeldIsActiveBudget
    <3>2. \A k \in Campaigns : campaign[k].spent = 0
      BY <2>1, <3>1 DEF HeldInv, Unborn, NoCampaign
    <3>3. /\ reserved <= ActiveBudget
          /\ (\A k \in Campaigns : campaign[k].status # "ended") => reserved = ActiveBudget
      BY <2>1, <3>1, <3>2 DEF HeldInv, HeldIsActiveBudget, money
    <3>4. (\A k \in Campaigns : campaign'[k].status # "ended") =>
             \A k \in Campaigns : campaign[k].status # "ended"
      BY <2>1
    <3> QED
      BY <2>1, <2>3, <3>3, <3>4 DEF money
  <2> QED
    BY <1>0, <2>1, <2>4 DEF HeldInv, money
<1> QED
  BY <1>0, <1>1, <1>2, <1>3, <1>4, HeldAfterEvent, HeldAfterCommit, HeldAfterMove,
     StepsOfCampaigns

(* Until an impression is paid for, the reservation is the active           *)
(* campaigns' budgets, through every race of activations, pauses and budget *)
(* moves, for any number of campaigns and of requests at once - as long as  *)
(* no administrator's decision lands.                                       *)
THEOREM ReservationIsActiveBudget ==
    Spec /\ [][NoWriteBack]_vars => []HeldIsActiveBudget
<1>1. Init => HeldInv
  <2> SUFFICES ASSUME Init PROVE HeldInv
    OBVIOUS
  <2>1. TypeInv /\ TypeOK
    BY TypeInit DEF Init, TypeInv, MovesBetweenTwo, Idle
  <2>2. ActiveBudget = 0
    <3> DEFINE f == [k \in Campaigns |-> Part(k)]
    <3>1. \A k \in Campaigns : f[k] = 0
      BY DEF Init, Part, NoCampaign
    <3>2. ActiveBudget = SumFunctionOnSet(f, Campaigns)
      BY DEF ActiveBudget, Part
    <3> HIDE DEF f
    <3> QED
      BY <3>1, <3>2, FiniteAssumption, SumZero
  <2> QED
    BY <2>1, <2>2 DEF Init, HeldInv, HeldIsActiveBudget, RequestsMakeSense, Unborn, Idle
<1>2. HeldInv /\ [Next]_vars /\ [NoWriteBack]_vars => HeldInv'
  <2>1. CASE UNCHANGED vars
    <3>1. ASSUME HeldInv
          PROVE  TypeInv' /\ RequestsMakeSense' /\ Unborn'
      BY <2>1, <3>1, TypeStep, RequestsStep, UnbornStep DEF HeldInv
    <3> QED
      BY <2>1, <3>1, HeldUndisturbed DEF vars
  <2> QED
    BY <2>1, HeldStep
<1>3. HeldInv => HeldIsActiveBudget
  BY DEF HeldInv
<1> QED
  BY <1>1, <1>2, <1>3, PTL DEF Spec
=============================================================================
