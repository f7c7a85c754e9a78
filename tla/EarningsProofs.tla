--------------------------- MODULE EarningsProofs ---------------------------
(***************************************************************************)
(* Theorems about what a view earns: first about Payouts, for any number   *)
(* of users, withdrawals, receipts and handlers running at once; then      *)
(* about ReceiptDelivery, for any receipts, flushes, cap and number of     *)
(* crashes.  A view is paid for at most once, and a running editor loses   *)
(* no receipt that the service has not decided on, the oldest of a full    *)
(* queue excepted; what is paid can be withdrawn once.  Last, about both   *)
(* at once: a view's earning is booked once, whatever else happens to the  *)
(* ledger.                                                                 *)
(***************************************************************************)
EXTENDS PayoutsRefine, Earnings, SumLemmas, SequenceTheorems, TLAPS

(* A row is owned from the moment it exists. *)
RowsHaveOwners == \A w \in Wids : status[w] # "none" => owner[w] \in Users

(* A handler that is about to decide read a status its decision accepts. *)
DecidersReadAccepted ==
    \A c \in Calls :
        call[c].op = "decide" => call[c].seen \in Accepts[call[c].decision]

(* What makes TypeOK inductive. *)
TypeInv == TypeOK /\ RowsHaveOwners /\ DecidersReadAccepted

-----------------------------------------------------------------------------
(* applyEntry keeps a balance a balance. *)
LEMMA ApplyEntryType ==
    ASSUME NEW b \in Balances, NEW e \in Entries
    PROVE  ApplyEntry(b, e) \in Balances
  BY DEF ApplyEntry, Balances, Entries

(* Appending an entry keeps the ledger and every balance well typed. *)
LEMMA AppendType ==
    ASSUME balance \in [Users -> Balances], entries \subseteq Entries,
           NEW e \in Entries, AppendEntry(e)
    PROVE  /\ balance' \in [Users -> Balances]
           /\ entries' \subseteq Entries
<1>1. e.uid \in Users
  BY DEF Entries
<1>2. ApplyEntry(balance[e.uid], e) \in Balances
  BY <1>1, ApplyEntryType
<1>3. balance' = [balance EXCEPT ![e.uid] = ApplyEntry(balance[e.uid], e)]
  BY DEF AppendEntry
<1> QED
  BY <1>1, <1>2, <1>3 DEF AppendEntry

(* What a call is when its op says so. *)
LEMMA CallShape ==
    ASSUME TypeOK, NEW c \in Calls
    PROVE  /\ call[c].op = "reserve" =>
                call[c].uid \in Users /\ call[c].micros \in Nat
           /\ call[c].op = "decide" =>
                /\ call[c].decision \in Decisions
                /\ call[c].wid \in Wids
                /\ call[c].seen \in Statuses
           /\ call[c].op = "adjust" =>
                call[c].uid \in Users /\ call[c].micros \in Int
           /\ call[c].op = "audit" => call[c].line \in AuditLines
<1> DEFINE x == call[c]
<1>1. x \in CallStates
  BY DEF TypeOK
<1>2. CASE x = Idle
  BY <1>2 DEF Idle
<1>3. CASE x \in [op : {"reserve"}, uid : Users, micros : Amounts]
  BY <1>3, AmountsAssumption
<1>4. CASE x \in [op : {"decide"}, decision : Decisions, wid : Wids, seen : Statuses]
  BY <1>4
<1>5. CASE x \in [op : {"adjust"}, uid : Users, micros : Corrections]
  BY <1>5, CorrectionsAssumption
<1>6. CASE x \in [op : {"audit"}, line : AuditLines]
  BY <1>6
<1> QED
  BY <1>1, <1>2, <1>3, <1>4, <1>5, <1>6 DEF CallStates

(* A transition the store lets through starts from a status the decision   *)
(* accepts, although the handler's copy of the row may be old.             *)
LEMMA AllowedIsAccepted ==
    ASSUME TypeInv, NEW c \in Calls, call[c].op = "decide",
           TransitionAllowed(call[c])
    PROVE  /\ status[call[c].wid] \in Accepts[call[c].decision]
           /\ status[call[c].wid] # "none"
           /\ owner[call[c].wid] \in Users
<1>1. /\ call[c].decision \in Decisions
      /\ call[c].wid \in Wids
      /\ call[c].seen \in Accepts[call[c].decision]
  BY CallShape DEF TypeInv, DecidersReadAccepted
<1>2. status[call[c].wid] \in Accepts[call[c].decision]
  BY <1>1 DEF TransitionAllowed, Expected
<1>3. status[call[c].wid] # "none"
  BY <1>1, <1>2 DEF Accepts, Decisions, InFlight
<1> QED
  BY <1>1, <1>2, <1>3 DEF TypeInv, RowsHaveOwners

(* The entry a decision writes is an entry. *)
LEMMA DecisionEntryType ==
    ASSUME TypeOK, NEW d \in Decisions, NEW w \in Wids, owner[w] \in Users
    PROVE  /\ DecisionEntry(d, w) \in Entries
           /\ DecisionEntry(d, w).uid = owner[w]
<1>1. amount[w] \in Int
  BY DEF TypeOK
<1> QED
  BY <1>1 DEF DecisionEntry, Entries, EntryIds, IdSuffixes, Chapters, Kinds, Decisions

-----------------------------------------------------------------------------
(* TypeInv is inductive. *)
LEMMA TypeInit == Init => TypeInv
  BY DEF Init, TypeInv, TypeOK, RowsHaveOwners, DecidersReadAccepted, Balances,
         EMPTY_BALANCE, Statuses, CallStates, Idle

LEMMA TypeStep ==
    ASSUME TypeInv, [Next]_vars
    PROVE  TypeInv'
<1> USE DEF TypeInv
<1>1. ASSUME NEW c \in Calls, NEW u \in Users, NEW m \in Amounts,
             ReadForRequest(c, u, m)
      PROVE  TypeInv'
  BY <1>1 DEF ReadForRequest, Goto, TypeOK, CallStates, Idle,
              RowsHaveOwners, DecidersReadAccepted
<1>2. ASSUME NEW c \in Calls, \/ RefuseReservation(c) \/ RefuseTransition(c) \/ Crash(c)
      PROVE  TypeInv'
  BY <1>2 DEF RefuseReservation, RefuseTransition, Crash, Goto, TypeOK, CallStates,
              Idle, RowsHaveOwners, DecidersReadAccepted
<1>3. ASSUME NEW c \in Calls, NEW w \in Wids, ReserveWithdrawal(c, w)
      PROVE  TypeInv'
  <2> DEFINE e == [id |-> <<w, "requested">>, uid |-> call[c].uid,
                   kind |-> "withdrawal_requested", micros |-> - call[c].micros]
  <2>1. call[c].uid \in Users /\ call[c].micros \in Nat
    BY <1>3, CallShape DEF ReserveWithdrawal
  <2>2. e \in Entries
    BY <2>1 DEF Entries, EntryIds, IdSuffixes, Chapters, Kinds
  <2>3. balance' \in [Users -> Balances] /\ entries' \subseteq Entries
    <3>1. AppendEntry(e)
      BY <1>3 DEF ReserveWithdrawal
    <3> HIDE DEF e
    <3> QED
      BY <2>2, <3>1, AppendType DEF TypeOK
  <2>4. /\ status' \in [Wids -> Statuses]
        /\ owner' \in [Wids -> Users \cup {NoUser}]
        /\ amount' \in [Wids -> Nat]
        /\ call' \in [Calls -> CallStates]
        /\ audit' \subseteq AuditLines
    BY <1>3, <2>1 DEF ReserveWithdrawal, Goto, TypeOK, CallStates, Statuses
  <2>5. RowsHaveOwners'
    BY <1>3, <2>1 DEF ReserveWithdrawal, TypeOK, RowsHaveOwners
  <2>6. DecidersReadAccepted'
    BY <1>3 DEF ReserveWithdrawal, Goto, TypeOK, DecidersReadAccepted, Idle
  <2> QED
    BY <2>3, <2>4, <2>5, <2>6 DEF TypeOK
<1>4. ASSUME NEW c \in Calls, NEW d \in Decisions, NEW w \in Wids,
             ReadForDecision(c, d, w)
      PROVE  TypeInv'
  BY <1>4 DEF ReadForDecision, Goto, TypeOK, CallStates, Idle,
              RowsHaveOwners, DecidersReadAccepted
<1>5. ASSUME NEW c \in Calls, TransitionWithdrawal(c)
      PROVE  TypeInv'
  <2> DEFINE d == call[c].decision
             w == call[c].wid
  <2>1. d \in Decisions /\ w \in Wids
    BY <1>5, CallShape DEF TransitionWithdrawal
  <2>2. owner[w] \in Users
    BY <1>5, AllowedIsAccepted DEF TransitionWithdrawal
  <2>3. balance' \in [Users -> Balances] /\ entries' \subseteq Entries
    <3>1. CASE d = "approve"
      BY <1>5, <3>1 DEF TransitionWithdrawal, TypeOK
    <3>2. CASE d # "approve"
      <4>1. AppendEntry(DecisionEntry(d, w))
        BY <1>5, <3>2 DEF TransitionWithdrawal
      <4> QED
        BY <2>1, <2>2, <4>1, DecisionEntryType, AppendType DEF TypeOK
    <3> QED
      BY <3>1, <3>2
  <2>4. /\ status' \in [Wids -> Statuses]
        /\ owner' \in [Wids -> Users \cup {NoUser}]
        /\ amount' \in [Wids -> Nat]
        /\ audit' \subseteq AuditLines
    BY <1>5, <2>1 DEF TransitionWithdrawal, TypeOK, Writes, Decisions, Statuses
  <2>5. /\ call' \in [Calls -> CallStates]
        /\ DecidersReadAccepted'
    <3> DEFINE next == IF d = "cancel" THEN Idle
                       ELSE [op |-> "audit", line |-> <<Writes[d], w>>]
    <3>1. next \in CallStates /\ next.op # "decide"
      BY <2>1 DEF CallStates, AuditLines, Idle
    <3>2. call' = [call EXCEPT ![c] = next]
      BY <1>5 DEF TransitionWithdrawal, Goto
    <3> HIDE DEF next
    <3> QED
      BY <3>1, <3>2 DEF TypeOK, DecidersReadAccepted
  <2>6. RowsHaveOwners'
    BY <1>5, <2>1, <2>2 DEF TransitionWithdrawal, TypeOK, RowsHaveOwners
  <2> QED
    BY <2>3, <2>4, <2>5, <2>6 DEF TypeOK
<1>6. ASSUME NEW c \in Calls, NEW u \in Users, NEW m \in Corrections,
             ReadForAdjustment(c, u, m)
      PROVE  TypeInv'
  BY <1>6 DEF ReadForAdjustment, Goto, TypeOK, CallStates, Idle,
              RowsHaveOwners, DecidersReadAccepted
<1>7. ASSUME NEW c \in Calls, NEW a \in AdjIds, AppendAdjustment(c, a)
      PROVE  TypeInv'
  <2> DEFINE e == [id |-> <<a, "adjusted">>, uid |-> call[c].uid,
                   kind |-> "adjustment", micros |-> call[c].micros]
             next == [op |-> "audit", line |-> <<"adjusted", call[c].uid>>]
  <2>1. call[c].uid \in Users /\ call[c].micros \in Int
    BY <1>7, CallShape DEF AppendAdjustment
  <2>2. e \in Entries
    BY <2>1 DEF Entries, EntryIds, IdSuffixes, Chapters, Kinds
  <2>3. balance' \in [Users -> Balances] /\ entries' \subseteq Entries
    <3>1. AppendEntry(e)
      BY <1>7 DEF AppendAdjustment
    <3> HIDE DEF e
    <3> QED
      BY <2>2, <3>1, AppendType DEF TypeOK
  <2>4. next \in CallStates /\ next.op # "decide"
    BY <2>1 DEF CallStates, AuditLines
  <2>5. call' = [call EXCEPT ![c] = next]
    BY <1>7 DEF AppendAdjustment, Goto
  <2> HIDE DEF next
  <2>6. call' \in [Calls -> CallStates] /\ DecidersReadAccepted'
    BY <2>4, <2>5 DEF TypeOK, DecidersReadAccepted
  <2>7. RowsHaveOwners'
    BY <1>7 DEF AppendAdjustment, RowsHaveOwners
  <2> QED
    BY <1>7, <2>3, <2>6, <2>7 DEF AppendAdjustment, TypeOK
<1>8. ASSUME NEW c \in Calls, WriteAudit(c)
      PROVE  TypeInv'
  <2>1. call[c].line \in AuditLines
    BY <1>8, CallShape DEF WriteAudit
  <2> QED
    BY <1>8, <2>1 DEF WriteAudit, Goto, TypeOK, CallStates, Idle,
                      RowsHaveOwners, DecidersReadAccepted
<1>9. ASSUME NEW u \in Users, NEW r \in Receipts, NEW m \in Credits,
             SettleReceipt(u, r, m)
      PROVE  TypeInv'
  <2> DEFINE e == [id |-> <<r, "earned">>, uid |-> u,
                   kind |-> "impression", micros |-> m]
  <2>1. e \in Entries
    BY CreditsAssumption DEF Entries, EntryIds, IdSuffixes, Chapters, Kinds
  <2>2. balance' \in [Users -> Balances] /\ entries' \subseteq Entries
    <3>1. AppendEntry(e)
      BY <1>9 DEF SettleReceipt
    <3> HIDE DEF e
    <3> QED
      BY <2>1, <3>1, AppendType DEF TypeOK
  <2> QED
    BY <1>9, <2>2 DEF SettleReceipt, TypeOK, RowsHaveOwners, DecidersReadAccepted
<1>10. CASE UNCHANGED vars
  BY <1>10 DEF vars, TypeOK, RowsHaveOwners, DecidersReadAccepted
<1> QED
  BY <1>1, <1>2, <1>3, <1>4, <1>5, <1>6, <1>7, <1>8, <1>9, <1>10
     DEF Next, Request, Decide, Adjust

(* Every reachable state is well typed.                                     *)
THEOREM TypeCorrect == Spec => []TypeOK
<1>1. Init => TypeInv
  BY TypeInit
<1>2. TypeInv /\ [Next]_vars => TypeInv'
  BY TypeStep
<1>3. TypeInv => TypeOK
  BY DEF TypeInv
<1> QED
  BY <1>1, <1>2, <1>3, PTL DEF Spec

-----------------------------------------------------------------------------
(* The hold.  HoldMatchesRequest is not inductive alone: that clearing one *)
(* request clears the whole hold needs that it was the only one.           *)

HoldInv == TypeInv /\ OneRequestInProgress /\ HoldMatchesRequest

(* How appending an entry moves the pending figure of each user. *)
LEMMA PendingAfterAppend ==
    ASSUME balance \in [Users -> Balances], NEW e \in Entries, AppendEntry(e),
           NEW u \in Users
    PROVE  balance'[u].pending =
             IF u # e.uid THEN balance[u].pending
             ELSE CASE e.kind \in {"withdrawal_requested", "withdrawal_failed"}
                         -> balance[u].pending - e.micros
                    [] e.kind = "withdrawal_paid" -> balance[u].pending + e.micros
                    [] OTHER -> balance[u].pending
  BY DEF AppendEntry, ApplyEntry, Entries

(* A step that changes no request and no pending figure keeps the hold right. *)
LEMMA HoldUndisturbed ==
    ASSUME HoldInv, UNCHANGED <<status, owner, amount>>,
           \A u \in Users : balance'[u].pending = balance[u].pending
    PROVE  OneRequestInProgress' /\ HoldMatchesRequest'
  BY DEF HoldInv, OneRequestInProgress, HoldMatchesRequest, HasRequestInProgress

LEMMA HoldInit == Init => HoldInv
  BY TypeInit DEF Init, HoldInv, OneRequestInProgress, HoldMatchesRequest,
                  HasRequestInProgress, EMPTY_BALANCE, InFlight

LEMMA HoldStep ==
    ASSUME HoldInv, [Next]_vars
    PROVE  HoldInv'
<1>0. TypeInv'
  BY TypeStep DEF HoldInv
<1>1. ASSUME UNCHANGED <<balance, status, owner, amount>>
      PROVE  OneRequestInProgress' /\ HoldMatchesRequest'
  BY <1>1, HoldUndisturbed
<1>2. ASSUME NEW c \in Calls, NEW w \in Wids, ReserveWithdrawal(c, w)
      PROVE  OneRequestInProgress' /\ HoldMatchesRequest'
  <2> DEFINE u == call[c].uid
             m == call[c].micros
             e == [id |-> <<w, "requested">>, uid |-> u,
                   kind |-> "withdrawal_requested", micros |-> -m]
  <2>1. u \in Users /\ m \in Nat
    BY <1>2, CallShape DEF ReserveWithdrawal, HoldInv, TypeInv
  <2>2. \A v \in Wids : ~ (owner[v] = u /\ status[v] \in InFlight)
    BY <1>2 DEF ReserveWithdrawal, HasRequestInProgress
  <2>3. /\ status' = [status EXCEPT ![w] = "requested"]
        /\ owner' = [owner EXCEPT ![w] = u]
        /\ amount' = [amount EXCEPT ![w] = m]
        /\ AppendEntry(e)
        /\ status[w] = "none"
    BY <1>2 DEF ReserveWithdrawal
  <2>4. e \in Entries
    BY <2>1 DEF Entries, EntryIds, IdSuffixes, Chapters, Kinds
  <2>5. \A x \in Users : balance'[x].pending =
                           IF x = u THEN balance[u].pending + m ELSE balance[x].pending
    <3>1. ASSUME NEW x \in Users
          PROVE  balance'[x].pending =
                   IF x # e.uid THEN balance[x].pending ELSE balance[x].pending - e.micros
      <4>1. e.kind = "withdrawal_requested"
        OBVIOUS
      <4>2. balance \in [Users -> Balances] /\ AppendEntry(e)
        BY <2>3 DEF HoldInv, TypeInv, TypeOK
      <4> HIDE DEF e
      <4> QED
        BY <2>4, <4>1, <4>2, PendingAfterAppend
    <3>2. e.uid = u /\ e.micros = -m
      OBVIOUS
    <3>3. \A x \in Users : balance[x].pending \in Int
      BY DEF HoldInv, TypeInv, TypeOK, Balances
    <3> HIDE DEF e, u, m
    <3> QED
      BY <2>1, <3>1, <3>2, <3>3
  <2>6. balance[u].pending = 0
    BY <2>1, <2>2 DEF HoldInv, HoldMatchesRequest, HasRequestInProgress
  <2>7. \A v \in Wids : /\ v # w => /\ status'[v] = status[v]
                                    /\ owner'[v] = owner[v]
                                    /\ amount'[v] = amount[v]
                        /\ v = w => /\ status'[v] = "requested"
                                    /\ owner'[v] = u
                                    /\ amount'[v] = m
    BY <2>3 DEF HoldInv, TypeInv, TypeOK
  <2> HIDE DEF u, m, e
  <2>8. OneRequestInProgress'
    BY <2>2, <2>7 DEF HoldInv, OneRequestInProgress
  <2>9. HoldMatchesRequest'
    <3>1. ASSUME NEW x \in Users, x # u
          PROVE  IF HasRequestInProgress(x)'
                 THEN \A v \in Wids : owner'[v] = x /\ status'[v] \in InFlight
                                      => balance'[x].pending = amount'[v]
                 ELSE balance'[x].pending = 0
      <4>1. \A v \in Wids : (owner'[v] = x /\ status'[v] \in InFlight)
                            <=> (owner[v] = x /\ status[v] \in InFlight)
        BY <2>3, <2>7, <3>1 DEF InFlight
      <4>2. balance'[x].pending = balance[x].pending
        BY <2>5, <3>1
      <4> QED
        BY <2>3, <2>7, <4>1, <4>2, <3>1
           DEF HoldInv, HoldMatchesRequest, HasRequestInProgress, InFlight
    <3>2. /\ balance'[u].pending = m
          /\ \A v \in Wids : owner'[v] = u /\ status'[v] \in InFlight => v = w
          /\ owner'[w] = u /\ status'[w] \in InFlight /\ amount'[w] = m
      <4>1. \A v \in Wids : owner'[v] = u /\ status'[v] \in InFlight => v = w
        BY <2>2, <2>7
      <4>2. owner'[w] = u /\ status'[w] \in InFlight /\ amount'[w] = m
        BY <2>7 DEF InFlight
      <4>3. balance'[u].pending = m
        BY <2>1, <2>5, <2>6
      <4> QED
        BY <4>1, <4>2, <4>3
    <3>3. ASSUME NEW x \in Users
          PROVE  IF HasRequestInProgress(x)'
                 THEN \A v \in Wids : owner'[v] = x /\ status'[v] \in InFlight
                                      => balance'[x].pending = amount'[v]
                 ELSE balance'[x].pending = 0
      <4>1. CASE x = u
        BY <3>2, <4>1 DEF HasRequestInProgress
      <4> QED
        BY <3>1, <4>1
    <3> QED
      BY <3>3 DEF HoldMatchesRequest
  <2> QED
    BY <2>8, <2>9
<1>3. ASSUME NEW c \in Calls, TransitionWithdrawal(c)
      PROVE  OneRequestInProgress' /\ HoldMatchesRequest'
  <2> DEFINE d == call[c].decision
             w == call[c].wid
  <2>1. d \in Decisions /\ w \in Wids
    BY <1>3, CallShape DEF TransitionWithdrawal, HoldInv, TypeInv
  <2>2. status[w] \in Accepts[d] /\ owner[w] \in Users
    BY <1>3, AllowedIsAccepted DEF TransitionWithdrawal, HoldInv
  <2>3. /\ status' = [status EXCEPT ![w] = Writes[d]]
        /\ UNCHANGED <<owner, amount>>
        /\ d = "approve" => balance' = balance
        /\ d # "approve" => AppendEntry(DecisionEntry(d, w))
    BY <1>3 DEF TransitionWithdrawal
  <2>4. /\ DecisionEntry(d, w) \in Entries
        /\ DecisionEntry(d, w).uid = owner[w]
    BY <2>1, <2>2, DecisionEntryType DEF HoldInv, TypeInv
  <2>5. /\ balance \in [Users -> Balances]
        /\ \A u \in Users : balance[u].pending \in Int
        /\ amount[w] \in Nat
        /\ status \in [Wids -> Statuses]
    BY <2>1 DEF HoldInv, TypeInv, TypeOK, Balances
  <2> HIDE DEF d, w
  <2>6. \A v \in Wids : status'[v] = IF v = w THEN Writes[d] ELSE status[v]
    BY <2>1, <2>3, <2>5
  <2>7. CASE d = "approve"
    <3>1. status[w] \in InFlight /\ Writes[d] \in InFlight
      BY <2>2, <2>7 DEF Accepts, Writes, InFlight
    <3>2. \A v \in Wids : status'[v] \in InFlight <=> status[v] \in InFlight
      BY <2>6, <3>1
    <3> QED
      BY <2>3, <2>7, <3>2
         DEF HoldInv, OneRequestInProgress, HoldMatchesRequest, HasRequestInProgress
  <2>8. CASE d = "return"
    <3>1. status[w] \notin InFlight /\ Writes[d] \notin InFlight
      BY <2>2, <2>8 DEF Accepts, Writes, InFlight
    <3>2. \A v \in Wids : status'[v] \in InFlight <=> status[v] \in InFlight
      BY <2>6, <3>1
    <3>3. \A u \in Users : balance'[u].pending = balance[u].pending
      <4>1. DecisionEntry(d, w).kind = "adjustment"
        BY <2>8 DEF DecisionEntry
      <4> QED
        BY <2>3, <2>4, <2>5, <2>8, <4>1, PendingAfterAppend
    <3> QED
      BY <2>3, <3>2, <3>3
         DEF HoldInv, OneRequestInProgress, HoldMatchesRequest, HasRequestInProgress
  <2>9. CASE d \in {"cancel", "pay", "reject", "fail"}
    <3>1. status[w] \in InFlight /\ Writes[d] \notin InFlight
      BY <2>2, <2>9 DEF Accepts, Writes, InFlight
    <3>2. balance[owner[w]].pending = amount[w]
      BY <2>1, <2>2, <3>1 DEF HoldInv, HoldMatchesRequest, HasRequestInProgress
    <3>3. \A u \in Users : balance'[u].pending =
                             IF u = owner[w] THEN 0 ELSE balance[u].pending
      <4>1. CASE d = "pay"
        <5>1. /\ DecisionEntry(d, w).kind = "withdrawal_paid"
              /\ DecisionEntry(d, w).micros = - amount[w]
          BY <4>1 DEF DecisionEntry
        <5>2. \A u \in Users : balance'[u].pending =
                IF u # owner[w] THEN balance[u].pending
                ELSE balance[u].pending + DecisionEntry(d, w).micros
          BY <2>3, <2>4, <2>5, <4>1, <5>1, PendingAfterAppend
        <5> QED
          BY <2>2, <2>5, <3>2, <5>1, <5>2
      <4>2. CASE d # "pay"
        <5>1. /\ DecisionEntry(d, w).kind = "withdrawal_failed"
              /\ DecisionEntry(d, w).micros = amount[w]
          BY <2>9, <4>2 DEF DecisionEntry
        <5>2. \A u \in Users : balance'[u].pending =
                IF u # owner[w] THEN balance[u].pending
                ELSE balance[u].pending - DecisionEntry(d, w).micros
          BY <2>3, <2>4, <2>5, <2>9, <5>1, PendingAfterAppend
        <5> QED
          BY <2>2, <2>5, <3>2, <5>1, <5>2
      <4> QED
        BY <4>1, <4>2
    <3>4. OneRequestInProgress'
      BY <2>3, <2>6, <3>1 DEF HoldInv, OneRequestInProgress
    <3>5. \A v \in Wids : ~ (owner[v] = owner[w] /\ status'[v] \in InFlight)
      BY <2>1, <2>6, <3>1 DEF HoldInv, OneRequestInProgress
    <3>6. \A v \in Wids : status'[v] \in InFlight =>
            v # w /\ status[v] \in InFlight
      BY <2>6, <3>1
    <3>7. ASSUME NEW u \in Users, u # owner[w]
          PROVE  IF HasRequestInProgress(u)'
                 THEN \A v \in Wids : owner'[v] = u /\ status'[v] \in InFlight
                                      => balance'[u].pending = amount'[v]
                 ELSE balance'[u].pending = 0
      <4>1. \A v \in Wids : (owner[v] = u /\ status'[v] \in InFlight)
                            <=> (owner[v] = u /\ status[v] \in InFlight)
        BY <2>6, <3>7
      <4> QED
        BY <2>3, <3>3, <3>7, <4>1 DEF HoldInv, HoldMatchesRequest, HasRequestInProgress
    <3>8. HoldMatchesRequest'
      BY <2>2, <2>3, <3>3, <3>5, <3>7 DEF HoldMatchesRequest, HasRequestInProgress
    <3> QED
      BY <3>4, <3>8
  <2> QED
    BY <2>1, <2>7, <2>8, <2>9 DEF Decisions
<1>4. ASSUME NEW c \in Calls, NEW a \in AdjIds, AppendAdjustment(c, a)
      PROVE  OneRequestInProgress' /\ HoldMatchesRequest'
  <2> DEFINE e == [id |-> <<a, "adjusted">>, uid |-> call[c].uid,
                   kind |-> "adjustment", micros |-> call[c].micros]
  <2>1. e \in Entries /\ e.kind = "adjustment"
    BY <1>4, CallShape
       DEF AppendAdjustment, HoldInv, TypeInv, Entries, EntryIds, IdSuffixes, Chapters, Kinds
  <2>2. AppendEntry(e) /\ balance \in [Users -> Balances]
    BY <1>4 DEF AppendAdjustment, HoldInv, TypeInv, TypeOK
  <2> HIDE DEF e
  <2>3. \A u \in Users : balance'[u].pending = balance[u].pending
    BY <2>1, <2>2, PendingAfterAppend
  <2> QED
    BY <1>4, <2>3, HoldUndisturbed DEF AppendAdjustment
<1>5. ASSUME NEW u \in Users, NEW r \in Receipts, NEW m \in Credits,
             SettleReceipt(u, r, m)
      PROVE  OneRequestInProgress' /\ HoldMatchesRequest'
  <2> DEFINE e == [id |-> <<r, "earned">>, uid |-> u,
                   kind |-> "impression", micros |-> m]
  <2>1. e \in Entries /\ e.kind = "impression"
    BY CreditsAssumption DEF Entries, EntryIds, IdSuffixes, Chapters, Kinds
  <2>2. AppendEntry(e) /\ balance \in [Users -> Balances]
    BY <1>5 DEF SettleReceipt, HoldInv, TypeInv, TypeOK
  <2> HIDE DEF e
  <2>3. \A x \in Users : balance'[x].pending = balance[x].pending
    BY <2>1, <2>2, PendingAfterAppend
  <2> QED
    BY <1>5, <2>3, HoldUndisturbed DEF SettleReceipt
<1>6. OneRequestInProgress' /\ HoldMatchesRequest'
  <2>1. ASSUME NEW c \in Calls, Request(c) \/ Decide(c) \/ Adjust(c)
                                \/ WriteAudit(c) \/ Crash(c)
        PROVE  OneRequestInProgress' /\ HoldMatchesRequest'
    <3>1. CASE \E w \in Wids : ReserveWithdrawal(c, w)
      BY <1>2, <3>1
    <3>2. CASE TransitionWithdrawal(c)
      BY <1>3, <3>2
    <3>3. CASE \E a \in AdjIds : AppendAdjustment(c, a)
      BY <1>4, <3>3
    <3>4. CASE \/ \E u \in Users, m \in Amounts : ReadForRequest(c, u, m)
               \/ RefuseReservation(c)
               \/ \E d \in Decisions, w \in Wids : ReadForDecision(c, d, w)
               \/ RefuseTransition(c)
               \/ \E u \in Users, m \in Corrections : ReadForAdjustment(c, u, m)
               \/ WriteAudit(c)
               \/ Crash(c)
      BY <1>1, <3>4 DEF ReadForRequest, RefuseReservation, ReadForDecision,
                        RefuseTransition, ReadForAdjustment, WriteAudit, Crash
    <3> QED
      BY <2>1, <3>1, <3>2, <3>3, <3>4 DEF Request, Decide, Adjust
  <2>2. CASE UNCHANGED vars
    BY <1>1, <2>2 DEF vars
  <2> QED
    BY <1>5, <2>1, <2>2 DEF Next
<1> QED
  BY <1>0, <1>6 DEF HoldInv

(* However many handlers ask for the same user at once, one request at most *)
(* is in progress.                                                          *)
THEOREM OneRequestOnly == Spec => []OneRequestInProgress
<1>1. HoldInv => OneRequestInProgress
  BY DEF HoldInv
<1> QED
  BY <1>1, HoldInit, HoldStep, PTL DEF Spec

(* The pending figure of every user is the sum of their one request in     *)
(* progress, or zero.                                                      *)
THEOREM HoldCorrect == Spec => []HoldMatchesRequest
<1>1. HoldInv => HoldMatchesRequest
  BY DEF HoldInv
<1> QED
  BY <1>1, HoldInit, HoldStep, PTL DEF Spec
-----------------------------------------------------------------------------
(* The two writes that change a status do so along an edge of Lifecycle:   *)
(* a row is created as "requested", and a decision writes its own status   *)
(* over one it accepts, whatever was decided since its handler read.       *)
LEMMA LifecycleStep ==
    ASSUME TypeInv, [Next]_vars, NEW w \in Wids, status'[w] # status[w]
    PROVE  <<status[w], status'[w]>> \in Lifecycle
<1>1. \/ \E c \in Calls, v \in Wids : ReserveWithdrawal(c, v)
      \/ \E c \in Calls : TransitionWithdrawal(c)
  BY DEF vars, Next, Request, Decide, Adjust, ReadForRequest, RefuseReservation,
         ReadForDecision, RefuseTransition, ReadForAdjustment, AppendAdjustment,
         WriteAudit, Crash, SettleReceipt
<1>2. ASSUME NEW c \in Calls, NEW v \in Wids, ReserveWithdrawal(c, v)
      PROVE  <<status[w], status'[w]>> \in Lifecycle
  BY <1>2 DEF ReserveWithdrawal, TypeInv, TypeOK, Lifecycle
<1>3. ASSUME NEW c \in Calls, TransitionWithdrawal(c)
      PROVE  <<status[w], status'[w]>> \in Lifecycle
  <2> DEFINE d == call[c].decision
             v == call[c].wid
  <2>1. call[c].op = "decide" /\ TransitionAllowed(call[c])
        /\ status' = [status EXCEPT ![v] = Writes[d]]
    BY <1>3 DEF TransitionWithdrawal
  <2>2. d \in Decisions /\ v \in Wids /\ status[v] \in Accepts[d]
    BY <2>1, CallShape, AllowedIsAccepted DEF TypeInv
  <2>3. w = v /\ status'[w] = Writes[d]
    BY <2>1, <2>2 DEF TypeInv, TypeOK
  <2> QED
    BY <2>2, <2>3 DEF Decisions, Accepts, Writes, InFlight, Lifecycle
<1> QED
  BY <1>1, <1>2, <1>3

(* However the handlers interleave, a withdrawal only moves along the edges *)
(* of its life cycle: a cancelled or rejected one stays so, and what was    *)
(* paid can only be returned.                                               *)
THEOREM LifecycleFollowed == Spec => FollowsLifecycle
<1>1. TypeInv /\ [Next]_vars =>
        [\A w \in Wids : status'[w] # status[w]
                          => <<status[w], status'[w]>> \in Lifecycle]_vars
  BY LifecycleStep
<1>2. Spec => []TypeInv
  BY TypeInit, TypeStep, PTL DEF Spec
<1> QED
  BY <1>1, <1>2, PTL DEF Spec, FollowsLifecycle
-----------------------------------------------------------------------------
(* What an entry does to the money a user may still ask for. *)
LEMMA AvailableAfterAppend ==
    ASSUME balance \in [Users -> Balances], NEW e \in Entries, AppendEntry(e),
           NEW u \in Users
    PROVE  balance'[u].available =
             IF u # e.uid \/ e.kind = "withdrawal_paid"
             THEN balance[u].available
             ELSE balance[u].available + e.micros
<1>1. e.uid \in Users
  BY DEF Entries
<1> QED
  BY <1>1 DEF AppendEntry, ApplyEntry

(* Of all entries only a correction lowers a balance that it leaves        *)
(* negative: a reservation has just seen that the sum is there, and every  *)
(* other entry takes nothing from what is available.                       *)
LEMMA OverdrawStep ==
    ASSUME TypeInv, [Next]_vars, NEW u \in Users,
           balance'[u].available < 0,
           balance'[u].available < balance[u].available
    PROVE  \E a \in AdjIds : <<a, "adjusted">> \in {e.id : e \in entries' \ entries}
<1> USE DEF TypeInv
<1>0. /\ balance \in [Users -> Balances]
      /\ balance[u].available \in Int
      /\ balance' # balance
  BY DEF TypeOK, Balances
<1>1. \/ \E c \in Calls, w \in Wids : ReserveWithdrawal(c, w)
      \/ \E c \in Calls : TransitionWithdrawal(c)
      \/ \E c \in Calls, a \in AdjIds : AppendAdjustment(c, a)
      \/ \E v \in Users, r \in Receipts, m \in Credits : SettleReceipt(v, r, m)
  BY <1>0 DEF vars, Next, Request, Decide, Adjust, ReadForRequest, RefuseReservation,
         ReadForDecision, RefuseTransition, ReadForAdjustment, WriteAudit, Crash
<1>2. ASSUME NEW c \in Calls, NEW w \in Wids, ReserveWithdrawal(c, w)
      PROVE  FALSE
  <2> DEFINE e == [id |-> <<w, "requested">>, uid |-> call[c].uid,
                   kind |-> "withdrawal_requested", micros |-> - call[c].micros]
  <2>1. call[c].uid \in Users /\ call[c].micros \in Nat
    BY <1>2, CallShape DEF ReserveWithdrawal
  <2>2. /\ e \in Entries
        /\ e.uid = call[c].uid
        /\ e.micros = - call[c].micros
    BY <2>1 DEF Entries, EntryIds, IdSuffixes, Chapters, Kinds
  <2>3. AppendEntry(e) /\ balance[call[c].uid].available >= call[c].micros
    BY <1>2 DEF ReserveWithdrawal
  <2> HIDE DEF e
  <2>4. \/ balance'[u].available = balance[u].available
        \/ /\ u = call[c].uid
           /\ balance'[u].available = balance[u].available - call[c].micros
    BY <1>0, <2>1, <2>2, <2>3, AvailableAfterAppend
  <2> QED
    BY <1>0, <2>1, <2>3, <2>4
<1>3. ASSUME NEW c \in Calls, TransitionWithdrawal(c)
      PROVE  FALSE
  <2> DEFINE d == call[c].decision
             w == call[c].wid
             e == DecisionEntry(d, w)
  <2>1. d \in Decisions /\ w \in Wids /\ owner[w] \in Users
    BY <1>3, CallShape, AllowedIsAccepted DEF TransitionWithdrawal
  <2>2. d # "approve" /\ AppendEntry(e)
    BY <1>0, <1>3 DEF TransitionWithdrawal
  <2>3. e \in Entries
    BY <2>1, DecisionEntryType
  <2>4. e.kind = "withdrawal_paid" \/ e.micros \in Nat
    BY <2>1 DEF DecisionEntry, TypeOK
  <2> HIDE DEF e
  <2> QED
    BY <1>0, <2>2, <2>3, <2>4, AvailableAfterAppend
<1>4. ASSUME NEW c \in Calls, NEW a \in AdjIds, AppendAdjustment(c, a)
      PROVE  <<a, "adjusted">> \in {e.id : e \in entries' \ entries}
  <2> DEFINE e == [id |-> <<a, "adjusted">>, uid |-> call[c].uid,
                   kind |-> "adjustment", micros |-> call[c].micros]
  <2>1. e \in entries' /\ e \notin entries
    BY <1>4 DEF AppendAdjustment, AppendEntry, IdUsed
  <2> QED
    BY <2>1
<1>5. ASSUME NEW v \in Users, NEW r \in Receipts, NEW m \in Credits,
             SettleReceipt(v, r, m)
      PROVE  FALSE
  <2> DEFINE e == [id |-> <<r, "earned">>, uid |-> v,
                   kind |-> "impression", micros |-> m]
  <2>1. e \in Entries /\ e.micros \in Nat
    BY CreditsAssumption DEF Entries, EntryIds, IdSuffixes, Chapters, Kinds
  <2>2. AppendEntry(e)
    BY <1>5 DEF SettleReceipt
  <2> HIDE DEF e
  <2> QED
    BY <1>0, <2>1, <2>2, AvailableAfterAppend
<1> QED
  BY <1>1, <1>2, <1>3, <1>4, <1>5

(* However stale what a request or a decision read, none of them takes more *)
(* than is there; adjustBalance is the only way to a negative balance.      *)
THEOREM OverdrawsAreCorrections == Spec => OnlyCorrectionsOverdraw
<1>1. TypeInv /\ [Next]_vars =>
        [\A u \in Users :
            balance'[u].available < 0 /\ balance'[u].available < balance[u].available
            => \E a \in AdjIds : <<a, "adjusted">> \in {e.id : e \in entries' \ entries}]_vars
  BY OverdrawStep
<1>2. Spec => []TypeInv
  BY TypeInit, TypeStep, PTL DEF Spec
<1> QED
  BY <1>1, <1>2, PTL DEF Spec, OnlyCorrectionsOverdraw
-----------------------------------------------------------------------------
(* The audit trail.  A line is written one step after the decision it      *)
(* names, so the lines still to be written must be true as well; and they  *)
(* stay true because a status only moves along Lifecycle.                  *)

PendingLinesTrue ==
    \A c \in Calls : call[c].op = "audit" => TookEffect(call[c].line)

AuditInv == TypeInv /\ AuditedDecisionsHappened /\ PendingLinesTrue

(* A line that is true stays true. *)
LEMMA EffectsLast ==
    ASSUME TypeInv, [Next]_vars, NEW line \in AuditLines, TookEffect(line)
    PROVE  TookEffect(line)'
<1>1. CASE line[1] = "adjusted"
  BY <1>1 DEF TookEffect
<1>2. CASE line[1] # "adjusted"
  <2>1. /\ line[2] \in Wids
        /\ line[1] \in {"approved", "paid", "rejected", "failed", "returned"}
    BY <1>2 DEF AuditLines, Decisions, Writes
  <2>2. \/ status'[line[2]] = status[line[2]]
        \/ <<status[line[2]], status'[line[2]]>> \in Lifecycle
    BY <2>1, LifecycleStep
  <2> QED
    BY <1>2, <2>1, <2>2 DEF TookEffect, Afterwards, Lifecycle
<1> QED
  BY <1>1, <1>2

(* A decision's line is true when its transition commits. *)
LEMMA DecisionsTakeEffect ==
    ASSUME TypeInv, NEW c \in Calls, TransitionWithdrawal(c), NEW line,
           line = <<Writes[call[c].decision], call[c].wid>>,
           call[c].decision # "cancel"
    PROVE  TookEffect(line)'
<1> DEFINE d == call[c].decision
           w == call[c].wid
<1>1. d \in Decisions /\ w \in Wids
  BY CallShape DEF TransitionWithdrawal, TypeInv
<1>2. status'[w] = Writes[d]
  BY <1>1 DEF TransitionWithdrawal, TypeInv, TypeOK
<1>3. Writes[d] \in Afterwards[Writes[d]]
  BY <1>1 DEF Decisions, Writes, Afterwards
<1> QED
  BY <1>2, <1>3 DEF TookEffect

LEMMA AuditInit == Init => AuditInv
  BY TypeInit DEF Init, AuditInv, AuditedDecisionsHappened, PendingLinesTrue, Idle

LEMMA AuditStep ==
    ASSUME AuditInv, [Next]_vars
    PROVE  AuditInv'
<1>0. TypeInv /\ TypeInv'
  BY TypeStep DEF AuditInv
<1>1. \A line \in AuditLines : TookEffect(line) => TookEffect(line)'
  BY <1>0, EffectsLast
<1>2. \A line \in audit : line \in AuditLines /\ TookEffect(line)'
  BY <1>0, <1>1 DEF AuditInv, AuditedDecisionsHappened, TypeInv, TypeOK
<1>3. ASSUME NEW c \in Calls, call[c].op = "audit", NEW line, line = call[c].line
      PROVE  TookEffect(line)'
  BY <1>0, <1>1, <1>3, CallShape DEF AuditInv, PendingLinesTrue, TypeInv
<1>4. AuditedDecisionsHappened'
  <2>1. audit' = audit \/ \E c \in Calls : WriteAudit(c)
    BY DEF vars, Next, Request, Decide, Adjust, ReadForRequest, RefuseReservation,
           ReserveWithdrawal, ReadForDecision, RefuseTransition, TransitionWithdrawal,
           ReadForAdjustment, AppendAdjustment, Crash, SettleReceipt
  <2>2. SUFFICES ASSUME NEW line \in audit', line \notin audit
                 PROVE  TookEffect(line)'
    BY <1>2 DEF AuditedDecisionsHappened
  <2>3. PICK c \in Calls : call[c].op = "audit" /\ line = call[c].line
    BY <2>1, <2>2 DEF WriteAudit
  <2> QED
    BY <1>3, <2>3
<1>5. PendingLinesTrue'
  <2>1. SUFFICES ASSUME NEW c \in Calls, NEW line,
                        call'[c].op = "audit", line = call'[c].line
                 PROVE  TookEffect(line)'
    BY DEF PendingLinesTrue, TookEffect
  <2>2. CASE call'[c] = call[c]
    BY <1>3, <2>1, <2>2
  <2>3. CASE TransitionWithdrawal(c)
    <3>1. /\ call[c].decision # "cancel"
          /\ line = <<Writes[call[c].decision], call[c].wid>>
      BY <1>0, <2>1, <2>3 DEF TransitionWithdrawal, Goto, Idle, TypeInv, TypeOK
    <3> QED
      BY <1>0, <2>3, <3>1, DecisionsTakeEffect
  <2>4. CASE \E a \in AdjIds : AppendAdjustment(c, a)
    BY <1>0, <2>1, <2>4 DEF AppendAdjustment, Goto, TookEffect, TypeInv, TypeOK
  <2>5. \/ call'[c] = call[c]
        \/ TransitionWithdrawal(c)
        \/ \E a \in AdjIds : AppendAdjustment(c, a)
    <3>1. CASE UNCHANGED vars
      BY <3>1 DEF vars
    <3>2. CASE Next
      <4>1. call \in [Calls -> CallStates]
        BY <1>0 DEF TypeInv, TypeOK
      <4>2. ASSUME NEW d \in Calls, NEW x, Goto(d, x), x.op # "audit"
            PROVE  call'[c] = call[c]
        BY <2>1, <4>1, <4>2 DEF Goto
      <4>3. ASSUME NEW d \in Calls, NEW x, Goto(d, x), d # c
            PROVE  call'[c] = call[c]
        BY <4>1, <4>3 DEF Goto
      <4>4. ASSUME NEW d \in Calls, Request(d) \/ Crash(d)
            PROVE  call'[c] = call[c]
        BY <4>2, <4>4 DEF Request, ReadForRequest, RefuseReservation,
                          ReserveWithdrawal, Crash, Idle
      <4>5. ASSUME NEW d \in Calls, Decide(d)
            PROVE  call'[c] = call[c] \/ TransitionWithdrawal(c)
        <5>1. CASE RefuseTransition(d)
          BY <4>2, <5>1 DEF RefuseTransition, Idle
        <5>2. ASSUME NEW e \in Decisions, NEW w \in Wids, ReadForDecision(d, e, w)
              PROVE  call'[c] = call[c]
          BY <4>2, <5>2 DEF ReadForDecision
        <5>3. CASE TransitionWithdrawal(d)
          <6>1. CASE d = c
            BY <5>3, <6>1
          <6>2. CASE d # c
            BY <4>3, <5>3, <6>2 DEF TransitionWithdrawal
          <6> QED
            BY <6>1, <6>2
        <5> QED
          BY <4>5, <5>1, <5>2, <5>3 DEF Decide
      <4>6. ASSUME NEW d \in Calls, Adjust(d) \/ WriteAudit(d)
            PROVE  call'[c] = call[c] \/ \E a \in AdjIds : AppendAdjustment(c, a)
        BY <4>2, <4>3, <4>6 DEF Adjust, ReadForAdjustment, AppendAdjustment,
                                WriteAudit, Idle
      <4> QED
        BY <3>2, <4>4, <4>5, <4>6 DEF Next, SettleReceipt
    <3> QED
      BY <3>1, <3>2
  <2> QED
    BY <2>2, <2>3, <2>4, <2>5
<1> QED
  BY <1>0, <1>4, <1>5 DEF AuditInv

(* No audit line ever claims a decision that another handler forestalled.   *)
THEOREM AuditTruthful == Spec => []AuditedDecisionsHappened
<1>1. AuditInv => AuditedDecisionsHappened
  BY DEF AuditInv
<1> QED
  BY <1>1, AuditInit, AuditStep, PTL DEF Spec
-----------------------------------------------------------------------------
(* The ledger.  Every chapter of a withdrawal's story is one entry, written *)
(* in the step that moves the status; no other entry has such an id.        *)

StoryInv == TypeInv /\ LedgerTellsTheStory

(* The chapter a decision adds. *)
ChapterOf(d) == CASE d = "pay" -> "paid"
                  [] d = "return" -> "returned"
                  [] OTHER -> "failed"

(* Appending an entry changes what is told under its own id only. *)
LEMMA ToldAfterAppend ==
    ASSUME NEW e, AppendEntry(e), NEW w, NEW x
    PROVE  Told(w, x)' = IF e.id = <<w, x>> THEN Told(w, x) \cup {e} ELSE Told(w, x)
  BY DEF AppendEntry, Told

(* A chapter stays told while its entry, the request and whether it belongs *)
(* to the story stay as they are.                                           *)
LEMMA ChapterKept ==
    ASSUME NEW w, NEW x, TellsOf(w, x), Told(w, x)' = Told(w, x),
           (x \in StoryOf(status[w]))' <=> x \in StoryOf(status[w]),
           owner'[w] = owner[w], amount'[w] = amount[w]
    PROVE  TellsOf(w, x)'
  BY DEF TellsOf

(* A chapter that was not told is told once its entry is appended. *)
LEMMA ChapterAdded ==
    ASSUME NEW w, NEW x, NEW e, AppendEntry(e), e.id = <<w, x>>, Told(w, x) = {},
           x \in StoryOf(status'[w]), e.uid = owner'[w],
           e.micros = IF x \in {"requested", "paid"}
                      THEN - amount'[w] ELSE amount'[w]
    PROVE  TellsOf(w, x)'
<1>1. Told(w, x)' = {e}
  BY ToldAfterAppend
<1> QED
  BY <1>1 DEF TellsOf

(* A decision adds its chapter to the story, and approving adds none. *)
LEMMA StoryAfterDecision ==
    ASSUME NEW d \in Decisions, NEW s \in Accepts[d]
    PROVE  /\ d = "approve" => StoryOf(Writes[d]) = StoryOf(s)
           /\ d # "approve" => /\ ChapterOf(d) \in Chapters \ StoryOf(s)
                               /\ StoryOf(Writes[d]) = StoryOf(s) \cup {ChapterOf(d)}
  BY DEF Decisions, Accepts, Writes, InFlight, StoryOf, ChapterOf, Chapters

LEMMA StoryInit == Init => StoryInv
  BY TypeInit DEF Init, StoryInv, LedgerTellsTheStory, TellsOf, Told, StoryOf, InFlight

LEMMA StoryStep ==
    ASSUME StoryInv, [Next]_vars
    PROVE  StoryInv'
<1> USE DEF StoryInv
<1>1. TypeInv'
  BY TypeStep
<1>2. ASSUME NEW w \in Wids, NEW x \in Chapters
      PROVE  TellsOf(w, x)
  BY DEF LedgerTellsTheStory
<1>3. ASSUME UNCHANGED <<entries, status, owner, amount>>
      PROVE  LedgerTellsTheStory'
  <2>1. SUFFICES ASSUME NEW w \in Wids, NEW x \in Chapters
                 PROVE  TellsOf(w, x)'
    BY DEF LedgerTellsTheStory
  <2>2. Told(w, x)' = Told(w, x)
    BY <1>3 DEF Told
  <2> QED
    BY <1>2, <1>3, <2>2, ChapterKept
<1>4. ASSUME NEW e, AppendEntry(e), UNCHANGED <<status, owner, amount>>,
             \A w \in Wids, x \in Chapters : e.id # <<w, x>>
      PROVE  LedgerTellsTheStory'
  <2>1. SUFFICES ASSUME NEW w \in Wids, NEW x \in Chapters
                 PROVE  TellsOf(w, x)'
    BY DEF LedgerTellsTheStory
  <2>2. Told(w, x)' = Told(w, x)
    BY <1>4, ToldAfterAppend
  <2> QED
    BY <1>2, <1>4, <2>2, ChapterKept
<1>5. ASSUME NEW c \in Calls, NEW v \in Wids, ReserveWithdrawal(c, v)
      PROVE  LedgerTellsTheStory'
  <2> DEFINE u == call[c].uid
             m == call[c].micros
             e == [id |-> <<v, "requested">>, uid |-> u,
                   kind |-> "withdrawal_requested", micros |-> -m]
  <2>1. /\ status[v] = "none"
        /\ status' = [status EXCEPT ![v] = "requested"]
        /\ owner' = [owner EXCEPT ![v] = u]
        /\ amount' = [amount EXCEPT ![v] = m]
        /\ AppendEntry(e)
    BY <1>5 DEF ReserveWithdrawal
  <2>2. /\ status'[v] = "requested" /\ owner'[v] = u /\ amount'[v] = m
        /\ \A w \in Wids \ {v} : /\ status'[w] = status[w]
                                 /\ owner'[w] = owner[w]
                                 /\ amount'[w] = amount[w]
    BY <2>1 DEF TypeInv, TypeOK
  <2>3. /\ e.id = <<v, "requested">> /\ e.uid = u /\ e.micros = -m
    OBVIOUS
  <2> HIDE DEF e, u, m
  <2>4. SUFFICES ASSUME NEW w \in Wids, NEW x \in Chapters
                 PROVE  TellsOf(w, x)'
    BY DEF LedgerTellsTheStory
  <2>5. CASE w = v /\ x = "requested"
    <3>1. Told(w, x) = {}
      BY <1>2, <2>1, <2>5 DEF TellsOf, StoryOf, InFlight
    <3>2. x \in StoryOf(status'[w])
      BY <2>2, <2>5 DEF StoryOf, InFlight
    <3> QED
      BY <2>1, <2>2, <2>3, <2>5, <3>1, <3>2, ChapterAdded
  <2>6. CASE w = v /\ x # "requested"
    <3>1. Told(w, x) = {}
      BY <1>2, <2>1, <2>6 DEF TellsOf, StoryOf, InFlight
    <3>2. Told(w, x)' = {}
      BY <2>1, <2>3, <2>6, <3>1, ToldAfterAppend
    <3>3. x \notin StoryOf(status'[w])
      BY <2>2, <2>6 DEF StoryOf, InFlight
    <3> QED
      BY <3>2, <3>3 DEF TellsOf
  <2>7. CASE w # v
    <3>1. Told(w, x)' = Told(w, x)
      BY <2>1, <2>3, <2>7, ToldAfterAppend
    <3> QED
      BY <1>2, <2>2, <2>7, <3>1, ChapterKept
  <2> QED
    BY <2>5, <2>6, <2>7
<1>6. ASSUME NEW c \in Calls, TransitionWithdrawal(c)
      PROVE  LedgerTellsTheStory'
  <2> DEFINE d == call[c].decision
             v == call[c].wid
             e == DecisionEntry(d, v)
  <2>1. /\ d \in Decisions /\ v \in Wids
        /\ status[v] \in Accepts[d]
    BY <1>6, CallShape, AllowedIsAccepted DEF TransitionWithdrawal, TypeInv
  <2>2. /\ status' = [status EXCEPT ![v] = Writes[d]]
        /\ d = "approve" => entries' = entries
        /\ d # "approve" => AppendEntry(e)
        /\ UNCHANGED <<owner, amount>>
    BY <1>6 DEF TransitionWithdrawal
  <2>3. /\ status'[v] = Writes[d]
        /\ \A w \in Wids \ {v} : status'[w] = status[w]
    BY <2>1, <2>2 DEF TypeInv, TypeOK
  <2>4. /\ d = "approve" => StoryOf(status'[v]) = StoryOf(status[v])
        /\ d # "approve" =>
             /\ ChapterOf(d) \in Chapters \ StoryOf(status[v])
             /\ StoryOf(status'[v]) = StoryOf(status[v]) \cup {ChapterOf(d)}
    BY <2>1, <2>3, StoryAfterDecision
  <2>5. d # "approve" =>
          /\ e.id = <<v, ChapterOf(d)>> /\ e.uid = owner[v]
          /\ e.micros = IF ChapterOf(d) \in {"requested", "paid"}
                        THEN - amount[v] ELSE amount[v]
    BY <2>1 DEF DecisionEntry, ChapterOf, Decisions
  <2> HIDE DEF e, d, v
  <2>6. SUFFICES ASSUME NEW w \in Wids, NEW x \in Chapters
                 PROVE  TellsOf(w, x)'
    BY DEF LedgerTellsTheStory
  <2>7. CASE d # "approve" /\ w = v /\ x = ChapterOf(d)
    <3>1. Told(w, x) = {}
      BY <1>2, <2>4, <2>7 DEF TellsOf
    <3>2. /\ x \in StoryOf(status'[w])
          /\ AppendEntry(e) /\ e.id = <<w, x>> /\ e.uid = owner'[w]
          /\ e.micros = IF x \in {"requested", "paid"}
                        THEN - amount'[w] ELSE amount'[w]
      BY <2>2, <2>4, <2>5, <2>7
    <3> QED
      BY <3>1, <3>2, ChapterAdded
  <2>8. CASE d = "approve" \/ w # v \/ x # ChapterOf(d)
    <3>1. Told(w, x)' = Told(w, x)
      <4>1. CASE d = "approve"
        BY <2>2, <4>1 DEF Told
      <4>2. CASE d # "approve"
        BY <2>2, <2>5, <2>8, <4>2, ToldAfterAppend
      <4> QED
        BY <4>1, <4>2
    <3>2. (x \in StoryOf(status'[w])) <=> x \in StoryOf(status[w])
      BY <2>3, <2>4, <2>8
    <3> QED
      BY <1>2, <2>2, <3>1, <3>2, ChapterKept
  <2> QED
    BY <2>7, <2>8
<1>7. ASSUME NEW c \in Calls, NEW a \in AdjIds, AppendAdjustment(c, a)
      PROVE  LedgerTellsTheStory'
  <2> DEFINE e == [id |-> <<a, "adjusted">>, uid |-> call[c].uid,
                   kind |-> "adjustment", micros |-> call[c].micros]
  <2>1. \A w \in Wids, x \in Chapters : e.id # <<w, x>>
    BY DEF Chapters
  <2>2. AppendEntry(e) /\ UNCHANGED <<status, owner, amount>>
    BY <1>7 DEF AppendAdjustment
  <2> HIDE DEF e
  <2> QED
    BY <1>4, <2>1, <2>2
<1>8. ASSUME NEW u \in Users, NEW r \in Receipts, NEW m \in Credits,
             SettleReceipt(u, r, m)
      PROVE  LedgerTellsTheStory'
  <2> DEFINE e == [id |-> <<r, "earned">>, uid |-> u,
                   kind |-> "impression", micros |-> m]
  <2>1. \A w \in Wids, x \in Chapters : e.id # <<w, x>>
    BY DEF Chapters
  <2>2. AppendEntry(e) /\ UNCHANGED <<status, owner, amount>>
    BY <1>8 DEF SettleReceipt
  <2> HIDE DEF e
  <2> QED
    BY <1>4, <2>1, <2>2
<1>9. \/ UNCHANGED <<entries, status, owner, amount>>
      \/ \E c \in Calls, v \in Wids : ReserveWithdrawal(c, v)
      \/ \E c \in Calls : TransitionWithdrawal(c)
      \/ \E c \in Calls, a \in AdjIds : AppendAdjustment(c, a)
      \/ \E u \in Users, r \in Receipts, m \in Credits : SettleReceipt(u, r, m)
  BY DEF vars, Next, Request, Decide, Adjust, ReadForRequest, RefuseReservation,
         ReadForDecision, RefuseTransition, ReadForAdjustment, WriteAudit, Crash
<1>10. LedgerTellsTheStory'
  BY <1>3, <1>5, <1>6, <1>7, <1>8, <1>9
<1> QED
  BY <1>1, <1>10

(* However handlers interleave and die, the ledger and the status tell the *)
(* same story: no withdrawal is both paid and given back, none is given    *)
(* back twice, and each entry is its owner's and for the sum asked for.    *)
THEOREM LedgerAgreesWithStatus == Spec => []LedgerTellsTheStory
<1>1. StoryInv => LedgerTellsTheStory
  BY DEF StoryInv
<1> QED
  BY <1>1, StoryInit, StoryStep, PTL DEF Spec
-----------------------------------------------------------------------------
(* The promise.  Every step of Payouts is, seen from the wallet and the    *)
(* stage of each sum, a step PayoutPromise allows, or none at all.         *)

Wallet == [u \in Users |-> balance[u].available]
Stage == [w \in Wids |-> StageOf(status[w])]

LEMMA PromiseInit == Init => Promise!Init
  BY DEF Init, Promise!Init, EMPTY_BALANCE, StageOf, InFlight

(* The wallet after an entry is appended. *)
LEMMA WalletAfterAppend ==
    ASSUME balance \in [Users -> Balances], NEW e \in Entries, AppendEntry(e)
    PROVE  Wallet' = IF e.kind = "withdrawal_paid" THEN Wallet
                     ELSE [Wallet EXCEPT ![e.uid] = @ + e.micros]
<1>1. e.uid \in Users
  BY DEF Entries
<1>2. \A u \in Users : balance'[u].available =
             IF u # e.uid \/ e.kind = "withdrawal_paid"
             THEN balance[u].available
             ELSE balance[u].available + e.micros
  BY AvailableAfterAppend
<1> QED
  BY <1>1, <1>2 DEF Wallet

LEMMA PromiseStep ==
    ASSUME TypeInv, [Next]_vars
    PROVE  [Promise!Next]_(Promise!vars)
<1> USE DEF TypeInv
<1>1. CASE UNCHANGED <<balance, status, owner, amount>>
  BY <1>1 DEF Promise!vars, StageOf
<1>2. ASSUME NEW c \in Calls, NEW w \in Wids, ReserveWithdrawal(c, w)
      PROVE  Promise!Hold(call[c].uid, w)
  <2> DEFINE u == call[c].uid
             m == call[c].micros
             e == [id |-> <<w, "requested">>, uid |-> u,
                   kind |-> "withdrawal_requested", micros |-> -m]
  <2>1. u \in Users /\ m \in Nat
    BY <1>2, CallShape DEF ReserveWithdrawal
  <2>2. /\ status[w] = "none"
        /\ \A v \in Wids : owner[v] = u => status[v] \notin InFlight
        /\ balance[u].available >= m
        /\ status' = [status EXCEPT ![w] = "requested"]
        /\ owner' = [owner EXCEPT ![w] = u]
        /\ amount' = [amount EXCEPT ![w] = m]
        /\ AppendEntry(e)
    BY <1>2 DEF ReserveWithdrawal, HasRequestInProgress
  <2>3. /\ e \in Entries /\ e.uid = u /\ e.micros = -m
        /\ e.kind # "withdrawal_paid"
    BY <2>1 DEF Entries, EntryIds, IdSuffixes, Chapters, Kinds
  <2> HIDE DEF e
  <2>4. Wallet' = [Wallet EXCEPT ![u] = @ - m]
    <3>1. Wallet' = [Wallet EXCEPT ![u] = @ + e.micros]
      BY <2>2, <2>3, WalletAfterAppend DEF TypeOK
    <3>2. Wallet[u] \in Int /\ Wallet[u] + e.micros = Wallet[u] - m
      BY <2>1, <2>3 DEF Wallet, TypeOK, Balances
    <3> HIDE DEF u, m
    <3> QED
      BY <3>1, <3>2
  <2>5. amount'[w] = m
    BY <2>2 DEF TypeOK
  <2>6. Stage' = [Stage EXCEPT ![w] = "held"]
    BY <2>2 DEF Stage, StageOf, InFlight, TypeOK
  <2>7. Stage[w] = "unborn" /\ \A v \in Wids : owner[v] = u => Stage[v] # "held"
    BY <2>2 DEF Stage, StageOf, InFlight, TypeOK, Statuses
  <2>8. m <= Wallet[u]
    BY <2>1, <2>2 DEF Wallet, TypeOK, Balances
  <2> HIDE DEF u, m
  <2> QED
    BY <2>1, <2>2, <2>4, <2>5, <2>6, <2>7, <2>8 DEF Promise!Hold, Wallet, Stage, u
<1>3. ASSUME NEW c \in Calls, NEW w \in Wids, w = call[c].wid,
             TransitionWithdrawal(c)
      PROVE  \/ UNCHANGED Promise!vars
             \/ Promise!Send(w)
             \/ Promise!PutBack(w)
  <2> DEFINE d == call[c].decision
             e == DecisionEntry(d, w)
  <2>1. /\ d \in Decisions
        /\ status[w] \in Accepts[d]
        /\ owner[w] \in Users
    BY <1>3, CallShape, AllowedIsAccepted DEF TransitionWithdrawal
  <2>2. /\ status' = [status EXCEPT ![w] = Writes[d]]
        /\ d = "approve" => balance' = balance
        /\ d # "approve" => AppendEntry(e)
        /\ UNCHANGED <<owner, amount>>
    BY <1>3 DEF TransitionWithdrawal
  <2>3. Stage[w] = StageOf(status[w]) /\ Stage' = [Stage EXCEPT ![w] = StageOf(Writes[d])]
    BY <2>1, <2>2 DEF Stage, TypeOK
  <2>4. e \in Entries /\ e.uid = owner[w]
    BY <2>1, DecisionEntryType
  <2>5. /\ d = "pay" => e.kind = "withdrawal_paid"
        /\ d \notin {"pay", "approve"} =>
             e.kind # "withdrawal_paid" /\ e.micros = amount[w]
    BY <2>1 DEF DecisionEntry, Decisions
  <2>6. balance \in [Users -> Balances]
    BY DEF TypeOK
  <2> HIDE DEF d, e
  <2>7. CASE d = "approve"
    <3>1. StageOf(Writes[d]) = "held" /\ Stage[w] = "held"
      BY <2>1, <2>3, <2>7 DEF StageOf, Accepts, Writes, InFlight
    <3>2. Stage' = Stage /\ Wallet' = Wallet
      BY <2>1, <2>2, <2>3, <2>7, <3>1 DEF Wallet, Stage
    <3> QED
      BY <2>2, <3>2 DEF Promise!vars, Wallet, Stage
  <2>8. CASE d = "pay"
    <3>1. StageOf(Writes[d]) = "sent" /\ Stage[w] = "held"
      BY <2>1, <2>3, <2>8 DEF StageOf, Accepts, Writes, InFlight
    <3>2. Wallet' = Wallet
      BY <2>2, <2>4, <2>5, <2>6, <2>8, WalletAfterAppend
    <3> QED
      BY <2>2, <2>3, <3>1, <3>2 DEF Promise!Send, Wallet, Stage
  <2>9. CASE d \notin {"approve", "pay"}
    <3>1. StageOf(Writes[d]) = "back" /\ Stage[w] \in {"held", "sent"}
      BY <2>1, <2>3, <2>9 DEF StageOf, Accepts, Writes, InFlight, Decisions
    <3>2. Wallet' = [Wallet EXCEPT ![owner[w]] = @ + amount[w]]
      BY <2>2, <2>4, <2>5, <2>6, <2>9, WalletAfterAppend
    <3> QED
      BY <2>2, <2>3, <3>1, <3>2 DEF Promise!PutBack, Wallet, Stage
  <2> QED
    BY <2>7, <2>8, <2>9
<1>4. ASSUME NEW e \in Entries, AppendEntry(e), UNCHANGED <<status, owner, amount>>
      PROVE  Promise!Change(e.uid)
  <2>1. \A u \in Users : balance'[u].available =
             IF u # e.uid \/ e.kind = "withdrawal_paid"
             THEN balance[u].available
             ELSE balance[u].available + e.micros
    BY <1>4, AvailableAfterAppend DEF TypeOK
  <2>2. \A u \in Users : balance[u].available \in Int
    BY DEF TypeOK, Balances
  <2>3. e.uid \in Users /\ e.micros \in Int
    BY DEF Entries
  <2>4. Wallet' \in [Users -> Int] /\ \A u \in Users \ {e.uid} : Wallet'[u] = Wallet[u]
    BY <2>1, <2>2, <2>3 DEF Wallet
  <2> QED
    BY <1>4, <2>4 DEF Promise!Change, Wallet, StageOf
<1>5. ASSUME NEW c \in Calls, NEW a \in AdjIds, AppendAdjustment(c, a)
      PROVE  \E u \in Users : Promise!Change(u)
  <2> DEFINE e == [id |-> <<a, "adjusted">>, uid |-> call[c].uid,
                   kind |-> "adjustment", micros |-> call[c].micros]
  <2>1. call[c].uid \in Users /\ call[c].micros \in Int
    BY <1>5, CallShape DEF AppendAdjustment
  <2>2. e \in Entries /\ e.uid \in Users
    BY <2>1 DEF Entries, EntryIds, IdSuffixes, Kinds
  <2>3. AppendEntry(e) /\ UNCHANGED <<status, owner, amount>>
    BY <1>5 DEF AppendAdjustment
  <2> HIDE DEF e
  <2> QED
    BY <1>4, <2>2, <2>3
<1>6. ASSUME NEW u \in Users, NEW r \in Receipts, NEW m \in Credits,
             SettleReceipt(u, r, m)
      PROVE  \E v \in Users : Promise!Change(v)
  <2> DEFINE e == [id |-> <<r, "earned">>, uid |-> u,
                   kind |-> "impression", micros |-> m]
  <2>1. e \in Entries /\ e.uid \in Users
    BY CreditsAssumption DEF Entries, EntryIds, IdSuffixes, Kinds
  <2>2. AppendEntry(e) /\ UNCHANGED <<status, owner, amount>>
    BY <1>6 DEF SettleReceipt
  <2> HIDE DEF e
  <2> QED
    BY <1>4, <2>1, <2>2
<1>7. \/ UNCHANGED <<balance, status, owner, amount>>
      \/ \E c \in Calls, w \in Wids : ReserveWithdrawal(c, w)
      \/ \E c \in Calls : TransitionWithdrawal(c)
      \/ \E c \in Calls, a \in AdjIds : AppendAdjustment(c, a)
      \/ \E u \in Users, r \in Receipts, m \in Credits : SettleReceipt(u, r, m)
  BY DEF vars, Next, Request, Decide, Adjust, ReadForRequest, RefuseReservation,
         ReadForDecision, RefuseTransition, ReadForAdjustment, WriteAudit, Crash
<1>8. ASSUME NEW c \in Calls, NEW w \in Wids, ReserveWithdrawal(c, w)
      PROVE  Promise!Next
  <2>1. call[c].uid \in Users
    BY <1>8, CallShape DEF ReserveWithdrawal
  <2> QED
    BY <1>2, <1>8, <2>1 DEF Promise!Next
<1>9. ASSUME NEW c \in Calls, TransitionWithdrawal(c)
      PROVE  Promise!Next \/ UNCHANGED Promise!vars
  <2>1. PICK w \in Wids : w = call[c].wid
    BY <1>9, CallShape DEF TransitionWithdrawal
  <2>2. Promise!Send(w) \/ Promise!PutBack(w) => Promise!Next
    BY DEF Promise!Next
  <2> QED
    BY <1>3, <1>9, <2>1, <2>2
<1> QED
  BY <1>1, <1>5, <1>6, <1>7, <1>8, <1>9 DEF Promise!Next

(* Payouts implements PayoutPromise: each sum a user asks for leaves their *)
(* wallet once, and is then sent, put back, or sent and put back.          *)
THEOREM PromiseKept == Spec => KeepsPromise
<1>1. Spec => []TypeInv
  BY TypeInit, TypeStep, PTL DEF Spec
<1>2. TypeInv /\ [Next]_vars => [Promise!Next]_(Promise!vars)
  BY PromiseStep
<1> QED
  BY <1>1, <1>2, PromiseInit, PTL DEF Spec, KeepsPromise, Promise!Spec
-----------------------------------------------------------------------------
(* The balance.  A cached balance is moved in the step that appends an     *)
(* entry, by what the entry is worth; that the entry is new, so that the   *)
(* fold moves as well, is what StoryInv and the guards on ids say.         *)

FoldInv == StoryInv /\ IsFiniteSet(entries) /\ BalanceIsFold

(* applyEntry moves a balance by what the entry frees, earns and holds.     *)
LEMMA ApplyEntryMoves ==
    ASSUME NEW b \in Balances, NEW e \in Entries
    PROVE  /\ ApplyEntry(b, e) = [available |-> b.available + Freed(e),
                                  lifetime |-> b.lifetime + Earned(e),
                                  pending |-> b.pending + Held(e)]
           /\ Freed(e) \in Int /\ Earned(e) \in Int /\ Held(e) \in Int
<1>1. /\ b.available \in Int /\ b.lifetime \in Int /\ b.pending \in Int
      /\ e.micros \in Int
  BY DEF Balances, Entries
<1>2. Freed(e) \in Int /\ Earned(e) \in Int /\ Held(e) \in Int
  BY <1>1 DEF Freed, Earned, Held
<1>3. /\ ApplyEntry(b, e).available = b.available + Freed(e)
      /\ ApplyEntry(b, e).lifetime = b.lifetime + Earned(e)
      /\ ApplyEntry(b, e).pending = b.pending + Held(e)
  BY <1>1 DEF ApplyEntry, Freed, Earned, Held
<1>4. ApplyEntry(b, e) = [available |-> ApplyEntry(b, e).available,
                          lifetime |-> ApplyEntry(b, e).lifetime,
                          pending |-> ApplyEntry(b, e).pending]
  BY DEF ApplyEntry
<1> QED
  BY <1>2, <1>3, <1>4

(* Appending a new entry moves the balance and the fold alike.              *)
LEMMA FoldAfterAppend ==
    ASSUME TypeOK, IsFiniteSet(entries), BalanceIsFold,
           NEW e \in Entries, e \notin entries, AppendEntry(e)
    PROVE  IsFiniteSet(entries') /\ BalanceIsFold'
<1>1. /\ balance \in [Users -> Balances] /\ entries \subseteq Entries
      /\ entries' = entries \cup {e}
      /\ balance' = [balance EXCEPT ![e.uid] = ApplyEntry(balance[e.uid], e)]
      /\ e.uid \in Users
  BY DEF TypeOK, AppendEntry, Entries
<1>2. IsFiniteSet(entries')
  BY <1>1, FS_AddElement
<1>3. SUFFICES ASSUME NEW u \in Users
               PROVE  balance'[u] =
                        [available |-> SumFunction([x \in Own(u)' |-> Freed(x)]),
                         lifetime |-> SumFunction([x \in Own(u)' |-> Earned(x)]),
                         pending |-> SumFunction([x \in Own(u)' |-> Held(x)])]
  BY <1>2 DEF BalanceIsFold
<1>4. balance[u] = [available |-> SumFunction([x \in Own(u) |-> Freed(x)]),
                    lifetime |-> SumFunction([x \in Own(u) |-> Earned(x)]),
                    pending |-> SumFunction([x \in Own(u) |-> Held(x)])]
  BY DEF BalanceIsFold
<1>5. CASE u # e.uid
  <2>1. Own(u)' = Own(u)
    BY <1>1, <1>5 DEF Own
  <2>2. balance'[u] = balance[u]
    BY <1>1, <1>5
  <2> QED
    BY <1>4, <2>1, <2>2
<1>6. CASE u = e.uid
  <2>1. Own(u)' = Own(u) \cup {e} /\ e \notin Own(u)
    BY <1>1, <1>6 DEF Own
  <2>2. IsFiniteSet(Own(u))
    BY FS_Subset DEF Own
  <2>3. \A x \in Own(u) \cup {e} :
           Freed(x) \in Int /\ Earned(x) \in Int /\ Held(x) \in Int
    BY <1>1 DEF Own, Entries, Freed, Earned, Held
  <2>4. balance[u] \in Balances
    BY <1>1
  <2>5. balance'[u] = [available |-> balance[u].available + Freed(e),
                       lifetime |-> balance[u].lifetime + Earned(e),
                       pending |-> balance[u].pending + Held(e)]
    BY <1>1, <1>6, <2>4, ApplyEntryMoves
  <2> DEFINE S == Own(u)
             R == Own(u) \cup {e}
  <2> HIDE DEF S, R
  <2>6. R = S \cup {e} /\ e \notin S /\ IsFiniteSet(S) /\ Own(u)' = R /\ Own(u) = S
    BY <2>1, <2>2 DEF S, R
  <2>7. SumFunction([x \in R |-> Freed(x)]) =
          SumFunction([x \in S |-> Freed(x)]) + Freed(e)
    <3> DEFINE f == [x \in S |-> Freed(x)]
               g == [x \in R |-> Freed(x)]
    <3>1. /\ DOMAIN f = S /\ DOMAIN g = S \cup {e}
          /\ \A x \in S : f[x] \in Int /\ g[x] = f[x]
          /\ g[e] \in Int /\ g[e] = Freed(e)
      BY <2>3, <2>6
    <3> HIDE DEF f, g
    <3> QED
      BY <2>6, <3>1, SumExtends DEF f, g
  <2>8. SumFunction([x \in R |-> Earned(x)]) =
          SumFunction([x \in S |-> Earned(x)]) + Earned(e)
    <3> DEFINE f == [x \in S |-> Earned(x)]
               g == [x \in R |-> Earned(x)]
    <3>1. /\ DOMAIN f = S /\ DOMAIN g = S \cup {e}
          /\ \A x \in S : f[x] \in Int /\ g[x] = f[x]
          /\ g[e] \in Int /\ g[e] = Earned(e)
      BY <2>3, <2>6
    <3> HIDE DEF f, g
    <3> QED
      BY <2>6, <3>1, SumExtends DEF f, g
  <2>9. SumFunction([x \in R |-> Held(x)]) =
          SumFunction([x \in S |-> Held(x)]) + Held(e)
    <3> DEFINE f == [x \in S |-> Held(x)]
               g == [x \in R |-> Held(x)]
    <3>1. /\ DOMAIN f = S /\ DOMAIN g = S \cup {e}
          /\ \A x \in S : f[x] \in Int /\ g[x] = f[x]
          /\ g[e] \in Int /\ g[e] = Held(e)
      BY <2>3, <2>6
    <3> HIDE DEF f, g
    <3> QED
      BY <2>6, <3>1, SumExtends DEF f, g
  <2>10. /\ balance[u].available = SumFunction([x \in S |-> Freed(x)])
         /\ balance[u].lifetime = SumFunction([x \in S |-> Earned(x)])
         /\ balance[u].pending = SumFunction([x \in S |-> Held(x)])
    BY <1>4, <2>6
  <2> QED
    BY <2>5, <2>6, <2>7, <2>8, <2>9, <2>10
<1> QED
  BY <1>5, <1>6

LEMMA FoldInit == Init => FoldInv
<1> SUFFICES ASSUME Init PROVE FoldInv
  OBVIOUS
<1>1. \A u \in Users : Own(u) = {}
  BY DEF Init, Own
<1>2. ASSUME NEW f, DOMAIN f = {}
      PROVE  SumFunction(f) = 0
  BY <1>2, SumEmpty DEF SumFunction
<1>3. BalanceIsFold
  <2>1. SUFFICES ASSUME NEW u \in Users
                 PROVE  balance[u] =
                          [available |-> SumFunction([x \in Own(u) |-> Freed(x)]),
                           lifetime |-> SumFunction([x \in Own(u) |-> Earned(x)]),
                           pending |-> SumFunction([x \in Own(u) |-> Held(x)])]
    BY DEF BalanceIsFold
  <2>2. /\ SumFunction([x \in Own(u) |-> Freed(x)]) = 0
        /\ SumFunction([x \in Own(u) |-> Earned(x)]) = 0
        /\ SumFunction([x \in Own(u) |-> Held(x)]) = 0
    BY <1>1, <1>2
  <2> QED
    BY <2>2 DEF Init, EMPTY_BALANCE
<1> QED
  BY <1>3, StoryInit, FS_EmptySet DEF FoldInv, Init

LEMMA FoldStep ==
    ASSUME FoldInv, [Next]_vars
    PROVE  FoldInv'
<1> USE DEF FoldInv
<1>0. StoryInv' /\ TypeInv /\ TypeOK
  BY StoryStep DEF StoryInv, TypeInv
<1>1. CASE UNCHANGED <<balance, entries>>
  <2>1. BalanceIsFold'
    BY <1>1 DEF BalanceIsFold, Own
  <2> QED
    BY <1>0, <1>1, <2>1
<1>2. ASSUME NEW e \in Entries, AppendEntry(e), ~ IdUsed(e.id)
      PROVE  FoldInv'
  <2>1. e \notin entries
    BY <1>2 DEF IdUsed
  <2> QED
    BY <1>0, <1>2, <2>1, FoldAfterAppend
<1>3. ASSUME NEW c \in Calls, NEW w \in Wids, ReserveWithdrawal(c, w)
      PROVE  FoldInv'
  <2> DEFINE e == [id |-> <<w, "requested">>, uid |-> call[c].uid,
                   kind |-> "withdrawal_requested", micros |-> - call[c].micros]
  <2>1. call[c].uid \in Users /\ call[c].micros \in Nat
    BY <1>0, <1>3, CallShape DEF ReserveWithdrawal
  <2>2. e \in Entries /\ e.id = <<w, "requested">>
    BY <2>1 DEF Entries, EntryIds, IdSuffixes, Chapters, Kinds
  <2>3. AppendEntry(e) /\ status[w] = "none"
    BY <1>3 DEF ReserveWithdrawal
  <2>4. Told(w, "requested") = {}
    BY <2>3 DEF StoryInv, LedgerTellsTheStory, TellsOf, StoryOf, InFlight, Chapters
  <2> HIDE DEF e
  <2>5. ~ IdUsed(e.id)
    BY <2>2, <2>4 DEF Told, IdUsed
  <2> QED
    BY <1>2, <2>2, <2>3, <2>5
<1>4. ASSUME NEW c \in Calls, TransitionWithdrawal(c), ~ UNCHANGED <<balance, entries>>
      PROVE  FoldInv'
  <2> DEFINE d == call[c].decision
             w == call[c].wid
  <2>1. /\ d \in Decisions /\ w \in Wids /\ owner[w] \in Users
    BY <1>0, <1>4, CallShape, AllowedIsAccepted DEF TransitionWithdrawal
  <2>2. /\ AppendEntry(DecisionEntry(d, w))
        /\ ~ IdUsed(DecisionEntry(d, w).id)
    BY <1>4 DEF TransitionWithdrawal, TransitionAllowed
  <2>3. DecisionEntry(d, w) \in Entries
    BY <1>0, <2>1, DecisionEntryType
  <2> QED
    BY <1>2, <2>2, <2>3
<1>5. ASSUME NEW c \in Calls, NEW a \in AdjIds, AppendAdjustment(c, a)
      PROVE  FoldInv'
  <2> DEFINE e == [id |-> <<a, "adjusted">>, uid |-> call[c].uid,
                   kind |-> "adjustment", micros |-> call[c].micros]
  <2>1. call[c].uid \in Users /\ call[c].micros \in Int
    BY <1>0, <1>5, CallShape DEF AppendAdjustment
  <2>2. e \in Entries /\ e.id = <<a, "adjusted">>
    BY <2>1 DEF Entries, EntryIds, IdSuffixes, Kinds
  <2>3. AppendEntry(e) /\ ~ IdUsed(<<a, "adjusted">>)
    BY <1>5 DEF AppendAdjustment
  <2> HIDE DEF e
  <2> QED
    BY <1>2, <2>2, <2>3
<1>6. ASSUME NEW u \in Users, NEW r \in Receipts, NEW m \in Credits,
             SettleReceipt(u, r, m)
      PROVE  FoldInv'
  <2> DEFINE e == [id |-> <<r, "earned">>, uid |-> u,
                   kind |-> "impression", micros |-> m]
  <2>1. e \in Entries /\ e.id = <<r, "earned">>
    BY CreditsAssumption DEF Entries, EntryIds, IdSuffixes, Kinds
  <2>2. AppendEntry(e) /\ ~ IdUsed(<<r, "earned">>)
    BY <1>6 DEF SettleReceipt
  <2> HIDE DEF e
  <2> QED
    BY <1>2, <2>1, <2>2
<1>7. \/ UNCHANGED <<balance, entries>>
      \/ \E c \in Calls, w \in Wids : ReserveWithdrawal(c, w)
      \/ \E c \in Calls : TransitionWithdrawal(c) /\ ~ UNCHANGED <<balance, entries>>
      \/ \E c \in Calls, a \in AdjIds : AppendAdjustment(c, a)
      \/ \E u \in Users, r \in Receipts, m \in Credits : SettleReceipt(u, r, m)
  BY DEF vars, Next, Request, Decide, Adjust, ReadForRequest, RefuseReservation,
         ReadForDecision, RefuseTransition, ReadForAdjustment, WriteAudit, Crash
<1> QED
  BY <1>1, <1>3, <1>4, <1>5, <1>6, <1>7

(* However requests, decisions, corrections and receipts interleave, and   *)
(* wherever a handler dies, the cached balance is the fold of the ledger.  *)
THEOREM BalanceFollowsLedger == Spec => []BalanceIsFold
<1>1. FoldInv => BalanceIsFold
  BY DEF FoldInv
<1> QED
  BY <1>1, FoldInit, FoldStep, PTL DEF Spec

-----------------------------------------------------------------------------
(* ReceiptDelivery.  What an acknowledgement leaves in the queue is proved *)
(* by induction on the queue, in the form that a set of numbers has a      *)
(* smallest one.                                                           *)

(* The entries of the queue up to each one that are not in the batch.        *)
Kept(q, batch, n, g) ==
    g = [i \in 0 .. n |->
            IF i = 0 THEN <<>>
            ELSE IF q[i] \in batch THEN g[i - 1] ELSE Append(g[i - 1], q[i])]

(* There are such sequences.                                                *)
LEMMA KeptExists ==
    ASSUME NEW q, NEW batch, NEW N \in Nat
    PROVE  \E g : Kept(q, batch, N, g)
<1> DEFINE T == {n \in Nat : ~ \E g : Kept(q, batch, n, g)}
<1>1. SUFFICES ASSUME T # {} PROVE FALSE
  OBVIOUS
<1>2. PICK n \in T : \A m \in T : n <= m
  <2>1. T \subseteq Nat
    OBVIOUS
  <2> HIDE DEF T
  <2> QED
    BY <1>1, <2>1, SmallestNumber
<1>3. n # 0
  <2> DEFINE g == [i \in 0 .. 0 |-> <<>>]
  <2>1. Kept(q, batch, 0, g)
    BY DEF Kept
  <2> HIDE DEF g
  <2> QED
    BY <2>1
<1>4. PICK g : Kept(q, batch, n - 1, g)
  <2>1. n - 1 \in Nat /\ ~(n <= n - 1)
    BY <1>3
  <2> QED
    BY <1>2, <2>1
<1> DEFINE last == IF q[n] \in batch THEN g[n - 1] ELSE Append(g[n - 1], q[n])
           h == [i \in 0 .. n |-> IF i = n THEN last ELSE g[i]]
<1>5. Kept(q, batch, n, h)
  <2>1. \A i \in 0 .. n : h[i] = IF i = n THEN last ELSE g[i]
    OBVIOUS
  <2>2. \A i \in 0 .. n - 1 : g[i] =
            IF i = 0 THEN <<>>
            ELSE IF q[i] \in batch THEN g[i - 1] ELSE Append(g[i - 1], q[i])
    BY <1>4 DEF Kept
  <2>3. \A i \in 0 .. n : h[i] =
            IF i = 0 THEN <<>>
            ELSE IF q[i] \in batch THEN h[i - 1] ELSE Append(h[i - 1], q[i])
    <3> TAKE i \in 0 .. n
    <3>1. CASE i = n
      <4>1. h[n - 1] = g[n - 1] /\ h[n] = last
        BY <1>3, <2>1
      <4> HIDE DEF h
      <4> QED
        BY <1>3, <3>1, <4>1
    <3>2. CASE i # n
      <4>1. h[i] = g[i] /\ (i # 0 => h[i - 1] = g[i - 1])
        BY <2>1, <3>2
      <4> HIDE DEF h, last
      <4> QED
        BY <2>2, <3>2, <4>1
    <3> QED
      BY <3>1, <3>2
  <2>4. h = [i \in 0 .. n |-> h[i]]
    OBVIOUS
  <2> HIDE DEF h
  <2> QED
    BY <2>3, <2>4 DEF Kept
<1> HIDE DEF h
<1> QED
  BY <1>5

(* What a flush leaves in the queue is, in the same order, what was not in *)
(* the batch: a queue again.                                               *)
LEMMA AckedKeepsTheRest ==
    ASSUME NEW S, NEW q \in Seq(S), IsInjective(q), NEW batch
    PROVE  /\ Acked(q, batch) \in Seq(S)
           /\ Len(Acked(q, batch)) <= Len(q)
           /\ IsInjective(Acked(q, batch))
           /\ ToSet(Acked(q, batch)) = ToSet(q) \ batch
<1> DEFINE N == Len(q)
           g == CHOOSE g : Kept(q, batch, N, g)
           Right(i) == /\ g[i] \in Seq(S) /\ Len(g[i]) <= i
                       /\ \A a, b \in 1 .. Len(g[i]) : g[i][a] = g[i][b] => a = b
                       /\ \A r : (\E a \in 1 .. Len(g[i]) : g[i][a] = r)
                                   <=> r \notin batch /\ \E a \in 1 .. i : q[a] = r
           T == {i \in 0 .. N : ~Right(i)}
<1>1. N \in Nat
  OBVIOUS
<1>2. Kept(q, batch, N, g)
  BY <1>1, KeptExists
<1>3. Acked(q, batch) = g[N]
  BY DEF Acked, Kept
<1> HIDE DEF g, N
<1>4. ASSUME NEW i \in 0 .. N
      PROVE  g[i] = IF i = 0 THEN <<>>
                    ELSE IF q[i] \in batch THEN g[i - 1] ELSE Append(g[i - 1], q[i])
  BY <1>2 DEF Kept
<1>5. \A i \in 0 .. N : Right(i)
  <2>1. SUFFICES ASSUME T # {} PROVE FALSE
    OBVIOUS
  <2>2. PICK n \in T : \A m \in T : n <= m
    <3>1. T \subseteq Nat
      BY <1>1
    <3> HIDE DEF T
    <3> QED
      BY <2>1, <3>1, SmallestNumber
  <2>3. n \in 0 .. N /\ ~Right(n)
    OBVIOUS
  <2>4. n # 0
    <3>0. 0 \in 0 .. N
      BY <1>1
    <3>1. g[0] = <<>>
      BY <1>4, <3>0
    <3>2. Right(0)
      BY <3>1
    <3> QED
      BY <2>3, <3>2
  <2>5. Right(n - 1)
    <3>1. n - 1 \in 0 .. N /\ ~(n <= n - 1)
      BY <1>1, <2>3, <2>4
    <3> QED
      BY <2>2, <3>1
  <2> DEFINE p == g[n - 1]
  <2>6. g[n] = IF q[n] \in batch THEN p ELSE Append(p, q[n])
    BY <1>4, <2>3, <2>4
  <2>7. /\ p \in Seq(S) /\ Len(p) <= n - 1
        /\ \A a, b \in 1 .. Len(p) : p[a] = p[b] => a = b
        /\ \A r : (\E a \in 1 .. Len(p) : p[a] = r)
                    <=> r \notin batch /\ \E a \in 1 .. n - 1 : q[a] = r
    BY <2>5
  <2> HIDE DEF p, Right, T
  <2>8. q[n] \in S /\ n \in 1 .. Len(q)
    BY <1>1, <2>3, <2>4 DEF N
  <2>9. \A r : (\E a \in 1 .. n : q[a] = r) <=> q[n] = r \/ \E a \in 1 .. n - 1 : q[a] = r
    BY <2>8
  <2>10. CASE q[n] \in batch
    <3>1. g[n] = p
      BY <2>6, <2>10
    <3> QED
      <4>1. g[n] \in Seq(S) /\ Len(g[n]) <= n
        BY <2>7, <2>8, <3>1
      <4>2. \A r : (\E a \in 1 .. Len(g[n]) : g[n][a] = r)
                      <=> r \notin batch /\ \E a \in 1 .. n : q[a] = r
        BY <2>7, <2>9, <2>10, <3>1
      <4> QED
        BY <2>3, <2>7, <3>1, <4>1, <4>2 DEF Right
  <2>11. CASE q[n] \notin batch
    <3>1. g[n] = Append(p, q[n])
      BY <2>6, <2>11
    <3>2. /\ g[n] \in Seq(S) /\ Len(g[n]) = Len(p) + 1
          /\ \A a \in 1 .. Len(p) : g[n][a] = p[a]
          /\ g[n][Len(p) + 1] = q[n]
      BY <2>7, <2>8, <3>1
    <3>3. Len(g[n]) <= n
      BY <2>7, <2>8, <3>2
    <3>4. ~ \E a \in 1 .. Len(p) : p[a] = q[n]
      <4>1. ~ \E a \in 1 .. n - 1 : q[a] = q[n]
        BY <2>8 DEF IsInjective
      <4> QED
        BY <2>7, <4>1
    <3>5. \A a, b \in 1 .. Len(g[n]) : g[n][a] = g[n][b] => a = b
      BY <2>7, <3>2, <3>4
    <3>6. \A r : (\E a \in 1 .. Len(g[n]) : g[n][a] = r)
                    <=> r = q[n] \/ \E a \in 1 .. Len(p) : p[a] = r
      <4>1. Len(p) \in Nat
        BY <2>7
      <4>2. \A a \in 1 .. Len(g[n]) : a \in 1 .. Len(p) \/ a = Len(p) + 1
        BY <3>2, <4>1
      <4>3. Len(p) + 1 \in 1 .. Len(g[n]) /\ 1 .. Len(p) \subseteq 1 .. Len(g[n])
        BY <3>2, <4>1
      <4> QED
        BY <3>2, <4>2, <4>3
    <3>7. \A r : (\E a \in 1 .. Len(g[n]) : g[n][a] = r)
                    <=> r \notin batch /\ \E a \in 1 .. n : q[a] = r
      BY <2>7, <2>9, <2>11, <3>6
    <3> QED
      BY <2>3, <3>2, <3>3, <3>5, <3>7 DEF Right
  <2> QED
    BY <2>10, <2>11
<1>6. Right(N)
  <2> HIDE DEF Right
  <2> QED
    BY <1>1, <1>5
<1>7. ToSet(g[N]) = ToSet(q) \ batch
  <2>1. DOMAIN g[N] = 1 .. Len(g[N]) /\ DOMAIN q = 1 .. N
    BY <1>6 DEF N
  <2>2. \A r : r \in ToSet(g[N]) <=> \E a \in 1 .. Len(g[N]) : g[N][a] = r
    BY <2>1 DEF ToSet
  <2>3. \A r : r \in ToSet(q) <=> \E a \in 1 .. N : q[a] = r
    BY <2>1 DEF ToSet
  <2>4. \A r : (\E a \in 1 .. Len(g[N]) : g[N][a] = r)
                    <=> r \notin batch /\ \E a \in 1 .. N : q[a] = r
    BY <1>6
  <2> QED
    BY <2>2, <2>3, <2>4
<1> QED
  BY <1>3, <1>6, <1>7 DEF IsInjective, N

(* The contents of a queue and of its file are sequences with no receipt twice.*)
LEMMA InContents ==
    ASSUME NEW q
    PROVE  q \in Contents <=> q \in Seq(ReceiptIds) /\ Len(q) <= Cap /\ IsInjective(q)
<1>1. q \in SeqOf(ReceiptIds, Cap) <=> \E m \in 0 .. Cap : q \in [1 .. m -> ReceiptIds]
  BY DEF SeqOf
<1>2. ASSUME NEW m \in 0 .. Cap, q \in [1 .. m -> ReceiptIds]
      PROVE  q \in Seq(ReceiptIds) /\ Len(q) <= Cap
  BY <1>2, CapAssumption
<1>3. ASSUME q \in Seq(ReceiptIds), Len(q) <= Cap
      PROVE  Len(q) \in 0 .. Cap /\ q \in [1 .. Len(q) -> ReceiptIds]
  BY <1>3, CapAssumption
<1> QED
  BY <1>1, <1>2, <1>3 DEF Contents

(* The receipts of a queue are its entries.                                  *)
LEMMA SetOfSeq ==
    ASSUME NEW q \in Seq(ReceiptIds), NEW r
    PROVE  r \in ToSet(q) <=> \E i \in 1 .. Len(q) : q[i] = r
  BY DEF ToSet

(* The queue and its file start empty.                                      *)
LEMMA EmptyQueue == <<>> \in Contents /\ ToSet(<<>>) = {}
<1>1. <<>> \in Seq(ReceiptIds) /\ Len(<<>>) = 0
  OBVIOUS
<1> QED
  <2>1. DOMAIN <<>> = {}
    OBVIOUS
  <2>2. IsInjective(<<>>) /\ ToSet(<<>>) = {}
    BY <2>1 DEF IsInjective, ToSet
  <2>3. PICK e : e = <<>>
    OBVIOUS
  <2>4. e \in Seq(ReceiptIds) /\ Len(e) = 0 /\ IsInjective(e)
    BY <1>1, <2>2, <2>3
  <2>5. e \in Contents
    <3>1. Len(e) <= Cap
      BY <2>4, CapAssumption
    <3> QED
      BY <2>4, <3>1, InContents
  <2> QED
    BY <2>2, <2>3, <2>5

(* An entry that joins pushes out at most the oldest, and only at the cap.    *)
LEMMA CappedKeepsTheRest ==
    ASSUME NEW q \in Contents, NEW r \in ReceiptIds, r \notin ToSet(q)
    PROVE  /\ Capped(Append(q, r)) \in Contents
           /\ ToSet(Capped(Append(q, r))) \subseteq ToSet(q) \cup {r}
           /\ \A x \in ToSet(q) \ ToSet(Capped(Append(q, r))) :
                 Len(q) = Cap /\ x = Head(q)
<1> DEFINE p == Append(q, r)
           c == Capped(p)
<1>1. q \in Seq(ReceiptIds) /\ Len(q) <= Cap /\ IsInjective(q) /\ Len(q) \in Nat
  BY InContents
<1>2. /\ p \in Seq(ReceiptIds) /\ Len(p) = Len(q) + 1
      /\ \A i \in 1 .. Len(q) : p[i] = q[i]
      /\ p[Len(q) + 1] = r
  BY <1>1
<1>3. \A i \in 1 .. Len(q) : q[i] # r
  BY <1>1, SetOfSeq
<1> HIDE DEF p
<1>4. \A i, j \in 1 .. Len(p) : p[i] = p[j] => i = j
  <2>1. \A i \in 1 .. Len(p) : i \in 1 .. Len(q) \/ i = Len(q) + 1
    BY <1>1, <1>2
  <2>2. \A i, j \in 1 .. Len(q) : q[i] = q[j] => i = j
    BY <1>1 DEF IsInjective
  <2> QED
    BY <1>2, <1>3, <2>1, <2>2
<1>5. CASE Len(p) <= Cap
  <2>1. c = p
    BY <1>1, <1>2, <1>5, CapAssumption DEF Capped
  <2>2. p \in Contents
    BY <1>2, <1>4, <1>5, InContents DEF IsInjective
  <2>3. \A x : x \in ToSet(p) <=> x \in ToSet(q) \/ x = r
    <3>1. \A i \in 1 .. Len(p) : i \in 1 .. Len(q) \/ i = Len(q) + 1
      BY <1>1, <1>2
    <3>2. 1 .. Len(q) \subseteq 1 .. Len(p) /\ Len(q) + 1 \in 1 .. Len(p)
      BY <1>1, <1>2
    <3> QED
      BY <1>1, <1>2, <3>1, <3>2, SetOfSeq
  <2> QED
    BY <2>1, <2>2, <2>3 DEF p
<1>6. CASE ~(Len(p) <= Cap)
  <2>1. Len(q) = Cap /\ Len(p) = Cap + 1 /\ Cap \in Nat /\ Cap >= 1
    BY <1>1, <1>2, <1>6, CapAssumption
  <2>2. c = SubSeq(p, 2, Cap + 1)
    BY <2>1 DEF Capped
  <2>3. /\ c \in Seq(ReceiptIds) /\ Len(c) = Cap
        /\ \A i \in 1 .. Cap : c[i] = p[i + 1]
    BY <1>2, <2>1, <2>2
  <2> HIDE DEF c
  <2>4. c \in Contents
    <3>1. \A i, j \in 1 .. Cap : c[i] = c[j] => i = j
      BY <1>4, <2>1, <2>3
    <3> QED
      BY <2>1, <2>3, <3>1, InContents DEF IsInjective
  <2>5. ToSet(c) \subseteq ToSet(q) \cup {r}
    <3> SUFFICES ASSUME NEW x \in ToSet(c), x # r PROVE x \in ToSet(q)
      OBVIOUS
    <3>1. PICK i \in 1 .. Cap : p[i + 1] = x
      BY <2>3, SetOfSeq
    <3>2. i + 1 \in 1 .. Len(q)
      BY <1>2, <2>1, <3>1
    <3> QED
      BY <1>1, <1>2, <3>1, <3>2, SetOfSeq
  <2>6. ASSUME NEW x \in ToSet(q), x \notin ToSet(c) PROVE x = Head(q)
    <3>1. PICK i \in 1 .. Len(q) : q[i] = x
      BY <1>1, SetOfSeq
    <3>2. i = 1
      <4>1. ~(i - 1 \in 1 .. Cap)
        <5> SUFFICES ASSUME i - 1 \in 1 .. Cap PROVE FALSE
          OBVIOUS
        <5>1. c[i - 1] = x
          BY <1>2, <2>3, <3>1
        <5> QED
          BY <2>3, <2>6, <5>1, SetOfSeq
      <4> QED
        BY <2>1, <3>1, <4>1
    <3> QED
      BY <1>1, <2>1, <3>1, <3>2
  <2> QED
    BY <2>1, <2>4, <2>5, <2>6 DEF c, p
<1> QED
  BY <1>5, <1>6

-----------------------------------------------------------------------------
(* The editor has only receipts that it issued, and no queue while it is not *)
(* running.                                                                  *)
Known ==
    /\ ToSet(queue) \subseteq shown
    /\ \A q \in writing : ToSet(q) \subseteq shown
    /\ disk # Torn => ToSet(disk) \subseteq shown
    /\ ~ running => queue = <<>>

DeliveryInv == DeliveryTypeOK /\ Known /\ PaidAtMostOnce

(* An editor that has issued nothing has nothing.                            *)
LEMMA DeliveryInvInit == DeliveryInit => DeliveryInv
<1> SUFFICES ASSUME DeliveryInit PROVE DeliveryInv
  OBVIOUS
<1>1. post \in [Flushes -> [batch : SUBSET ReceiptIds, arrived : BOOLEAN]]
  BY DEF DeliveryInit, NoPost
<1>2. crashes \in 0 .. MaxCrashes
  BY CrashesAssumption DEF DeliveryInit
<1>3. paid \in [ReceiptIds -> Nat] /\ PaidAtMostOnce
  BY DEF DeliveryInit, PaidAtMostOnce
<1> QED
  BY <1>1, <1>2, <1>3, EmptyQueue DEF DeliveryInit, DeliveryInv, DeliveryTypeOK, Known

(* An answer takes what the batch held from the queue, no more.              *)
LEMMA ReplyStores ==
    ASSUME DeliveryInv, NEW f \in Flushes, Reply(f)
    PROVE  /\ queue' \in Contents
           /\ ToSet(queue') \subseteq ToSet(queue)
           /\ \A r \in ToSet(queue) \ ToSet(queue') : r \in answered
           /\ writing' \subseteq writing \cup {queue'}
<1> DEFINE left == Acked(queue, post[f].batch)
<1>1. queue \in Seq(ReceiptIds) /\ IsInjective(queue) /\ Len(queue) <= Cap
  BY InContents DEF DeliveryInv, DeliveryTypeOK
<1>2. /\ left \in Seq(ReceiptIds) /\ Len(left) <= Len(queue) /\ IsInjective(left)
      /\ ToSet(left) = ToSet(queue) \ post[f].batch
  BY <1>1, AckedKeepsTheRest
<1>3. \/ queue' = left /\ writing' = writing \cup {left}
      \/ queue' = queue /\ writing' = writing
  BY DEF Reply, Store
<1>4. post[f].batch \subseteq answered
  BY DEF Reply, Answerable
<1> HIDE DEF left
<1>5. left \in Contents
  <2>1. Len(left) <= Cap
    BY <1>1, <1>2, CapAssumption
  <2> QED
    BY <1>2, <2>1, InContents
<1> QED
  BY <1>2, <1>3, <1>4, <1>5 DEF DeliveryInv, DeliveryTypeOK

(* Every step keeps the types, the knowledge and the single payment.         *)
LEMMA DeliveryInvStep == DeliveryInv /\ [DeliveryNext]_deliveryVars => DeliveryInv'
<1> SUFFICES ASSUME DeliveryInv, [DeliveryNext]_deliveryVars PROVE DeliveryInv'
  OBVIOUS
<1> USE DEF client, server
<1>1. /\ DeliveryTypeOK /\ Known /\ PaidAtMostOnce
  BY DEF DeliveryInv
<1>2. CASE UNCHANGED deliveryVars
  BY <1>1, <1>2 DEF deliveryVars, DeliveryInv, DeliveryTypeOK, Known, PaidAtMostOnce
<1>3. ASSUME NEW r \in ReceiptIds, Enqueue(r) PROVE DeliveryInv'
  <2>1. /\ shown' = shown \cup {r} /\ r \notin shown
        /\ queue' = Capped(Append(queue, r)) /\ writing' = writing \cup {queue'}
        /\ UNCHANGED <<running, disk, post, crashes, server>> /\ running
    BY <1>3 DEF Enqueue, Store
  <2>2. queue' \in Contents /\ ToSet(queue') \subseteq ToSet(queue) \cup {r}
    BY <1>1, <2>1, CappedKeepsTheRest DEF DeliveryTypeOK, Known
  <2>3. DeliveryTypeOK'
    BY <1>1, <2>1, <2>2 DEF DeliveryTypeOK
  <2>4. Known'
    BY <1>1, <2>1, <2>2 DEF Known
  <2> QED
    BY <1>1, <2>1, <2>3, <2>4 DEF DeliveryInv, PaidAtMostOnce
<1>4. ASSUME NEW q \in writing, FinishWrite(q) PROVE DeliveryInv'
  <2>1. DeliveryTypeOK'
    BY <1>1, <1>4 DEF FinishWrite, DeliveryTypeOK
  <2>2. Known'
    BY <1>1, <1>4 DEF FinishWrite, Known
  <2> QED
    BY <1>1, <1>4, <2>1, <2>2 DEF FinishWrite, DeliveryInv, PaidAtMostOnce
<1>5. ASSUME NEW f \in Flushes, StartFlush(f) PROVE DeliveryInv'
  <2>1. post' = [post EXCEPT ![f] = [batch |-> ToSet(queue), arrived |-> FALSE]]
    BY <1>5 DEF StartFlush
  <2>2. ToSet(queue) \subseteq ReceiptIds
    BY <1>1, InContents, SetOfSeq DEF DeliveryTypeOK
  <2>3. DeliveryTypeOK'
    BY <1>1, <1>5, <2>1, <2>2 DEF StartFlush, DeliveryTypeOK
  <2> QED
    BY <1>1, <1>5, <2>3 DEF StartFlush, DeliveryInv, Known, PaidAtMostOnce
<1>6. ASSUME NEW f \in Flushes, Arrive(f) PROVE DeliveryInv'
  <2>1. post[f] \in [batch : SUBSET ReceiptIds, arrived : BOOLEAN]
    BY <1>1 DEF DeliveryTypeOK
  <2>2. post' = [post EXCEPT ![f] = [post[f] EXCEPT !.arrived = TRUE]]
    BY <1>6 DEF Arrive
  <2>3. inbox' = inbox \cup post[f].batch
    BY <1>6 DEF Arrive
  <2>4. DeliveryTypeOK'
    BY <1>1, <1>6, <2>1, <2>2, <2>3 DEF Arrive, DeliveryTypeOK
  <2> QED
    BY <1>1, <1>6, <2>4 DEF Arrive, DeliveryInv, Known, PaidAtMostOnce
<1>7. ASSUME NEW f \in Flushes, GiveUp(f) PROVE DeliveryInv'
  <2>1. NoPost \in [batch : SUBSET ReceiptIds, arrived : BOOLEAN]
    BY DEF NoPost
  <2>2. DeliveryTypeOK'
    BY <1>1, <1>7, <2>1 DEF GiveUp, DeliveryTypeOK
  <2> QED
    BY <1>1, <1>7, <2>2 DEF GiveUp, DeliveryInv, Known, PaidAtMostOnce
<1>8. ASSUME NEW f \in Flushes, Reply(f) PROVE DeliveryInv'
  <2>1. /\ queue' \in Contents /\ ToSet(queue') \subseteq ToSet(queue)
        /\ writing' \subseteq writing \cup {queue'}
    BY <1>8, ReplyStores
  <2>2. /\ post' = [post EXCEPT ![f] = NoPost]
        /\ UNCHANGED <<shown, running, disk, crashes, server>>
    BY <1>8 DEF Reply
  <2>3. NoPost \in [batch : SUBSET ReceiptIds, arrived : BOOLEAN]
    BY DEF NoPost
  <2>4. DeliveryTypeOK'
    BY <1>1, <2>1, <2>2, <2>3 DEF DeliveryTypeOK
  <2>5. Known'
    <3>1. ~ running => queue' = <<>>
      <4> SUFFICES ASSUME ~ running PROVE queue' = <<>>
        OBVIOUS
      <4>1. ToSet(queue') = {}
        BY <1>1, <2>1, EmptyQueue DEF Known
      <4>2. queue' \in Seq(ReceiptIds) /\ Len(queue') \in Nat
        BY <2>1, InContents
      <4>3. Len(queue') = 0
        <5> SUFFICES ASSUME Len(queue') # 0 PROVE FALSE
          OBVIOUS
        <5>1. 1 \in 1 .. Len(queue')
          BY <4>2
        <5> QED
          BY <4>1, <4>2, <5>1, SetOfSeq
      <4> QED
        BY <4>2, <4>3
    <3> QED
      BY <1>1, <2>1, <2>2, <3>1 DEF Known
  <2> QED
    BY <1>1, <2>2, <2>4, <2>5 DEF DeliveryInv, PaidAtMostOnce
<1>9. CASE EditorDies
  <2>1. /\ running' = FALSE /\ queue' = <<>> /\ writing' = {}
        /\ post' = [f \in Flushes |-> NoPost] /\ UNCHANGED <<shown, server>>
        /\ crashes < MaxCrashes /\ crashes' = crashes + 1
        /\ disk' \in writing \cup {disk, Torn}
    BY <1>9 DEF EditorDies
  <2>2. NoPost \in [batch : SUBSET ReceiptIds, arrived : BOOLEAN]
    BY DEF NoPost
  <2>3. crashes' \in 0 .. MaxCrashes
    BY <1>1, <2>1, CrashesAssumption DEF DeliveryTypeOK
  <2>4. DeliveryTypeOK'
    BY <1>1, <2>1, <2>2, <2>3, EmptyQueue DEF DeliveryTypeOK
  <2>5. Known'
    BY <1>1, <2>1, EmptyQueue DEF Known
  <2> QED
    BY <1>1, <2>1, <2>4, <2>5 DEF DeliveryInv, PaidAtMostOnce
<1>10. CASE Restart
  <2>1. /\ running' = TRUE /\ UNCHANGED <<shown, disk, writing, post, crashes, server>>
        /\ queue' = IF disk = Torn THEN <<>> ELSE disk
    BY <1>10 DEF Restart
  <2>2. queue' \in Contents /\ ToSet(queue') \subseteq shown
    BY <1>1, <2>1, EmptyQueue DEF DeliveryTypeOK, Known
  <2> QED
    BY <1>1, <2>1, <2>2 DEF DeliveryInv, DeliveryTypeOK, Known, PaidAtMostOnce
<1>11. ASSUME NEW r \in ReceiptIds, HandleReceipt(r) PROVE DeliveryInv'
  <2>1. paid' = paid \/ (paid[r] = 0 /\ paid' = [paid EXCEPT ![r] = 1])
    BY <1>11 DEF HandleReceipt, Settle
  <2>2. paid' \in [ReceiptIds -> Nat] /\ PaidAtMostOnce'
    BY <1>1, <2>1 DEF DeliveryTypeOK, PaidAtMostOnce
  <2> QED
    BY <1>1, <1>11, <2>2 DEF HandleReceipt, DeliveryInv, DeliveryTypeOK, Known
<1> QED
  BY <1>2, <1>3, <1>4, <1>5, <1>6, <1>7, <1>8, <1>9, <1>10, <1>11 DEF DeliveryNext

(* Every variable holds what its declaration says; the queue never exceeds *)
(* RECEIPT_QUEUE_CAP and never holds a receipt twice (receiptQueue.ts).    *)
THEOREM DeliveryTypeCorrect == DeliverySafeSpec => []DeliveryTypeOK
<1>1. DeliveryInv => DeliveryTypeOK
  BY DEF DeliveryInv
<1> QED
  BY <1>1, DeliveryInvInit, DeliveryInvStep, PTL DEF DeliverySafeSpec

(* A view is credited once, however often its receipt is posted, by whichever *)
(* flushes, and whatever an old file brings back after a restart              *)
(* (settleReceipt).                                                           *)
THEOREM ViewsPaidOnce == DeliverySafeSpec => []PaidAtMostOnce
<1>1. DeliveryInv => PaidAtMostOnce
  BY DEF DeliveryInv
<1> QED
  BY <1>1, DeliveryInvInit, DeliveryInvStep, PTL DEF DeliverySafeSpec

(* Which step takes a receipt from a running editor's queue, and when.        *)
LEMMA StepLeaves ==
    ASSUME DeliveryInv, [DeliveryNext]_deliveryVars,
           NEW r \in ToSet(queue) \ ToSet(queue'), running'
    PROVE  r \in answered \/ (Len(queue) = Cap /\ r = Head(queue))
<1>1. queue' # queue
  OBVIOUS
<1>2. queue # <<>>
  BY EmptyQueue
<1>3. ASSUME NEW x \in ReceiptIds, Enqueue(x)
      PROVE  Len(queue) = Cap /\ r = Head(queue)
  <2>1. /\ queue \in Contents /\ x \notin ToSet(queue)
        /\ queue' = Capped(Append(queue, x))
    BY <1>3 DEF Enqueue, Store, DeliveryInv, DeliveryTypeOK, Known
  <2> QED
    BY <2>1, CappedKeepsTheRest
<1>4. ASSUME NEW f \in Flushes, Reply(f) PROVE r \in answered
  BY <1>4, ReplyStores
<1>5. ~EditorDies
  BY DEF EditorDies
<1>6. ~Restart
  BY <1>2 DEF Restart, DeliveryInv, Known
<1> QED
  BY <1>1, <1>3, <1>4, <1>5, <1>6
  DEF DeliveryNext, deliveryVars, client, FinishWrite, StartFlush, Arrive, GiveUp, HandleReceipt

(* While the editor runs, a receipt leaves its queue only when the service has *)
(* decided on it, or as the oldest of a full queue: what joins during a post   *)
(* is not taken with what was posted (ack, receiptQueue.ts).                   *)
THEOREM OnlyDecidedLeave == DeliverySafeSpec => LeavesOnlyDecided
<1>1. DeliveryInv /\ [DeliveryNext]_deliveryVars =>
        [\A r \in ToSet(queue) \ ToSet(queue') :
            running' => \/ r \in answered
                        \/ Len(queue) = Cap /\ r = Head(queue)]_deliveryVars
  BY StepLeaves
<1> QED
  BY <1>1, DeliveryInvInit, DeliveryInvStep, PTL DEF DeliverySafeSpec, LeavesOnlyDecided
-----------------------------------------------------------------------------
(* The two together.  Every step of Earnings is a step of each component or *)
(* leaves it alone, so all that is proved of either holds of both at once;  *)
(* and what one counts as paid is what the other has booked.                *)

(* What the editor does is a step of the delivery. *)
LEMMA EditorDelivers == ASSUME Editor PROVE DeliveryNext
  BY DEF Editor, DeliveryNext

(* What happens to the money is a step of Payouts. *)
LEMMA MoneyIsPayouts == ASSUME Money PROVE Next
  BY DEF Money, Next

(* A posted receipt is handled by ReceiptDelivery and settled by Payouts, or *)
(* only handled.                                                             *)
LEMMA PostedIsBoth ==
    ASSUME NEW r \in ReceiptIds, HandlePosted(r)
    PROVE  /\ DeliveryNext
           /\ UNCHANGED vars \/ Next
<1>1. DeliveryNext
  BY DEF HandlePosted, DeliveryNext
<1>2. UNCHANGED vars \/ \E m \in Credits : SettleReceipt(Viewer, r, m)
  BY DEF HandlePosted
<1>3. Viewer \in Users /\ r \in Receipts
  BY ViewerAssumption
<1> QED
  BY <1>1, <1>2, <1>3 DEF Next

(* Every step of the two together is a step of each, or leaves it alone. *)
LEMMA StepOfBoth ==
    ASSUME [EarningsNext]_earningsVars
    PROVE  [Next]_vars /\ [DeliveryNext]_deliveryVars
<1>1. CASE UNCHANGED earningsVars
  BY <1>1 DEF earningsVars
<1>2. ASSUME NEW r \in ReceiptIds, HandlePosted(r)
      PROVE  [Next]_vars /\ [DeliveryNext]_deliveryVars
  BY <1>2, PostedIsBoth
<1>3. CASE Editor /\ UNCHANGED vars
  BY <1>3, EditorDelivers
<1>4. CASE Money /\ UNCHANGED deliveryVars
  BY <1>4, MoneyIsPayouts
<1> QED
  BY <1>1, <1>2, <1>3, <1>4 DEF EarningsNext

(* Whatever the editor and its flushes do, the money service of Earnings is *)
(* the one of Payouts: every theorem above about Payouts holds of it.       *)
THEOREM EarningsArePayouts == EarningsSpec => Spec
<1>1. EarningsInit => Init
  BY DEF EarningsInit
<1> QED
  BY <1>1, StepOfBoth, PTL DEF EarningsSpec, Spec

(* Whatever happens to the money, the delivery of receipts in Earnings is  *)
(* the one of ReceiptDelivery: every theorem above about it holds of it.   *)
THEOREM EarningsAreDelivered == EarningsSpec => DeliverySafeSpec
<1>1. EarningsInit => DeliveryInit
  BY DEF EarningsInit
<1> QED
  BY <1>1, StepOfBoth, PTL DEF EarningsSpec, DeliverySafeSpec

(* What is posted, and what has reached the service, was shown. *)
Sent == inbox \subseteq shown /\ \A f \in Flushes : post[f].batch \subseteq shown

(* A batch is taken from the queue, which holds only what was shown. *)
LEMMA SentStep ==
    ASSUME DeliveryInv, Sent, [DeliveryNext]_deliveryVars
    PROVE  Sent'
<1> USE DEF client, server
<1>1. /\ post \in [Flushes -> [batch : SUBSET ReceiptIds, arrived : BOOLEAN]]
      /\ ToSet(queue) \subseteq shown
  BY DEF DeliveryInv, DeliveryTypeOK, Known
<1>2. ASSUME UNCHANGED <<inbox, post>>, shown \subseteq shown' PROVE Sent'
  BY <1>2 DEF Sent
<1>3. ASSUME NEW f \in Flushes, StartFlush(f) PROVE Sent'
  <2>1. /\ post' = [post EXCEPT ![f] = [batch |-> ToSet(queue), arrived |-> FALSE]]
        /\ UNCHANGED <<shown, inbox>>
    BY <1>3 DEF StartFlush
  <2>2. ASSUME NEW g \in Flushes PROVE post'[g].batch \subseteq shown
    BY <1>1, <2>1 DEF Sent
  <2> QED
    BY <2>1, <2>2 DEF Sent
<1>4. ASSUME NEW f \in Flushes, Arrive(f) PROVE Sent'
  <2>1. /\ post' = [post EXCEPT ![f] = [post[f] EXCEPT !.arrived = TRUE]]
        /\ inbox' = inbox \cup post[f].batch /\ UNCHANGED shown
    BY <1>4 DEF Arrive
  <2>2. ASSUME NEW g \in Flushes PROVE post'[g].batch = post[g].batch
    <3>1. post[g] \in [batch : SUBSET ReceiptIds, arrived : BOOLEAN]
      BY <1>1
    <3> QED
      BY <1>1, <2>1, <3>1
  <2> QED
    BY <2>1, <2>2 DEF Sent
<1>5. ASSUME NEW f \in Flushes, post' = [post EXCEPT ![f] = NoPost],
             UNCHANGED <<shown, inbox>>
      PROVE  Sent'
  <2>1. ASSUME NEW g \in Flushes PROVE post'[g].batch \subseteq shown
    BY <1>1, <1>5 DEF Sent, NoPost
  <2> QED
    BY <1>5, <2>1 DEF Sent
<1>6. CASE EditorDies
  <2>1. post' = [f \in Flushes |-> NoPost] /\ UNCHANGED <<shown, inbox>>
    BY <1>6 DEF EditorDies
  <2>2. ASSUME NEW g \in Flushes PROVE post'[g].batch = {}
    BY <2>1 DEF NoPost
  <2> QED
    BY <2>1, <2>2 DEF Sent
<1>7. ASSUME NEW r \in ReceiptIds, HandleReceipt(r) PROVE Sent'
  <2>1. inbox' \subseteq inbox /\ UNCHANGED <<post, shown>>
    BY <1>7 DEF HandleReceipt
  <2> QED
    BY <2>1 DEF Sent
<1>8. \/ UNCHANGED <<inbox, post>> /\ shown \subseteq shown'
      \/ \E f \in Flushes : StartFlush(f) \/ Arrive(f) \/ GiveUp(f) \/ Reply(f)
      \/ EditorDies
      \/ \E r \in ReceiptIds : HandleReceipt(r)
  BY DEF DeliveryNext, deliveryVars, Enqueue, FinishWrite, Restart
<1>9. ASSUME NEW f \in Flushes, GiveUp(f) \/ Reply(f)
      PROVE  post' = [post EXCEPT ![f] = NoPost] /\ UNCHANGED <<shown, inbox>>
  BY <1>9 DEF GiveUp, Reply
<1> QED
  BY <1>2, <1>3, <1>4, <1>5, <1>6, <1>7, <1>8, <1>9

(* What a receipt has earned, as the service counts it and as it is booked. *)
EarnedIs(r) ==
    IF paid[r] = 0 THEN Told(r, "earned") = {}
    ELSE /\ r \in shown
         /\ \E e \in entries : /\ Told(r, "earned") = {e}
                               /\ e.uid = Viewer /\ e.kind = "impression"

EarnInv == DeliveryInv /\ Sent /\ EarnedOncePerView

(* What was earned stays as it is while the count and the entries under its *)
(* receipt do.                                                              *)
LEMMA EarnedKept ==
    ASSUME NEW r, EarnedIs(r), paid'[r] = paid[r], shown \subseteq shown',
           Told(r, "earned")' = Told(r, "earned")
    PROVE  EarnedIs(r)'
<1>1. ASSUME NEW e, Told(r, "earned")' = {e} PROVE e \in entries'
  BY <1>1 DEF Told
<1> QED
  BY <1>1 DEF EarnedIs

(* A step of the money that is not this editor's books nothing under its   *)
(* receipts.                                                               *)
LEMMA MoneyLeavesEarned ==
    ASSUME Money, NEW r \in ReceiptIds
    PROVE  Told(r, "earned")' = Told(r, "earned")
<1>1. ASSUME NEW e, AppendEntry(e), e.id # <<r, "earned">>
      PROVE  Told(r, "earned")' = Told(r, "earned")
  BY <1>1, ToldAfterAppend
<1>2. ASSUME NEW c \in Calls, NEW w \in Wids, ReserveWithdrawal(c, w)
      PROVE  Told(r, "earned")' = Told(r, "earned")
  <2> DEFINE e == [id |-> <<w, "requested">>, uid |-> call[c].uid,
                   kind |-> "withdrawal_requested", micros |-> - call[c].micros]
  <2>1. AppendEntry(e)
    BY <1>2 DEF ReserveWithdrawal
  <2>2. e.id # <<r, "earned">>
    OBVIOUS
  <2> HIDE DEF e
  <2> QED
    BY <1>1, <2>1, <2>2
<1>3. ASSUME NEW c \in Calls, TransitionWithdrawal(c)
      PROVE  Told(r, "earned")' = Told(r, "earned")
  <2> DEFINE e == DecisionEntry(call[c].decision, call[c].wid)
  <2>1. entries' = entries \/ AppendEntry(e)
    BY <1>3 DEF TransitionWithdrawal
  <2>2. e.id # <<r, "earned">>
    BY DEF DecisionEntry
  <2> HIDE DEF e
  <2> QED
    BY <1>1, <2>1, <2>2 DEF Told
<1>4. ASSUME NEW c \in Calls, NEW a \in AdjIds, AppendAdjustment(c, a)
      PROVE  Told(r, "earned")' = Told(r, "earned")
  <2> DEFINE e == [id |-> <<a, "adjusted">>, uid |-> call[c].uid,
                   kind |-> "adjustment", micros |-> call[c].micros]
  <2>1. AppendEntry(e)
    BY <1>4 DEF AppendAdjustment
  <2>2. e.id # <<r, "earned">>
    OBVIOUS
  <2> HIDE DEF e
  <2> QED
    BY <1>1, <2>1, <2>2
<1>5. ASSUME NEW u \in Users, NEW s \in Receipts \ ReceiptIds, NEW m \in Credits,
             SettleReceipt(u, s, m)
      PROVE  Told(r, "earned")' = Told(r, "earned")
  <2> DEFINE e == [id |-> <<s, "earned">>, uid |-> u,
                   kind |-> "impression", micros |-> m]
  <2>1. AppendEntry(e)
    BY <1>5 DEF SettleReceipt
  <2>2. e.id # <<r, "earned">>
    OBVIOUS
  <2> HIDE DEF e
  <2> QED
    BY <1>1, <2>1, <2>2
<1>6. \/ UNCHANGED entries
      \/ \E c \in Calls, w \in Wids : ReserveWithdrawal(c, w)
      \/ \E c \in Calls : TransitionWithdrawal(c)
      \/ \E c \in Calls, a \in AdjIds : AppendAdjustment(c, a)
      \/ \E u \in Users, s \in Receipts \ ReceiptIds, m \in Credits : SettleReceipt(u, s, m)
  BY DEF Money, Request, Decide, Adjust, ReadForRequest, RefuseReservation,
         ReadForDecision, RefuseTransition, ReadForAdjustment, WriteAudit, Crash
<1> QED
  BY <1>2, <1>3, <1>4, <1>5, <1>6 DEF Told

(* What the editor does neither pays nor books, and no view is taken back.  *)
LEMMA EditorLeavesPaid ==
    ASSUME Editor
    PROVE  paid' = paid /\ shown \subseteq shown'
  BY DEF Editor, server, Enqueue, FinishWrite, StartFlush, Arrive, GiveUp, Reply,
         EditorDies, Restart

(* Handling a posted receipt either leaves count and ledger as they were or *)
(* books its one entry.                                                     *)
LEMMA PostedIsEarned ==
    ASSUME EarnInv, NEW r \in ReceiptIds, HandlePosted(r), NEW s \in ReceiptIds
    PROVE  EarnedIs(s)'
<1>1. paid \in [ReceiptIds -> Nat] /\ r \in shown /\ EarnedIs(s) /\ shown' = shown
  BY DEF EarnInv, DeliveryInv, DeliveryTypeOK, Sent, EarnedOncePerView, EarnedIs,
         HandlePosted, HandleReceipt, client
<1>2. CASE paid' = paid
  <2>1. entries' = entries
    BY <1>2 DEF HandlePosted, vars
  <2> QED
    BY <1>1, <1>2, <2>1, EarnedKept DEF Told
<1>3. CASE paid' # paid
  <2>1. paid[r] = 0 /\ paid' = [paid EXCEPT ![r] = 1]
    BY <1>3 DEF HandlePosted, HandleReceipt, Settle
  <2>2. PICK m \in Credits : SettleReceipt(Viewer, r, m)
    BY <1>3 DEF HandlePosted
  <2> DEFINE e == [id |-> <<r, "earned">>, uid |-> Viewer,
                   kind |-> "impression", micros |-> m]
  <2>3. AppendEntry(e)
    BY <2>2 DEF SettleReceipt
  <2>4. e.id = <<r, "earned">> /\ e.uid = Viewer /\ e.kind = "impression"
    OBVIOUS
  <2> HIDE DEF e
  <2>5. CASE s = r
    <3>1. Told(r, "earned") = {}
      BY <1>1, <2>1, <2>5 DEF EarnedIs
    <3>2. Told(r, "earned")' = Told(r, "earned") \cup {e}
      BY <2>3, <2>4, ToldAfterAppend
    <3>3. Told(r, "earned")' = {e} /\ e \in entries'
      BY <2>3, <3>1, <3>2 DEF AppendEntry
    <3>4. paid'[r] # 0
      BY <1>1, <2>1
    <3> QED
      BY <1>1, <2>4, <2>5, <3>3, <3>4 DEF EarnedIs
  <2>6. CASE s # r
    <3>1. Told(s, "earned")' = Told(s, "earned")
      BY <2>3, <2>4, <2>6, ToldAfterAppend
    <3>2. paid'[s] = paid[s]
      BY <1>1, <2>1, <2>6
    <3> QED
      BY <1>1, <3>1, <3>2, EarnedKept
  <2> QED
    BY <2>5, <2>6
<1> QED
  BY <1>2, <1>3

(* Before any view nothing is counted and nothing booked. *)
LEMMA EarnInit == EarningsInit => EarnInv
<1> SUFFICES ASSUME EarningsInit PROVE EarnInv
  OBVIOUS
<1>1. DeliveryInv
  BY DeliveryInvInit DEF EarningsInit
<1>2. Sent
  BY DEF EarningsInit, DeliveryInit, Sent, NoPost
<1>3. EarnedOncePerView
  BY <1>1 DEF EarningsInit, Init, DeliveryInit, DeliveryInv, EarnedOncePerView, Told
<1> QED
  BY <1>1, <1>2, <1>3 DEF EarnInv

(* Every step keeps count and ledger together. *)
LEMMA EarnStep == EarnInv /\ [EarningsNext]_earningsVars => EarnInv'
<1> SUFFICES ASSUME EarnInv, [EarningsNext]_earningsVars PROVE EarnInv'
  OBVIOUS
<1>1. DeliveryInv' /\ Sent'
  BY StepOfBoth, DeliveryInvStep, SentStep DEF EarnInv
<1>2. ASSUME NEW r \in ReceiptIds PROVE EarnedIs(r)
  BY DEF EarnInv, EarnedOncePerView, EarnedIs
<1>3. ASSUME NEW r \in ReceiptIds PROVE EarnedIs(r)'
  <2>1. CASE UNCHANGED earningsVars
    <3>1. UNCHANGED <<entries, paid, shown>>
      BY <2>1 DEF earningsVars, vars, deliveryVars, client, server
    <3> QED
      BY <1>2, <3>1, EarnedKept DEF Told
  <2>2. ASSUME NEW s \in ReceiptIds, HandlePosted(s) PROVE EarnedIs(r)'
    BY <2>2, PostedIsEarned
  <2>3. CASE Editor /\ UNCHANGED vars
    <3>1. entries' = entries
      BY <2>3 DEF vars
    <3> QED
      BY <1>2, <2>3, <3>1, EditorLeavesPaid, EarnedKept DEF Told
  <2>4. CASE Money /\ UNCHANGED deliveryVars
    <3>1. UNCHANGED <<paid, shown>>
      BY <2>4 DEF deliveryVars, client, server
    <3> QED
      BY <1>2, <2>4, <3>1, MoneyLeavesEarned, EarnedKept
  <2> QED
    BY <2>1, <2>2, <2>3, <2>4 DEF EarningsNext
<1>4. EarnedOncePerView'
  BY <1>1, <1>3 DEF DeliveryInv, EarnedOncePerView, EarnedIs
<1> QED
  BY <1>1, <1>4 DEF EarnInv

(* A view earns its viewer once, and only if it was shown, however often   *)
(* its receipt is posted, whatever a crash brings back, and whatever       *)
(* withdrawals, corrections and other editors do to the ledger meanwhile.  *)
THEOREM ViewsEarnOnce == EarningsSpec => []EarnedOncePerView
<1>1. EarnInv => EarnedOncePerView
  BY DEF EarnInv
<1> QED
  BY <1>1, EarnInit, EarnStep, PTL DEF EarningsSpec
=============================================================================
