------------------------------ MODULE Earnings ------------------------------
(***************************************************************************)
(* The way of a view from one editor to its user's balance, and out of it: *)
(* ReceiptDelivery and Payouts together.  They meet where the service      *)
(* handles a posted receipt (services/api/src/receipts.ts): what           *)
(* settle_receipt writes - the receipt's row, the ledger entry, the        *)
(* balance - is one transaction, so one step of both.  Everything else is  *)
(* a step of one of them.                                                  *)
(***************************************************************************)
EXTENDS Payouts, ReceiptDelivery

CONSTANT Viewer     \* the account the editor is signed in to

\* Receipts that are not this editor's are posted by others.
ASSUME ViewerAssumption == Viewer \in Users /\ ReceiptIds \subseteq Receipts

earningsVars == <<vars, deliveryVars>>

EarningsInit == Init /\ DeliveryInit

(* Mutant: the earning is booked for a view that was turned away, too.       *)
HandlePosted_BooksAnyway(r) ==
    /\ HandleReceipt(r)
    /\ \/ \E m \in Credits : SettleReceipt(Viewer, r, m)
       \/ UNCHANGED vars

(* A receipt that is turned away, was settled before, or is of a test serve *)
(* earns nothing.                                                           *)
HandlePosted(r) ==
    /\ HandleReceipt(r)
    /\ IF paid' = paid THEN UNCHANGED vars
       ELSE \E m \in Credits : SettleReceipt(Viewer, r, m)

(* The editor, and what reaches the service from it. *)
Editor ==
    \/ \E r \in ReceiptIds : Enqueue(r)
    \/ \E q \in writing : FinishWrite(q)
    \/ \E f \in Flushes : StartFlush(f) \/ Arrive(f) \/ GiveUp(f) \/ Reply(f)
    \/ EditorDies \/ Restart

(* Withdrawals and corrections, and the views of other editors. *)
Money ==
    \/ \E c \in Calls : Request(c) \/ Decide(c) \/ Adjust(c)
                        \/ WriteAudit(c) \/ Crash(c)
    \/ \E u \in Users, r \in Receipts \ ReceiptIds, m \in Credits : SettleReceipt(u, r, m)

EarningsNext ==
    \/ \E r \in ReceiptIds : HandlePosted(r)
    \/ Editor /\ UNCHANGED vars
    \/ Money /\ UNCHANGED deliveryVars

EarningsSpec == EarningsInit /\ [][EarningsNext]_earningsVars

(* The editor keeps flushing and the service handles what reaches it,      *)
(* whatever becomes of the money.                                          *)
FairEarningsSpec == EarningsSpec /\ Fairness

-----------------------------------------------------------------------------
(* receipts.ts:98: of one view the viewer earns once, and only of a view    *)
(* that was shown: the ledger has one entry, the viewer's, for each receipt *)
(* the service counts as paid, and none for the others, although posts are  *)
(* repeated, answers are lost, an old queue comes back after a crash, and   *)
(* withdrawals and other editors work on the same ledger meanwhile.         *)
EarnedOncePerView ==
    /\ PaidAtMostOnce
    /\ \A r \in ReceiptIds :
          IF paid[r] = 0 THEN Told(r, "earned") = {}
          ELSE /\ r \in shown
               /\ \E e \in entries : /\ Told(r, "earned") = {e}
                                     /\ e.uid = Viewer /\ e.kind = "impression"
=============================================================================
