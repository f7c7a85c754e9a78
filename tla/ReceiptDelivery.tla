-------------------------- MODULE ReceiptDelivery --------------------------
(***************************************************************************)
(* How a view of an advertisement reaches the money service: the editor's  *)
(* receipt queue (packages/ads/src/receiptQueue.ts, flushed by             *)
(* adService.ts through client.ts and written by the desktop's             *)
(* DiskFileStore), and the service's handling of a posted batch            *)
(* (services/api/src/receipts.ts, plausibility.ts and settleReceipt).      *)
(*                                                                         *)
(* The queue lives in memory and on disk; each change starts a write of    *)
(* the whole file that nobody waits for, so writes may overlap and land in *)
(* any order, and the editor may die while some are under way.  A post may *)
(* be lost before or after the service has handled any part of it, and is  *)
(* sent again.                                                             *)
(***************************************************************************)
EXTENDS Naturals, Sequences, SequencesExt

CONSTANTS
    ReceiptIds,     \* receipt ids, one per view (a bound)
    Flushes,        \* flushes under way at once: a tick does not wait for the last (a bound)
    Cap,            \* RECEIPT_QUEUE_CAP
    MaxCrashes      \* how often the editor dies (a bound)

ASSUME CapAssumption == Cap \in Nat \ {0}
ASSUME CrashesAssumption == MaxCrashes \in Nat

VARIABLES
    shown,      \* receipts issued so far
    running,    \* whether the editor is running with its queue loaded
    queue,      \* the queue in memory, oldest first
    disk,       \* the queue file; Torn when it cannot be parsed
    writing,    \* file contents whose write has started and not ended
    post,       \* per flush, the batch being posted and whether an attempt got through
    inbox,      \* receipts the service has been sent and not handled yet
    answered,   \* receipts the service has decided on
    paid,       \* how often each receipt has been credited
    crashes     \* how often the editor has died

client == <<shown, running, queue, disk, writing, post, crashes>>
server == <<inbox, answered, paid>>
deliveryVars == <<client, server>>

Torn == <<"torn">>

NoPost == [batch |-> {}, arrived |-> FALSE]

Contents == {s \in SeqOf(ReceiptIds, Cap) : IsInjective(s)}

DeliveryInit ==
    /\ shown = {}
    /\ running = TRUE
    /\ queue = <<>>
    /\ disk = <<>>
    /\ writing = {}
    /\ post = [f \in Flushes |-> NoPost]
    /\ inbox = {}
    /\ answered = {}
    /\ paid = [r \in ReceiptIds |-> 0]
    /\ crashes = 0

-----------------------------------------------------------------------------
(* The editor. *)

(* Mutant: the cap is checked one entry late.                               *)
Capped_OneOver(q) == IF Len(q) > Cap + 1 THEN SubSeq(q, Len(q) - Cap, Len(q)) ELSE q

(* At the cap the oldest entries go. *)
Capped(q) == IF Len(q) > Cap THEN SubSeq(q, Len(q) - Cap + 1, Len(q)) ELSE q

(* A queue operation changes memory and starts a write of the result. *)
Store(q) ==
    /\ queue' = q
    /\ writing' = writing \cup {q}

Enqueue(r) ==
    /\ running
    /\ r \notin shown
    /\ shown' = shown \cup {r}
    /\ Store(Capped(Append(queue, r)))
    /\ UNCHANGED <<running, disk, post, crashes, server>>

FinishWrite(q) ==
    /\ running
    /\ q \in writing
    /\ disk' = q
    /\ writing' = writing \ {q}
    /\ UNCHANGED <<shown, running, queue, post, crashes, server>>

(* Mutant: a single receipt is not worth a post.                            *)
StartFlush_WaitsForTwo(f) ==
    /\ running
    /\ post[f] = NoPost
    /\ Len(queue) > 1
    /\ post' = [post EXCEPT ![f] = [batch |-> ToSet(queue), arrived |-> FALSE]]
    /\ UNCHANGED <<shown, running, queue, disk, writing, crashes, server>>

(* flushReceipts posts everything the queue holds. *)
StartFlush(f) ==
    /\ running
    /\ post[f] = NoPost
    /\ queue # <<>>
    /\ post' = [post EXCEPT ![f] = [batch |-> ToSet(queue), arrived |-> FALSE]]
    /\ UNCHANGED <<shown, running, queue, disk, writing, crashes, server>>

(* One attempt gets through; an attempt after it sends the batch again.     *)
Arrive(f) ==
    /\ post[f] # NoPost
    /\ post' = [post EXCEPT ![f].arrived = TRUE]
    /\ inbox' = inbox \cup post[f].batch
    /\ UNCHANGED <<shown, running, queue, disk, writing, crashes, answered, paid>>

(* Every attempt failed, or an answer was lost: the queue keeps all of it.  *)
GiveUp(f) ==
    /\ post[f] # NoPost
    /\ post' = [post EXCEPT ![f] = NoPost]
    /\ UNCHANGED <<shown, running, queue, disk, writing, crashes, server>>

(* Mutant: a finished flush clears the queue, whatever joined it meanwhile. *)
Acked_WholeQueue(q, batch) == <<>>

(* ack removes what the answer names, which is all that was posted; the    *)
(* others keep their order.                                                *)
Acked(q, batch) ==
    LET kept[i \in 0 .. Len(q)] ==
          IF i = 0 THEN <<>>
          ELSE IF q[i] \in batch THEN kept[i - 1] ELSE Append(kept[i - 1], q[i])
    IN kept[Len(q)]

(* The service answers a batch when it has decided on each of its receipts. *)
Answerable(f) == post[f].arrived /\ post[f].batch \subseteq answered

Reply(f) ==
    /\ Answerable(f)
    /\ post' = [post EXCEPT ![f] = NoPost]
    /\ IF Acked(queue, post[f].batch) # queue
       THEN Store(Acked(queue, post[f].batch))
       ELSE UNCHANGED <<queue, writing>>
    /\ UNCHANGED <<shown, running, disk, crashes, server>>

(* The editor dies: writes under way end whole, torn, or not at all.        *)
EditorDies ==
    /\ running
    /\ crashes < MaxCrashes
    /\ crashes' = crashes + 1
    /\ running' = FALSE
    /\ \E q \in writing \cup {disk} \cup (IF writing = {} THEN {} ELSE {Torn}) : disk' = q
    /\ queue' = <<>>
    /\ writing' = {}
    /\ post' = [f \in Flushes |-> NoPost]
    /\ UNCHANGED <<shown, server>>

(* load: a file that cannot be parsed is an empty queue. *)
Restart ==
    /\ ~ running
    /\ running' = TRUE
    /\ queue' = IF disk = Torn THEN <<>> ELSE disk
    /\ UNCHANGED <<shown, disk, writing, post, crashes, server>>

-----------------------------------------------------------------------------
(* The service. *)

(* settleReceipt: nothing if the id has a row already. *)
Settle(r) == paid' = IF paid[r] = 0 THEN [paid EXCEPT ![r] = 1] ELSE paid

(* checkReceipt may turn a receipt away - no serve it matches, or too late *)
(* after it - and the answer does not say so.                              *)
HandleReceipt(r) ==
    /\ r \in inbox
    /\ inbox' = inbox \ {r}
    /\ answered' = answered \cup {r}
    /\ Settle(r) \/ UNCHANGED paid
    /\ UNCHANGED client

-----------------------------------------------------------------------------
DeliveryNext ==
    \/ \E r \in ReceiptIds : Enqueue(r) \/ HandleReceipt(r)
    \/ \E q \in writing : FinishWrite(q)
    \/ \E f \in Flushes : StartFlush(f) \/ Arrive(f) \/ GiveUp(f) \/ Reply(f)
    \/ EditorDies \/ Restart

(* The editor flushes on a timer for as long as it runs and is opened again *)
(* after it dies; an operating system ends its writes; the service handles  *)
(* what reaches it; and a connection that comes back often enough carries a *)
(* post, and its answer, sooner or later.                                   *)
Fairness ==
    /\ WF_deliveryVars(Restart)
    /\ \A f \in Flushes : /\ WF_deliveryVars(StartFlush(f))
                          /\ SF_deliveryVars(Arrive(f)) /\ SF_deliveryVars(Reply(f))
    /\ \A q \in Contents : WF_deliveryVars(FinishWrite(q))
    /\ \A r \in ReceiptIds : WF_deliveryVars(HandleReceipt(r))

DeliverySafeSpec == DeliveryInit /\ [][DeliveryNext]_deliveryVars

DeliverySpec == DeliverySafeSpec /\ Fairness

-----------------------------------------------------------------------------
(* PROPERTIES *)

(* Every variable holds what its declaration says. *)
DeliveryTypeOK ==
    /\ shown \subseteq ReceiptIds
    /\ running \in BOOLEAN
    /\ queue \in Contents
    /\ disk \in Contents \cup {Torn}
    /\ writing \subseteq Contents
    /\ post \in [Flushes -> [batch : SUBSET ReceiptIds, arrived : BOOLEAN]]
    /\ inbox \subseteq ReceiptIds
    /\ answered \subseteq ReceiptIds
    /\ paid \in [ReceiptIds -> Nat]
    /\ crashes \in 0 .. MaxCrashes

(* A view is paid for once, although posts are repeated, answers are lost  *)
(* and an old file may bring an acknowledged receipt back after a restart. *)
PaidAtMostOnce == \A r \in ReceiptIds : paid[r] <= 1

(* While the editor runs, a receipt leaves the queue only when the service *)
(* has decided on it or when the queue is full and it is the oldest: one   *)
(* that joins during a post is not taken with the posted ones.             *)
LeavesOnlyDecided ==
    [][\A r \in ToSet(queue) \ ToSet(queue') :
          running' => \/ r \in answered
                      \/ Len(queue) = Cap /\ r = Head(queue)]_deliveryVars

OnClient(r) ==
    \/ r \in ToSet(queue)
    \/ ~ running /\ disk # Torn /\ r \in ToSet(disk)

(* Every receipt the editor still has is reported sooner or later. *)
EveryReceiptReported ==
    \A r \in ReceiptIds : OnClient(r) ~> (r \in answered \/ ~ OnClient(r))
=============================================================================
