# A verification of ADCode

ADCode is a code editor that pays its users for looking at advertisements. The
repository holds the editor (`apps/desktop`, `packages/*`), the money service
(`services/api` over the database functions in `supabase/migrations`), the
cloud sandbox worker (`apps/cloud`) and the web site (`apps/web`).

This directory models the parts where money is counted and where several actors
change one record: the user's ledger and withdrawals, the advertiser's credits
and campaigns, the path of a view from the editor to the ledger, included AI
and its credit windows, the teams of AI roles that share a durable record, a
budget and a pool of slots, the workspace in which an AI task's changes are
reviewed, and the cloud sandbox with its budget slot and its saved home. Each
module is translated from the code `PROJECT.json` maps it to. TLC checks small
instances; TLAPS proves, for every instance, every safety invariant and action
property the passing runs check, two of the team's under a condition, and
that the path of a view from the editor to the ledger pays for it once.

    tlc -workers 2 -config payouts_core.cfg MCPayouts.tla
    tlapm EarningsProofs.tla         # and the other modules named *Proofs, SumLemmas

## 1. Inventory

| Component | State it keeps | Operations | Who else touches that state | Hard part |
|---|---|---|---|---|
| **User ledger and withdrawals** (`ledger.ts`, `withdrawals.ts`, `reserve_withdrawal`, `transition_withdrawal`) | append-only `ledger_entries`, cached `balances`, `withdrawals` rows, `audit_log` | request, cancel, approve, mark paid, reject, mark failed, return, adjust | receipt settlement, awards | every handler reads, decides, and only then writes; two administrators and the user decide the same row; a handler may die between its write and its audit line |
| **Advertiser credits and campaigns** (`creditOrders.ts`, `funding.ts`, `advertisers.ts`, `campaignBudget.ts`, `admin.ts`, `apply_advertiser_credit_event`, `transition_campaign_commitment`, `move_campaign_budget`) | `funded`/`reserved` of an advertiser, credit orders and their entries, `provider_events`, campaigns, spend | checkout, webhook, create/activate/pause/end a campaign, move budget, suspend | serving and receipts (spend), administrators | events repeated and reordered by the provider; a dispute while a campaign is being activated; whole-row writes |
| **Serving and receipts** (`serve.ts`, `targeting.ts`, `receipts.ts`, `plausibility.ts`, `settle_receipt`) | `serves`, `receipts`, `campaign_spend` | choose a creative, record the serve, settle a receipt | credits, ledger | chosen on a status and spend read earlier; receipts arrive late and repeatedly |
| **Editor ad client** (`packages/ads`, `adPorts.ts`, `ads.ts`) | the receipt queue in memory and in a file | enqueue, flush, acknowledge, load | the service | lost answers, overlapping flushes and file writes, a crash at any of them |
| **Referrals and awards** | visits, invites, awards (ledger entries) | visit, invite, award, referral payout | ledger | partial failure between payment and closing the report |
| **Free AI credits** (`credits.ts`, `tagflow.ts`, `reserve_unlimited_ai`, `settle_included_ai`) | two usage windows and a day row per user, reservations | reserve, settle, release | concurrent requests of one account, a client's cancel | a reservation settled after its window ended; two settlements of one request; lost answers |
| **AI teams** (`packages/ai/src/team*.ts`, `aiTeam*.ts`, `slotPool.ts`) | a durable team record (state, task graph, budget, mailbox), abort controllers, the slot pool | confirm, start, pause, resume, cancel, fail, merge, recover | the user, the running roles, the process's death | work continuing outside the team's lock; resume while the old run unwinds |
| **AI workspace service** (`aiWorkspaceService.ts`, `aiWorkspaceStore.ts`, `workspaces.ts`) | a task record, a checkpoint manifest, the sandbox, the user's project | propose, accept, reject, roll back, discard, recover, clean up | the user editing the same files, the agent proposing, the process's death | many files written one at a time; whole-record saves without a lock |
| **AI checkpoints** (`aiCheckpoints.ts`) | copies of files before an edit | take, restore | | |
| **Agent loop, request scheduling** | conversation, request lane | send, stream, cancel, retry | model providers | cancellation against late answers |
| **Collaboration** | a shared document (third-party CRDT), permissions | join, edit, grant, revoke | peers | a revoked peer's late edits |
| **Cloud sessions** (`apps/cloud`) | a person's slot in the shared budget, the session's storage and alarm, the container, the archives of its home | open a tab, start, stop, alarm, sleep, archive, restore, delete | other people's sessions, the platform (evictions, containers that end) | every call lets the other handlers run; calls that fail; a stop that answers late |
| **Editor shell, language services, git, search; web, mailing, statistics** | user interface state, pages | | | little shared state; external programs |

What makes each of the modelled ones correct is stated by the properties of
section 4. `PROJECT.json` lists under "hazards" what can go wrong at which
line, and which property would notice.

How they interact: the editor's queue posts receipts to the service
(`ReceiptDelivery`); `settle_receipt` credits a user (`Payouts!SettleReceipt`)
and charges a campaign (`AdvertiserCredits!SettleReceipt`) in one transaction,
once per receipt id. `Earnings` composes the first two. The user's ledger and the advertiser's credits share no
other row, so they are separate modules. AI teams live in the editor and share
nothing with the money service; within them the coordinator's loop, the roles
at work and the user meet in one record (`TeamRecord`), and the teams meet in
the slot pool. A task's workspace meets the user in the project's files. The
cloud worker's sessions meet in the shared budget only; the archives of a home
(`CloudHome`) use none of what the slot and its charges (`CloudSession`) do
beside the container and its secret, which both modules have. Included AI is
served by the money service but shares no row with ledger or credits.

## 2. Modules

| Module | What it is |
|---|---|
| `Payouts` | ledger, balances, withdrawals, audit trail, and the handlers over them |
| `PayoutPromise` | what the payout system promises, without handlers or ledger |
| `PayoutsRefine` | the refinement mapping from `Payouts` to `PayoutPromise` |
| `SumLemmas` | what sums over finite sets do when a term or the set changes |
| `AdvertiserCredits` | orders, provider events, campaigns, budgets, suspension |
| `AdvertiserCreditsProofs` | the theorems about `AdvertiserCredits` and their proofs |
| `ReceiptDelivery` | the editor's queue, its file, the posts, the service's answer |
| `Earnings` | `Payouts` and `ReceiptDelivery` together: from a view to the balance |
| `EarningsProofs` | the theorems about these three and their proofs |
| `TeamRecord` | the durable record of an AI team: task graph, budget ledger, states |
| `AiTeams` | who changes that record and when: user, run loop, roles, slot pool, restart |
| `AiTeamsProofs` | the theorems about `AiTeams` and their proofs |
| `AiWorkspace` | one AI task's record, checkpoint, sandbox and the user's files |
| `AiWorkspaceProofs` | the theorems about `AiWorkspace` and their proofs |
| `CloudSession` | a person's sandbox: slot, charges, container, alarm, deletion |
| `CloudSessionProofs` | the theorems about `CloudSession` and their proofs |
| `CloudHome` | the home of that sandbox and its archives |
| `CloudHomeProofs` | the theorems about `CloudHome` and their proofs |
| `IncludedAi` | what one account's requests hold and are charged in windows and days |
| `IncludedAiProofs` | the theorems about `IncludedAi` and their proofs |
| `MC*` | bounds and symmetry for TLC |

Operators named `X_Something` directly above an operator `X` are deliberately
wrong variants of it, each preceded by a comment saying how it is wrong.
Replacing `X` by one shows that a property notices that mistake.

### Payouts

A request handler has a read step, a commit step and, for an administrator, an
audit step; `call` holds what each running handler has read. The commit steps
are the database functions, which are atomic and lock the row or the user:

| Action | Code |
|---|---|
| `ReadForRequest`, `RefuseReservation`, `ReserveWithdrawal` | `requestWithdrawal`, `evaluateEligibility`; `reserve_withdrawal` |
| `ReadForDecision`, `RefuseTransition`, `TransitionWithdrawal` | `cancelWithdrawal`, `approveWithdrawal`, `markWithdrawalPaid`, `rejectWithdrawal`, `markWithdrawalFailed`, `returnWithdrawal`; `transition_withdrawal` |
| `ReadForAdjustment`, `AppendAdjustment` | `adjustBalance`; `append_entry_and_update_balance` |
| `WriteAudit` | the `writeAudit` that follows |
| `SettleReceipt` | `settle_receipt`, the ledger side |
| `Crash` | the process serving a request dies between two awaits |

`DecisionEntry` uses one entry id, `<id>:failed`, for cancel, reject and fail,
as `release` does. "impression" stands for every earning kind: `applyEntry`
treats them alike. The eligibility rules about the person (address confirmed,
age of the account, payout details) decide only whether a request passes the
read step, so the model lets any request with enough money pass.

### AdvertiserCredits

One advertiser: every function modelled takes that advertiser's row lock first
and touches no other's. The provider emits an event once into `sent`; a webhook
(`ApplyEvent`, `QuarantinePurchase`, `IgnoreEvent`) may handle any of them at
any time, and handling one again is a stutter because `provider_events` already
has its row. So repetition and reordering are both covered. Portal requests are
calls with a read and a commit; `setCampaignStatus` has a third step between
them, where it reads the spend it will tell the database. An administrator's
suspension reads a whole row and writes it back.

Choices made where the sources differ:

* The database functions are followed where `memoryStore.ts` does something
  else: it does not clamp a campaign's remaining budget at zero, and it forgets
  an ignored event that the database remembers.
* `BeginCheckout` writes off stale orders. In the code "stale" is a matter of
  hours, longer than a checkout session or a request lives, so the model
  cancels only orders nobody has paid and no running request is creating.
* An order is paid once (`Pay`). A second payment of one order is left out: the
  code sets it aside, and the order is `review_required` with the credits of the
  first still in it, so `StatusAgreesWithNet` is said of orders paid once.
* Money is counted in what one impression costs.

### ReceiptDelivery

`queue` is the map in memory, `disk` the file, `writing` the whole-file writes
that were started and not awaited by anyone, in no order. The editor's timer
does not wait for the previous tick, so several flushes overlap (`Flushes`).
`Arrive` is an attempt that reaches the service; the client may take it for a
failure (`GiveUp`) and try again. `EditorDies` ends each write whole, torn, or not at
all. The service decides receipts one by one, and may die between two
(the remaining ones are handled when they are sent again). `Acked`, the filter
of `acknowledge`, is written as a recursive function so that it can be proved
about.

### Earnings

The two meet in one step, `HandlePosted`: what `handleReceipts` does with one
receipt is `ReceiptDelivery!HandleReceipt`, and if that credits it, the same
step is `Payouts!SettleReceipt` for the account the editor is signed in to
(`Viewer`), because `settle_receipt` writes the receipt's row, the entry and the
balance in one transaction. `Editor` is every other step of `ReceiptDelivery`;
`Money` every other step of `Payouts`, the receipts of other editors included.
To have both in one module `ReceiptDelivery` calls its parts `DeliveryInit`,
`DeliveryNext`, `DeliverySpec` and so on, and its ids `ReceiptIds`, a subset of
the `Receipts` of `Payouts`.

### TeamRecord and AiTeams

`TeamRecord` holds the pure functions of `teamGraph.ts`, `teamBudget.ts` and
`aiTeamStore.ts`, each from a record to a record. `AiTeams` says who calls them:

| Part | Actions | Code |
|---|---|---|
| the user | `Confirm`, `CaptureBase`, `Allocate`; `Resume`; `Cancel`, `CancelRead`, `CancelSave`, `CancelClean`, `CancelReturn`; `Apply`, `CompleteReview`; `RemoveRun` | `startConfirmed`, `resume`, `cancel`, `completeReview`, `remove` |
| the run loop | `Turn`, `Consider`, `NoRoute`, `StartCheck`, `StartSave`, `Scanned`, `EndRead`, `EndSave`, `Caught`, `MergeRead`, `MergeSave`, `MergeDecided`, `MergeImport`, `MergeEnd` | `orchestrate`, `runSafely`, `fail`, `pause`, `buildCombinedReview` |
| a role at work | `Take`, `ReserveSave`, `SettleSave`, `RunnerEnds`, `CloseSave`, `ReportSave` | `runOne`, `settleOutstanding` and its `.finally` |
| the program | `Restart` | `recoverActive` |

A locked operation is two steps: take the lock and read (`holder`, `seen`), then
save what became of what was read. The saves made without the lock keep the
record they read in `copy` (the run loop) and `applying` (`completeReview`). An
agent is a task together with the run that started it, because a resumed team
may start a task again while its first role still unwinds; the code tells them
apart only by their promises, and so settles and forgets controllers by task.
Any save may fail (`SaveFails`), and the step that follows is the one the code
takes: an exception leaves the loop (`Throw`), or turns the outcome of a role
into an error.

Simplifications: one token limit stands for the token, cost and per-agent limits;
a request is settled in full and costs what it reserved, which is never nothing
(`agent.ts:212`); reservation ids are unique (in the code they count from one
again after a restart), and a role settles the reservation it streams on
(`request`); the lock is
granted in any order, which includes first-come-first-served; provider
concurrency is folded into `Concurrency`; whether proposals overlap, and what a
child workspace holds, is a choice; one cancel of a team is under way at a time;
the second save of `completeReview`, which drops the base, goes with the first.

### AiWorkspace

`task` is the record on disk, `manifest` the checkpoint's, `project` the user's
files, `sandbox` the task's copy. A call of the user (`call`) holds the record
it read and goes from one write to the next: `ApplyStart`, `ApplySaved`,
`ApplyManifest`, `ApplyWrite`, `ApplyDone` are the writes of `apply` in their
order, with `ApplyWriteFails` and `ApplyUndo` its catch; `Rollback*` likewise;
`Recover*` is `recoverTransaction`, run by `recoverActive` before anything else
after a `Crash`. Beside the call there is one thing in the background: a
proposal of the agent (`WriteProposal`, `ProposalSaved`) or the clean-up that
runs when another task starts (`DropSandbox`, `SandboxDropped`,
`DropCheckpoint`). Every save writes the whole record (`Save`); `lost` notes
that it overwrote a newer one. `late` holds the files the user edited since the
call in flight looked at them; `pre` the text a file had when it entered the
checkpoint. Texts are model values, each proposal and each edit a new one.

A proposal is accepted whole or by its hunks (`acceptedHunkIds`). Of the many
choices of hunks the model has two: all of them, and some, which give a text of
their own (`Partial`). Either way the whole change leaves the review (`AfterApply`),
and the manifest names the text that was written (`Contents`).

Simplifications: one call of the user at a time, as the board offers them; files
are changed, not created or deleted; how the sandbox is made is a choice that
succeeds or fails.

### CloudSession and CloudHome

The storage calls of a Durable Object let nothing else of it run, so what a
handler does between two calls to the budget, the container or R2 is one step,
and at each such call every other handler may go on. Each handler is a variable
that says which call it waits for: `start` (`ensureRunning`, `start`), `stop`
(`onStopped`, once per monitor and for alarm and attach), `alarm` (`alarm`,
`sleep`), `del` (`deleteEverything`). `Evict` ends all of them and keeps the
storage, as the platform does. A container and its `hostSecret` are named by the
start they came from. Idle times, the health check's 90 seconds and the month's
spend are choices. Time is tied to the calls in one place, `StaleSlot`: a slot
goes stale after ten minutes without a charge (`budget.ts:35`), at any moment
but one, when an alarm is set and none is being handled, for that alarm rings
within a minute and charges the slot. This takes the platform at its word: alarms
ring on time, and one whose handler threw is given again.

Three history variables, which no guard reads, hold what the properties except:

* `cut`: a late stop of an earlier container, or a deletion, took the slot or the
  records of a container that runs, or of a tab just admitted;
* `orphan`: an eviction ended a start whose container runs. The start sets its
  alarm at its end (`userSession.ts:367`) and the constructor (67-76) sets none, so
  the container has no alarm until a later start, alarm or stop sets one;
* `lapsed`: a slot went stale although a handler was at work (a start, a restore,
  an alarm or an admission of more than ten minutes) or its container is an
  orphan; it ends with the next charge.

`CloudHome` has the same container and secret and, instead of slot and charges,
the archives: `homes` are the uploads (a key is the place in that sequence,
where the code uses the time), `objects` the keys still in R2, `store.archives`
the records. The host's answer is taken to be the home at the moment it is
asked. An alarm may start an archive in the background while earlier ones are
still under way (`lastArchiveAt` changes when one ends): `Snapshots` is how many
there may be at once. `behind` notes copies and containers that lack what the newest record
has, `tainted` that it was written out of turn or that a deletion purged R2.

### IncludedAi

One account. `win` are the session and the week (`ai_credit_windows`), `day` the
rows of `tagflow_usage`, `resv` the reservations, `req` the relay's handler,
`call` the settlements on their way, one for the stream's `pull` and one for its
`cancel`. Reservation and settlement are the database functions, one step each.
`SettleFails` is a call whose answer was lost, carried out or not. The relay
always asks for an unlimited reservation (`tagflow.ts:459`), so no limit is
modelled; what is, is the accounting. Tokens, cost and credits are one amount,
as they move together. Holds and usages are positive: an AI model whose credit rate
is zero (`credits.ts:64`), or an answer that reports no tokens (`tagflow.ts:81`,
`177`) costs nothing even when served, and is left out.

## 3. Runs

All runs set `CHECK_DEADLOCK FALSE`: ids run out under the bounds, and the real
system may also simply have nothing to do.

| Run | Bounds | States | Shows |
|---|---|---|---|
| `payouts_core` | 2 users, 2 withdrawals, 2 handlers, 1 receipt, 1 correction, sums 1-2 | 217 k | ledger, balance, rows and audit trail agree in every state, through every interleaving of two handlers; `Payouts` implements `PayoutPromise` |
| `credits_events` | 2 orders, a refund, a dispute, prices 1-2, an administrator | 445 k | any order of payments, refunds and disputes keeps each order's worth and status right |
| `credits_campaigns` | 1 order, a dispute, 2 campaigns, 2 portal requests, budget 2, moves of 1, 1 paid impression each | 1.05 M | what is reserved follows what is active; an underfunded advertiser is stopped |
| `receipts_safe` | 3 views, 2 flushes, a queue of 2, 1 crash | 1.3 M | nothing leaves the queue undecided unless squeezed out |
| `earnings` | 2 views of the editor and 1 of another, 2 flushes, a queue of 2, 1 crash, no withdrawals | 187 k | a view that counts as paid has one entry, the viewer's; what the editor still has is reported eventually |
| `teams_safe` | 1 team of 3 tasks (one waits for another), 2 roles, 2 runs, 2 slots, a budget for one request, 1 failed save or restart | 1.04 M | the record keeps to graph and budget through every race of roles, loop and user |
| `teams_pool` | 2 board runs, 1 slot, no fault | 128 k | who waits for a slot is served |
| `workspace_safe` | 1 task, 2 files, 3 proposals (one of several hunks), 1 edit of the user, 1 failing write, 1 crash, up to symmetry of the files | 2.7 M | what the task wrote can be undone, what the user typed is not overwritten unseen |
| `cloud_session` | 1 slot, 2 containers, 1 fault, 1 eviction, 1 deletion, other sandboxes that come and go | 2.8 M | a container runs in a slot and under an alarm, with the exceptions `cut`, `orphan` and `lapsed` (section 2) |
| `cloud_home` | 2 containers, 1 edit, 3 archives of which 2 are kept, 2 of them in the background at once, 1 stop at work, a failing call, a deletion whose calls may fail or an eviction, up to symmetry of the background archives | 2.2 M | the newest archive is there and complete, and goes back whole |
| `included_ai` | 2 requests, windows of 1, 2 and 3 ticks, days of 2, 4 ticks, 2 faults | 826 k | every window and day is charged for its own requests once |
| `credits_promise` | 1 order, 3 campaigns, 1 request | violated | the finding |

Why the bounds are enough: every race modelled is between two handlers over one
row (a third only repeats one of the two roles); two withdrawals let a user have
one finished and one running; two campaigns are what a budget move needs, and
three what the finding needs. A queue of two with three views is the smallest
that squeezes out a receipt while others are being posted. `earnings` has no
withdrawals and no corrections (`Calls` is empty): with them TLC does not finish
in reasonable time, they are what `payouts_core` is about, and `ViewsEarnOnce`
is proved with any number of them. The proofs remove the bounds for every
property of the passing runs but the two liveness properties
(`EveryReceiptReported`, `QueuedIsServed`), for two of those of `teams_safe`
under the condition section 5 explains. `teams_safe` has two tasks that may run
side by side, which is what a race for record and budget takes, and one that
waits behind the second; two runs (`MaxRuns`) let the roles of the first meet
those of the second; a limit of 3 against requests of 2 (`TokenLimit`, `Sizes`)
makes the second reservation the one that must be refused; one fault
(`MaxFaults`) falls at any save or between any two steps. It has a single team,
so nobody else takes its slots: the queue is the subject of `teams_pool`, where
every request is refused, as what a role spends does not matter to the pool. Two
files are what half an apply takes, and three proposals let a file be accepted,
proposed again and accepted again beside the other. Two containers let a late
stop or archive of the first meet the second; one slot is the smallest budget,
which another sandbox fills; three archives of two kept make one go, two in the
background and the one before sleep overlap as they may; one stop at work
(`MaxStops`) is enough because it clears records, and a second one that clears
them later is that stop run again (`StopAgain`). The clock of `included_ai` is
long enough for a session to end twice and the week once while a request is
under way, and its two requests meet in every window. One fault of each kind is
what the code promises to survive: with two, a handler and the retry of it may
fail.

### Fairness

`earnings` and `teams_pool` need some. In `teams_pool` what was begun goes
on: weak fairness of the run loop, of each role, and of the rest of each user
operation, since every `await` in them settles (a runner ends: providers time
out and the stuck guard stops a role that goes in circles). Nothing obliges the
user to start, cancel or remove anything. For `earnings`: the editor's interval timer (`ads.ts`) starts a
flush again and again as long as it runs: weak fairness of `StartFlush`. A user
who keeps the editor opens it again: `Restart`. The operating system finishes
writes, and the service handles what reached it: `FinishWrite`,
`HandleReceipt`. A connection may fail any number of times but not for ever:
strong fairness of `Arrive` and `Reply`. The property excuses a receipt that
the cap squeezes out or that a torn file loses, since the code accepts both in
so many words.

## 4. Properties

**Payouts.** `OneRequestInProgress`: at most one request in progress per user,
from any number of devices. `HoldMatchesRequest`: the pending part of the
balance is that request's sum, or nothing. `LedgerTellsTheStory`: the entries
about a withdrawal are those its status calls for, so none is both sent and
given back, nor given back twice. `BalanceIsFold`: the cached balance is the
fold of the ledger. `AuditedDecisionsHappened`: no audit line about a decision
that lost its race. `FollowsLifecycle`: the edges a status moves along.
`OnlyCorrectionsOverdraw`: no request or decision takes a balance below zero.
`KeepsPromise`: the refinement.

**AdvertiserCredits.** `OrderNetBounded`, `StatusAgreesWithNet`, `Reconciles`
for the events; `HeldIsActiveBudget` (stated while nothing has been spent and
the advertiser is in standing, because settlement and suspension both leave the
reservation as it was) and `UnderfundedIsStopped` for the campaigns.

**ReceiptDelivery and Earnings.** `LeavesOnlyDecided`: a running editor drops a
receipt only when it is decided, or as the oldest of a full queue.
`EveryReceiptReported`. `EarnedOncePerView`: each receipt is credited at most
once (`PaidAtMostOnce`), one that is credited was shown and has exactly one
entry in the ledger, the viewer's, and one that is not has none.

**AiTeams.** `SpendWithinLimit`: what was really sent is on disk as used or
reserved, and that never passes the limit. `SlotsAccountedFor`: the slots taken
are those of the roles at work and of the loop about to start one, but for one
lost per failed save. `QueuedIsServed`. `DependenciesRespected`: no task ahead
of those it waits for, and none blocked without a failure before it.
`OnlyStaleSavesUndo`: apart from the saves made without the lock, nothing takes
back a cancel, a finished task or spent budget. `NothingSentAfterCancel`: only a
running team makes a role send a request.

**AiWorkspace.** `AppliedHasUndo`: wherever the project holds text of the task,
at every instant and so at every crash, the manifest on disk has the text from
before the task. `HumanTextPreserved`: what the user typed is replaced only by a
change made against that very text, or when it was typed after the call had
looked. `TransactionsAreWhole`: an apply, rollback or recovery that ends well
ended for every file, and a change that left the review is in the project as its
manifest entry says, whole or with the hunks accepted. All three are stated until
a save overwrites a newer record.

**CloudSession.** `RunsInSlot`: a container runs in a slot of the budget from
its start to its end, unless a late stop or a deletion took the slot (`cut`) or
it went ten minutes without a charge and was not charged since (`lapsed`).
`Accounted`: when nothing is under way, a container that runs has the records it
is charged by, and an alarm that charges it, whichever call failed before,
unless a late stop or a deletion took them (`cut`) or, for the alarm, an eviction
ended the start (`orphan`). Neither exception is wider than the code: without
`orphan` TLC violates `Accounted` in four states, without `lapsed` it violates
`RunsInSlot` in four.

**CloudHome.** `SavedHomeSurvives`: what the newest archive has, the next one
has. `RestoredHomeIsComplete`: a home that counts as restored has what was saved
before, also after R2 was purged or an archive was recorded out of turn; only a
container that an archive of an earlier one overtook (`behind`) is excepted. `NewestIsThere`: the archive the next start would put back exists.

**IncludedAi.** `BooksAddUp`: each window and day holds and is charged exactly
what its own reservations say, however late, repeated or lost their settlements.
`NothingServedIsFree`: only a request the provider refused is.

### Findings

`credits_promise`: "Two campaigns cannot promise the same dollar"
(`advertisers.ts:12`), but ending a paused campaign releases budget it no longer
holds, which frees another campaign's.

Read from the code while modelling it, and allowed by the models, without a run
of their own:

* `adjustBalance` says it "cannot push a balance negative"
  (`withdrawals.ts:826`), but checks a balance read earlier and appends without
  a check; a withdrawal reserved in between makes it negative.
  `OnlyCorrectionsOverdraw` is stated as it is for this reason.
* A test says suspending leaves the funded balance untouched
  (`adminAdvertisers.test.ts:80`); the handler writes back the whole row it
  read, so a payment credited in between is lost (`PutAdvertiser`).
* The receipt queue is "disk-backed" (`receiptQueue.ts:2`), but two writes of
  the file may land in the wrong order, and the older content stays
  (`FinishWrite`).
* A team paused after its last task is done (ADCode was closed while it merged,
  or the combined review could not be built) can never resume, because resume
  wants a task to run (`CanResume`); a comment at `aiTeamService.ts:535` takes
  it for granted that resuming repeats the merge.
* Two sandboxes may run in one slot: the slot is admitted again for the same
  person while `onStopped` of the old container waits for its charge, and the
  release that follows takes it from the new container (`StopReleased`; ten
  steps, no fault), although `budget.ts:2` caps the sandboxes running at once.
* An object evicted during a start leaves a container that runs without an alarm
  (`Evict`, `orphan`): the start sets it last (`userSession.ts:349-367`) and the
  constructor (67-76) only watches. Nobody charges it or puts it to sleep, and
  after ten minutes somebody else may be admitted in its place, until its person
  opens a tab again or the container's own inactivity timeout ends it. A test
  (`userSession.test.ts:177`) has an abandoned sandbox saved and stopped after an
  object reset, with the alarm already set.
* A start, a restore or an alarm of more than ten minutes loses the slot while it
  runs (`budget.ts:35`, by age alone), so somebody else may be admitted beside it
  until the next charge takes the slot back (`StaleSlot`, `lapsed`).
* A deletion whose `destroy` failed leaves a container without alarm, secret or
  slot (`DeleteDestroys`); one that fails after purging R2 leaves records of
  archives that are gone, and every later start fails (`DeleteFails`).
* An archive that was requested earlier may be recorded as the newest, and
  `onStopped` of an old container wipes the secret of a new one
  (`ArchiveUploaded`, `StopDone`).
* A proposal, a clean-up or a decision that saves the record it read earlier
  undoes in it what another call saved meanwhile, up to the checkpoint of
  changes that are in the project (`ProposalSaved`, `lost`).
* A workspace in conflict that has a checkpoint can be neither rolled back, nor
  discarded, nor removed; a crash between saving "applying" and writing the
  manifest, or in recovery between the manifest and the record, leads there.
* Rolling back a whole task puts back the text from before the task, also over
  text the user typed between two accepts of the same file; a test
  (`aiWorkspaceService.test.ts:320`) wants it so.
* A hold whose worker died, or whose reservation's answer was lost, stays in the
  window until it ends, and in the day's row for good (`WorkerDies`).

Seen while modelling `AiTeams`, and allowed by it without a run of their own:

* The saves that `OnlyStaleSavesUndo` excepts do undo: a cancel that commits
  while the combined review is built is overwritten by its next save.
* When the save that starts a task fails, its slot is lost until restart, though
  `aiTeamCoordinator.ts:85-87` says a node gives it back however it ends; this is
  the `failures` term of `SlotsAccountedFor`.
* When the save that shows the combined review fails, the handler tries to move
  a record it already holds as "review" to "paused", which the transition table
  forbids; the team stays "merging" until the program starts again.
* With the runner of `ai.ts` a request refused by the budget reaches `runOne` as
  an ordinary error, so the task fails, where `aiTeamCoordinator.test.ts:292`
  has the team pause. `Refusals` allows both.
* Raising the limit does not by itself drain the queue, as `slotPool.ts:7` has
  it; the next release does, as `slotPool.test.ts:68` has it.
* A team whose base could not be captured is paused and can never resume.
* With three runs of one team and one failing save, TLC finds that
  `SpendWithinLimit` and `NothingSentAfterCancel` fail. The `.finally` of a role
  deletes its abort controller by task (`aiTeamCoordinator.ts:327`), so when a
  first role of a task ends late, the second role of that task can no longer be
  aborted. That one lives on into the third run, finds its task under way there
  and asks for budget, while the loop of that run, all of whose roles have ended
  and whose cancel was not saved, pauses the team. The pause reads and saves
  without the lock: its save drops the reservation of a request already sent, or
  the request goes out for a team that is paused by then. TLC needs a search
  guided to it (71 steps; two tasks, requests of 1 or 3, a limit of 3, four
  slots), so there is no run of it here.

## 5. Proofs

Every theorem rests on an inductive invariant that TLC checked first. The
theorems are about the same modules the runs check, with the constants as
named assumptions; the assumptions say of the constants what they are in the
code (sums are naturals, a correction is a non-zero integer, ids do not
coincide, the sets that are summed over are finite).

`SumLemmas` has the lemmas about `SumFunctionOnSet` that the money needs: a sum
is a number, one changed term changes it by the difference, a new member adds
its term, and the sum over a set is the sum over its parts. They are proved by
taking a smallest counterexample, because subset ordering on a finite set is
well-founded (`SmallestSubset`), as the order of the naturals is
(`SmallestNumber`).

`EarningsProofs` proves, first of `Payouts`, for any sets of users, withdrawals, receipts, handlers
and sums:

| Theorem | Says | Inductive invariant |
|---|---|---|
| `TypeCorrect` | `Spec => []TypeOK` | `TypeInv` |
| `OneRequestOnly`, `HoldCorrect` | `Spec => []OneRequestInProgress`, `Spec => []HoldMatchesRequest` | `HoldInv` |
| `LedgerAgreesWithStatus` | `Spec => []LedgerTellsTheStory` | `StoryInv` |
| `BalanceFollowsLedger` | `Spec => []BalanceIsFold` | `FoldInv` |
| `PromiseKept` | `Spec => KeepsPromise`, the refinement of `PayoutPromise` | `TypeInv` |
| `LifecycleFollowed` | `Spec => FollowsLifecycle` | `TypeInv` |
| `OverdrawsAreCorrections` | `Spec => OnlyCorrectionsOverdraw` | `TypeInv` |
| `AuditTruthful` | `Spec => []AuditedDecisionsHappened` | `AuditInv` |

* `TypeInv` adds to `TypeOK` that a row which exists has an owner (or an entry
  booked to it would not be typed), and that a handler about to decide has read
  a status its decision accepts. The latter is what makes a stale read
  harmless: `release` expects the status it read, so a transition the database
  lets through starts from an accepted status (`AllowedIsAccepted`).
* `HoldInv` joins the two hold invariants, because neither is inductive alone:
  that clearing one request clears the whole hold needs that it was the only
  one, and that a new request's hold is its own sum needs that there was none.
* `StoryInv` is the property itself with `TypeInv`; `FoldInv` adds it to the
  fold, since an entry must be new for the sum to grow by it, and that the
  ledger is finite.
* `AuditInv` adds that lines still to be written are true, since a handler
  writes its line one step after its transition; `EffectsLast` shows that they
  stay true because a status only moves along `Lifecycle`.

`AdvertiserCreditsProofs` proves, for any prices, budgets and requests, and any
finite sets of orders, disputes and campaigns:

| Theorem | Says | Inductive invariant |
|---|---|---|
| `TypeCorrect` | `Spec => []TypeOK` | `TypeInv` |
| `OrdersNeverOverdrawn`, `StatusHonest` | `Spec => []OrderNetBounded`, `Spec => []StatusAgreesWithNet` | `OrderInv` |
| `CreditsReconcile` | `Spec /\ [][WritesBackCredits]_vars => []Reconciles` | `ReconcileInv` |
| `UnderfundedStops` | `Spec /\ [][NoWriteBack]_vars => []UnderfundedIsStopped` | `StopInv` |
| `ReservationIsActiveBudget` | `Spec /\ [][NoWriteBack]_vars => []HeldIsActiveBudget` | `HeldInv` |

* `OrderInv` is where repetition and reordering are dealt with. An order's worth
  and what its open disputes hold of it together never exceed what was paid
  (`NetCovered`); a dispute holds something only after it was opened for a paid
  order (`DebitsTaken`); so a release gives back no more than was taken, whatever
  came before it.
* `HeldInv` adds what a portal request read (`RequestsMakeSense`): the spend it
  will tell the database is no more than was spent.
* The last three have a hypothesis, because an administrator who suspends an
  advertiser writes back the row read before (`admin.ts:615`), and with it funds
  and reservation that have changed meanwhile. Without it they are false;
  `credits_campaigns`, which checks them, has no administrator. The hypotheses speak of that one step: `WritesBackCredits` allows it
  when the funds are still those that were read, `NoWriteBack` excludes it.

Then of `ReceiptDelivery`, for any receipts, queue size, number of flushes and
crashes, and of `Earnings`:

| Theorem | Says | Inductive invariant |
|---|---|---|
| `DeliveryTypeCorrect` | `DeliverySafeSpec => []DeliveryTypeOK` | `DeliveryInv` |
| `ViewsPaidOnce` | `DeliverySafeSpec => []PaidAtMostOnce` | `DeliveryInv` |
| `OnlyDecidedLeave` | `DeliverySafeSpec => LeavesOnlyDecided` | `DeliveryInv` |
| `EarningsArePayouts`, `EarningsAreDelivered` | `EarningsSpec => Spec`, `EarningsSpec => DeliverySafeSpec` | none |
| `ViewsEarnOnce` | `EarningsSpec => []EarnedOncePerView` | `EarnInv` |

* `DeliveryInv` adds that the editor has only receipts it issued (`Known`), in the
  queue, the file and every write of it under way.
* The rest is about sequences: `Acked` keeps what is not acknowledged, in its
  order, and a push to a full queue drops its head. The lemmas follow the
  recursion of `Acked` from the first place where they could fail.
* Every step of `Earnings` is a step of each component or leaves it alone
  (`StepOfBoth`), so every theorem about either holds of the two together.
* `EarnInv` joins what the service counts to what is booked: `DeliveryInv`, that
  whatever was posted or reached the service was shown (`Sent`), and the property
  itself. A step of the money cannot touch it because no other entry has the id
  of an earning of this editor's receipts (`MoneyLeavesEarned`); a posted
  receipt changes count and ledger in one step (`PostedIsEarned`).

`AiWorkspaceProofs` proves, for any files, texts, sequences of proposals and of
edits, and any number of failing writes and crashes:

| Theorem | Says | Inductive invariant |
|---|---|---|
| `TypeCorrect` | `Spec => []TypeOK` | `WorkInv` |
| `HumanTextKept` | `Spec => HumanTextPreserved` | `WorkInv` |
| `UndoOnDisk` | `Spec => []AppliedHasUndo` | `WorkInv /\ UndoInv` |
| `WholeTransactions` | `Spec => TransactionsAreWhole` | `WorkInv /\ UndoInv` |

* `WorkInv` holds whatever a save overwrites: what each call in flight has
  written so far and has still to write, step by step (`Applying`,
  `RollingBack`, `InRecovery`), and that a background save and a short call have
  read what they save.
* `UndoInv` holds until a save overwrites a newer record (`lost`): the call in
  flight works on the record that is on disk (`CallsSeeTheirRecord`); the texts
  the checkpoint must hold are those of `pre` (`OriginalsKept`, `InManifest`);
  where no text of the task is in the project, nothing is owned
  (`NothingOwned`); and every place of a rollback or a recovery already passed is
  put back (`PutBack`).

`CloudSessionProofs` proves, for any number of slots, other sandboxes, starts,
failing calls, evictions and deletions (all naturals, at least one slot):

| Theorem | Says | Inductive invariant |
|---|---|---|
| `TypeCorrect` | `Spec => []TypeOK` | `TypeInv` |
| `SlotKept` | `Spec => []RunsInSlot` | `TypeInv /\ WatchInv` |
| `AlarmsKept` | `Spec => []Accounted` | `TypeInv /\ WatchInv` |

* `TypeInv` adds the types of the history (`HistoryTypes`), and that a running
  container's name is one of the starts (`Watched`): its monitor, indexed by that name, is then one that can run
  `onStopped`, and only that one leaves its `"watch"` when the container stops.
* `WatchInv` widens both properties to the moments they do not speak of.
  `SlotHeld` starts when the tab is admitted, because the slot is charged before
  there is a container. `AlarmComing` covers the moments without an alarm: a
  start that will set one, and an alarm being handled, which sets the next or is
  handled again after an eviction. It is also what `SlotHeld` needs where a slot
  goes stale without being `lapsed`: no handler is then at work and no alarm is
  set, so no container runs but one that was cut off.
* That an exception ends is proved with it (`Excused`): `lapsed` with the next
  charge, `orphan` with the next alarm or the end of the container.

`CloudHomeProofs` proves, for any number of containers, archives (any number of
them in the background at once), stops and edits, with failing calls, evictions
and deletions (at least two archives kept):

| Theorem | Says | Inductive invariant |
|---|---|---|
| `TypeCorrect` | `Spec => []TypeOK` | `TypeInv /\ Lists` |
| `NewestStays` | `Spec => []NewestIsThere` | with `Filled`, `Uploaded` and the property itself |
| `RestoredIsComplete`, `SavedSurvives` | `Spec => []RestoredHomeIsComplete`, `Spec => SavedHomeSurvives` | `HomeInv`: all of these and `Covered` |

* `Lists` says that the records, and the lists an archive under way will save,
  name uploads in the order they were made; so the newest record is the last
  place, and trimming the oldest cannot take it while two are kept.
* `Uploaded` is about an archive between its record and its trim: its key is in no
  list but its own, so no other trim deletes the object, and it is there unless a
  deletion or another archive's record overtook it.
* `Filled` relates the secret to the home: a home counts as restored only if it
  was filled under the secret it has (`restoredFor`), and a restore under way
  works on an empty home. This is what makes a half-restored home never the
  source of an archive.
* `Covered` widens `RestoredHomeIsComplete` to the moments it does not speak of:
  the archive a restore is putting back (`BoxCovers`) and every copy that may
  still be recorded (`SaversCover`) have what the newest record has. Recording
  one therefore keeps it, which is `SavedHomeSurvives`.

`IncludedAiProofs` proves, for any finite set of requests, usages, window and
day lengths and number of faults (the hold and every usage are positive):

| Theorem | Says | Inductive invariant |
|---|---|---|
| `TypeCorrect` | `Spec => []TypeOK` | `BookInv` |
| `BooksBalance` | `Spec => []BooksAddUp` | `BookInv` |
| `ServedIsCharged` | `Spec => []NothingServedIsFree` | `Inv`: the shapes of five variables and `Accounted` of every request |

* `Accounted(r)` follows a request to its end: until then nothing is settled or
  on its way (`Untouched`); a settlement on its way is free for a refusal only
  and otherwise at least what was served (`Owed`); and nobody cancels a request
  that was refused, so a free settlement is the last one (`RefusalIsLast`).
  Without that last part a worker that dies would leave a free settlement behind
  a request that no longer counts as refused.
* `BookInv` adds when a reservation was made (`Timely`, `Booked`): its day and
  the windows it was booked in exist, and a window that has been replaced since
  started earlier, which is how a late settlement knows not to touch it. That
  nothing held falls below zero, which `TypeOK` wants, follows from the sums.

`AiTeamsProofs` proves, for any finite sets of teams and tasks, any plans,
limits, numbers of runs, slots and roles, failing saves and restarts:

| Theorem | Says | Inductive invariant |
|---|---|---|
| `DependenciesAreRespected` | `Spec => []DependenciesRespected` | `SoundShape` |
| `OnlyStaleSavesCanUndo` | `Spec => OnlyStaleSavesUndo` | `Ordered` |
| `SlotsAreAccountedFor`, `TypesAreKept` | `Spec => []SlotsAccountedFor`, `Spec => []TypeOK` | `Placed` |
| `BudgetIsKept`, `CancelledTeamsAskNothing` | `Spec /\ []PausesAlone => []SpendWithinLimit`, `=> NothingSentAfterCancel` | `Billed` |
| `OnlyLeftOversMeetAPause` | `Spec => []LeftOver`: who breaks `PausesAlone` is a role of an earlier run | `AllDeserted` |
| `FirstRunKeepsTheBudget` | the budget without a condition if no team is resumed (`MaxRuns = 1`) | `SoundShape`, `AllDeserted`, `Billed` |

The invariants are built one upon the other, and each is a conjunction over the
teams. What one team does touches another in one way only, by handing it a slot
it waits for (`Apart`, `Handed`), so each action is looked at for its own team;
what it does to each variable is said once, in the lemmas named `...Does`.

* `SoundShape` is about single records. The record on disk says little when four
  copies of it may still be saved: the one the holder of the lock has read
  (`seen`), those of the run loop (`copy`) and of `completeReview` (`applying`).
  So `Sounds` says of every one of them that it is `Sound`: its tasks respect the
  graph, it has the handoffs of what is done, and what it used and set aside fits
  the limit. Then no save, however old, can break `DependenciesRespected`. `Shape`
  says who may hold the lock and that no run waits twice for a slot. That a failed
  task blocks exactly what waits for it takes an argument about the rounds of
  `BlockedBy`: each blocks a task or is the last that matters, and there are as
  many rounds as tasks.
* `Ordered` adds which copy is ahead of which (`Order`): what is read under the
  lock is never behind the disk (`Under`), a team in review has done every task
  and nothing runs for it, and a team that can still be started never ran. That
  is why nothing but the saves named in `OnlyStaleSavesUndo` takes anything back.
* `Placed` adds that a role of the current run has its task under way in every
  copy (`Fresh`), so the loop never starts a second role into the entry of the
  first; then the slots taken are the roles at work, the runs with a slot in
  hand, and at most one slot per failed save (`Accounted`).
* `Billed` adds that what was sent is used or set aside in every copy that may
  still be saved (`Covered`), and that a role asks for budget only while its team
  runs. It is inductive only while no pause meets a role that is about to be
  granted a request. `PausesAlone` says exactly that of a state; it holds in
  every state of `teams_safe`, and the behaviour of three runs told in section 4
  breaks it. The hypothesis is thus about the one interleaving in which the
  properties do fail. How rare it is, is proved too: the loop pauses only when it
  sees no role of its own run, so the role must be left over from an earlier one,
  and no team that is never resumed meets it.

Only model-checked, and why:

* `EveryReceiptReported` and `QueuedIsServed` are liveness under fairness, which
  the prover does not reach, nor `ENABLED`.
* `PausesAlone` itself, for two runs: it is false for three.
* Lemmas whose induction would be over an operator given as a parameter are
  stated for the definition at hand instead, by a smallest counterexample, as in
  `SumLemmas` and `EarningsProofs`. No module uses a `RECURSIVE` operator.

## 6. Not modelled, and the plan

Left out of the modelled components: payout profiles and their encryption,
eligibility rules about the person, creatives and their artwork, auction
prices and targeting tags, rate limits, statistics, the display scheduler and
the asset cache. They decide whether an operation starts, or how it looks, and
change none of the state above. The other components are listed in the
inventory; the editor shell, the web site and the wrappers around external
programs are not planned at all: they are most of the repository's lines, and
what they do to state that others share goes through the components above.
Of the new components left out: a sandbox's previews and downloads, how a
workspace's sandbox is copied, the limits of included AI the relay no longer
asks for, its fallback models and its metrics.

Next, in this order:

1. An abstract specification of a team (a task is done once, a request is paid
   once) that `AiTeams` implements except for the unlocked saves.
2. The advertiser's side of a settled receipt (`AdvertiserCredits!SettleReceipt`)
   in `Earnings`, so that what is earned is also what is charged.
3. Referrals and awards, and the collaboration session's permissions, as further
   modules.
