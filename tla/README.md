# Jointbox ISP panel: formal models

TLA+ models of the parts of the backend in `src/backend/src` whose steps interleave: the money
paths, background jobs, notifications and reminders, prepaid cards, field jobs with their
material, and recurring work orders. TLC configurations check them on small instances, and
TLAPS proofs hold for every size. The panel is a NestJS
application over PostgreSQL (Prisma) that several cluster workers run at once
(`src/ecosystem.config.js`); every `await` of a handler is a point where another handler, in
this process or another, may run. That is the one modelling idea of the whole project: **a
handler is a sequence of steps, one per await that reads or writes shared rows, its local
variables are part of the state, and handlers interleave freely and may die between any two
steps.** A database transaction that locks the row it works on is one step, and so is one
that runs SERIALIZABLE.

## 1. Inventory

| Component (`src/backend/src/...`) | State | Operations | Hard part |
|---|---|---|---|
| `invoices` | Invoice, items | create, `recordPayment`, update | two cashiers and a callback on one invoice; duplicate guard read without a lock |
| `payments` | Payment | `create`, `update`, `remove` | each reads the invoice and later writes absolute figures; effects on the ledger must be undone |
| `accounting` | LedgerEntry, BalanceTransaction, RefundRequest, Expense | `post`, `refundPayment`, approval queue, `reverseInvoice`, `topUpBalance`, `deductBalance`, reconciliation | a refund is six separate writes after one compare-and-set; approval and rejection cross |
| `gateway` | GatewayTransaction | `initiate`, `handleSuccess`, `handleFailure` | duplicated, late and contradictory deliveries; claim, payment and extension are separate |
| `payment-gateways` | the same table, hosted checkouts | `createCheckout`, `handleWebhook` | repeated webhooks beside a cashier |
| `subscribers`, `renewal.service` | Subscriber, ServiceSettings | `activateRenewal`, `deactivateAndRelease`, registration, import, transfer | double clicks, retries that compute another period, crash between charge and activation |
| `billing` | BillingRun | nightly invoice, renewal, suspension | long loops over a list read once; charge, extend, activate as separate steps |
| `organization` (`reseller-pricing.service`) | User.balance, UserBalanceTransaction, ProfitEntry | `settleActivation`, top-up, transfer | prepaid check against concurrent charges |
| `billing-ext` | the same invoices | second reversal path, adjustments | full, partial and pro-rata reversal |
| `notifications`, `common/queue.service` | NotificationLog (outbox) | enqueue, claim, deliver, retry, recover | a slow delivery outlives its claim |
| `tasks` | TaskReminder | schedule, claim (`lockedUntil`), hand over, retry | reclaim while the first worker still works |
| `jobs` | Job | enqueue, drain, requeue at boot | lost wake-up; requeue of a job another worker runs |
| `vouchers`, `nas/radius-sync` | Voucher, RADIUS tables | generate, allocate, redeem into a wallet or at a hotspot, release, delete | claims beside writes by id; RADIUS rows written one statement at a time |
| `field-jobs` | FieldJob | create, assign, unassign, arrive, start, complete, review, cancel, remove | appointments that overlap; checks in one statement, writes in another |
| `inventory` | InventoryItem, InventoryMovement | reserve, issue, consume, return, stock moves | material that moves while its job is closed, reassigned or deleted |
| `field-job-schedules` | FieldJobSchedule, FieldJobOccurrence | cron claim, queue, generate, edit, pause | leases that run out, lost queue entries, edits that move the plan |
| `hr`, `static-ip` | their rows | leave, allocation | allocation under concurrency |
| everything else | | see `PROJECT.json` | row maintenance, router I/O, reports, user interface |

How they interact: `gateway` calls `invoices.recordPayment` and writes `ServiceSettings`;
`invoices`, `payments` and `billing` post through `accounting`; `subscribers.activateRenewal`
and `billing.runAutoRenewal` charge the dealer through `settleActivation` and the customer
through `deductBalance`; staff screens, callbacks, webhooks and cron jobs meet only in the
database rows. `tasks` hands reminders to `notifications.send`, and both `notifications` and
`field-job-schedules` go through `common/queue.service`, which is durable with Redis and lives in
the process without; `field-jobs` calls `inventory.applyFieldJobMovement`. The only memory
that matters beside the rows is that queue and the flag `draining` of `jobs`.

What makes each part correct:

* *invoice desk*: `paidAmount` is the payments less the refunds; the ledger follows the money;
  no payment is refunded beyond its amount; a claimed refund is handed over once; a rejected
  request moved nothing and an approved one moved something; a cancelled invoice holds no money;
* *online payments*: captured money is credited once, and is credited; service is extended only
  for recorded payments; a cashier cannot push the invoice over its total;
* *renewals*: one click sells once; a settlement key is charged once; a sale and its charge
  happen together; nobody is overdrawn; the nightly job grants nothing it did not take; a skip
  or a recovery refers to a charge that exists;
* *outbox and reminders*: a delivery that was confirmed is not repeated by itself, an outcome is
  written only by the claim that holds the message, what waits can still be claimed, and a
  reminder reaches an outcome and the right employee;
* *jobs*: one worker at a time runs a job, outcomes stand, nothing starves, and what a crash
  interrupted is finished after the restart;
* *vouchers*: a card gives its value once, is not moved to another reseller after that, and its money reaches
  the ledger;
* *field jobs*: closed jobs hold no material, issued material is on its technician's books,
  technicians are not double-booked, and failed visits can be repeated;
* *schedules*: one job per occurrence, none skipped, and a due one is served.

## 2. Modules

| Module | Models | Correspondence |
|---|---|---|
| `InvoiceBooks` | the rows of one invoice and the handlers' local state | `invoice`, `payments` are rows; `books` is the net debit per account of LedgerEntry; `wallet` is Subscriber.balance with the latest statement; `req[r].pc` is the statement that comes next, `req[r].inv` and `req[r].row` what the handler read earlier; `given` is a history variable |
| `PaymentEntry` | `InvoicesService.recordPayment`, `PaymentsService.create/update/remove` | one action per await: `RecordGuard`, `RecordCommit` (row lock), `CreateRead`, `CreateWrite`, ... |
| `Refunds` | `refundPayment`, request/approve/reject, `reverseInvoice` | `RefundClaim` is the compare-and-set on refundedAmount, what follows are separate writes; `tickets` are RefundRequest rows |
| `InvoiceDesk` | the two above interleaved | properties between invoice, payments and books |
| `ChargeOnce` | abstract: captured money is credited at most once | implemented by the hosted checkouts in `OnlinePayments` |
| `OnlinePayments` | `GatewayService.initiate/handleSuccess/handleFailure`, service extension, hosted checkout and webhook, beside a cashier's `recordPayment` from `PaymentEntry` | `txs` is GatewayTransaction; `captured` is the provider's side (external); `SettleClaim` is the conditional update |
| `Renewals` | `activateRenewal`, nightly jobs, `settleActivation`, `deductBalance`, `deactivateAndRelease` for one customer of one dealer | `sub` is Subscriber and ServiceSettings, `rows` both wallet statements (only their references matter), `bills` the invoices with "has a payment", `recent` the 15-second window |
| `JobQueue` | `JobsService` in every process of the cluster | `job` is the Job row, `worker[w]` the process with its handlers and the place of `drain()`, `kicks` the requests whose insert has returned and that still call `drain()`; `overtaken` is a history variable |
| `ClaimedWork` | abstract: what a numbered claim on a row promises | implemented by the messages of `Outbox` |
| `Outbox` | `NotificationsService` and the queue of `QueueService` | `msgs` is Message, `jobs` the queue entries, `calls` runs of `processMessage`; the number of the attempt stands for `sendingAt` |
| `TaskReminders` | `TasksService` on top of `Outbox` | `reminder` is the TaskReminder row, `ticks[t]` a run of `cronTaskReminders` with the row it read; `Sync` is `syncReminder` |
| `Vouchers` | `VouchersService`, and `syncSubscriberProfile` as it uses it | `card` is Voucher, `topups` the wallet rows that name the card, `radius` the login of the card's code, `request[r].pc` the statement that comes next |
| `FieldWork` | `FieldJobsService` and `InventoryService` | `job`, `item`, `moved` are FieldJob, InventoryItem and InventoryMovement rows; `desk[d]` what an unassign or a remove has read, with `fresh` for "updatedAt unchanged" |
| `WorkSchedules` | `FieldJobSchedulesService` with its queue | `sched` is the row with its lock, `cron[c]` a run of `generateDueOccurrences`, `queue` entries with the claim's token, `slots` FieldJobOccurrence rows |
| `MC...` | instances | symmetry, appointments, plans, offers |
| `PaymentEntry_proofs` (lemmas that two of the others use), `InvoiceDesk_proofs`, `OnlinePayments_proofs`, `Renewals_proofs`, `FieldJobs_proofs` (of `FieldWork` and of `WorkSchedules`), `JobQueue_proofs`, `TaskReminders_proofs`, `Vouchers_proofs` | proofs | section 5 |

Abstractions. Amounts in the desk are multiples of half a unit, so the handlers' tolerance of
0.5 is exact and their rounding tolerances disappear. Time in `Renewals` is counted in half
days, and a package costs one unit a day, so that pro-rata amounts are whole. Names, texts,
currencies, taxes, notifications, RADIUS updates, audit rows and tenancy checks are left out.
A crash stands for the death of a worker and for any statement that throws out of the handler.
`WindowPasses` and `SettlementsAge` stand for the 90-second and the 15-second windows. In `Outbox`,
`TaskReminders` and `WorkSchedules` the ages at which claims, locks and leases run out are left
open: they may be over at any time, which allows every order that some age allows.
`ProviderFails` stands for a refusal and for every way an accepted message's answer is lost.
In `FieldWork` appointments are hours; in `WorkSchedules` calendar rules and time zones are a
grid of instants. SERIALIZABLE transactions are taken to be atomic also against requests at read
committed.

Definitions preceded by a comment that begins with *Mutant* are not used by any specification: each is
a definition with a plausible bug, kept to show that a property of a run notices it.

## 3. Runs

Passing runs:

* **desk_refunds** (4 handlers, 2 in flight, one payment of 1 or 2, one refund request, crashes).
  `ClaimsWithinPayments`, `EveryClaimGivenOnce`, `LedgerTracksMoney`, `ApprovedMoved`. Two
  in flight is enough because each conflict in the code is between two readers of one row;
  four handlers allow a receipt, two refunds of slices, and an approval or a rejection.
* **desk_corrections** (5 operations, one at a time, two payments, postings may fail).
  `Reconciles`, `BooksAtRest`, `CancelledHoldsNoMoney`: every sequence of receipts, edits, deletions
  and reversals leaves the invoice and the books as if computed from the remaining payments. It
  is sequential on purpose: with two at once the properties fail (section 7).
* **online** (3 handlers at once, one gateway transaction, one hosted checkout, crashes).
  `PaidIsThePayments`, `StaffWithinTotal`, `CreditsNeedReopening`, `ServiceIsPaidFor`, and
  `HostedSettleOnce`: hosted checkouts refine `ChargeOnce`.
* **renewals** (3 handlers, 2 in flight, one browser key and requests without one, cash for a
  day or whatever the wallet buys, one and a half days, a two-day package, a dealer who can afford two
  charges). `OneClickOneSale`, `OneRowPerReference`, `NoOverdraft`, `RenewalsArePaid`,
  `SalesAreSettled`. Within the bound a bought day expires, the job renews it in full or
  pro rata, a clerk sells at the same moment, a worker dies between charge and activation, and a
  third request recovers.
* **jobs** (2 processes, a built-in and a late job, two crashes or failing statements). `TypeOK`,
  `OneRunner`, `OutcomesStand`, and the liveness properties `NoJobStarves` and `LeftoversFinish`.
  Two troubles are what it takes to lose a runner and then its successor, or a runner and the
  requeue.
* **deliveries** (1 reminder, 1 message, 3 attempts, 2 deliveries at a time, 2 queue entries, 2
  crashes, 1 retry by staff; with and without Redis, with and without a provider).
  `NoSilentDuplicate`, `WaitingIsClaimable`, `SentWasTaken`, the refinement `ClaimsHold`, and the
  liveness property `RemindersSettle`.
* **reminders** (2 messages, 2 employees, one change of the task by staff, a crash, a retry).
  `DeliveredToAssignee`.
* **vouchers** (1 card with a package, 2 wallets, 3 requests at a time, two troubles). `GivenOnce`,
  `NoSoldCardMoves`, and the liveness properties `NotBurned` and `CreditsArePosted`. No code
  path gives a card its package; `WithPlan` assumes that the database may, or the hotspot path
  would be dead.
* **fieldwork** (2 jobs, 2 technicians, 1 unit, 1 desk, 3 appointments, two with an open end).
  `ClosedJobsHoldNothing`, `IssuedToItsTechnician`, `NoDoubleBooking`: the three are proved for every
  size, the run is the small instance.
* **schedules** (2 cron runs, 3 tokens, 4 plans, 3 instants, 2 edits, 2 troubles). `OneJobPerSlot`,
  `NoSlotSkipped`, and the liveness property `DueIsServed`.

Two runs show a disagreement between the code and what it says of itself, each by a shortest
trace of TLC; section 7 lists the others.

| Run | Property | What happens |
|---|---|---|
| online_unrecorded | `ClaimedIsRecorded` | a callback claims its transaction and is then refused as a duplicate; the money is never recorded |
| fieldwork_failed | `FailedJobsComeBack` | a FAILED job keeps its arrival, and assign refuses jobs with an arrival: the branch that resets a failed visit is never reached |

Deadlock checking is off in all runs because every instance ends when its handlers, edits and
troubles are used up and the clock has reached its bound. Symmetry is used where handlers, payment rows, keys or transactions are
interchangeable and no run with symmetry checks liveness.

Type invariants that no run lists are proved: those of `TaskReminders`, `OnlinePayments`,
`FieldWork` and `Vouchers`.

The bounds: `Requests` (each handler runs once), `MaxInFlight`, `PaymentIds`, `Tickets`,
`Gateway`, `Hosted`, `Amounts`, `MaxTime`, `MaxWallet`, `ClientKeys`, `Offered`. `Ops` selects
the operations of an instance; `"crash"`, `"postfail"` and `"midnight"` (the clock may move
while a handler runs) are failures and delays that an instance may include. `MaxCrashes`,
`MaxRetries`, `MaxJobs`, `MaxEdits` and `MaxTroubles` bound crashes, retries by staff, queue
entries, changes by staff, and failures of all kinds; `MaxMessages` the messages; `Horizon` the
clock of `WorkSchedules`. `MaxAttempts = 3` and `MaxReminders = 3` in **deliveries** are the code's
own constants.

## 4. Fairness

The money paths assume none: an HTTP handler may never be called, a worker may die, and no loop
retries what is left. Where the code has timers and loops, weak fairness says that they go on:

* `JobQueue`: `WF(Kick)` and `WF(Drain)` per process (the event loop runs what has been started
  and built-in handlers end), `WF(Boot)` (the process manager restarts a process). Nothing is assumed of
  `Enqueue`, `Register`, crashes or failures.
* `TaskReminders`: `WF` of each cron run and of the two recovery jobs (`@Cron('* * * * *')`), of
  taking a queue entry and of a delivery (both have time limits). Staff and crashes are free.
  A tick's steps are one disjunction, so a reading may be repeated for ever with another
  outcome; the attempts bound that.
* `Vouchers`: `WF` of a running request; a request is never obliged to start, and may die.
* `WorkSchedules`: `WF` of the cron (`EVERY_MINUTE`), of the queue's worker, and of the end of a
  lease that nobody uses any more. Failures, restarts, edits and the clock are free.

Each liveness property excepts what a failure, where the code gives up by itself, leaves behind, and says so.

## 5. Proofs

`InvoiceDesk_proofs` (any number of handlers, payments, requests; any total, tolerance, threshold):

* `TypeCorrect`: `Spec => []TypeOK`, action by action.
* `RefundsWithinPayments`: `Spec => []ClaimsWithinPayments` if no payment is edited
  (`"update" \notin Ops`). The assumption is needed: an edit below the refunded amount breaks it.
  `ClaimsWithinPayments` is not inductive, because `RefundClaim` decides from a row read
  earlier. The invariant `ClaimInv` adds what such a reading is worth: the amount of a payment
  that was read is still its amount (`ReadingsHold`), amounts are positive (so that "closed" and
  "nothing left" agree) and no edit is under way.
* `ApprovedRequestsMoved`: `Spec => []ApprovedMoved`, with `ApprovalInv`: an approval past its
  claim has moved money for its own request, whoever else decides about it meanwhile.
* `ClaimsAreGivenOnce`: `Spec => []EveryClaimGivenOnce`, for all operations, failures and deaths. The
  equation is almost inductive; `GivenInv` adds that a payment that does not exist owes nothing and that
  only refunds to the balance come to the wallet's statements. Steps are sorted by what they do to the
  equation: nothing (`PlainStep`, its handler owes nothing before or after), a handler goes on or dies
  (`RefundGoesOn`, the debt stays), a claim (both sides grow), a hand-over (the debt becomes a gift).
* `LedgerKnowsTheMoney`: `Spec => []LedgerTracksMoney` if nobody edits or deletes payments
  (`"update"`, `"remove" \notin Ops`), any number of handlers at a time. The property speaks of such
  desks: `Lag` counts what receipts and refunds still have to post, while the posting of an edit
  or a deletion comes after, or before, its row and may fail for good. `LedgerInv` adds that a refund that owes a
  posting is for a payment that still exists.
* `OnlyStaleChecksSpoilCancelled`: `Spec => CancelledByStaleChecks`, an action property, for all operations,
  failures, deaths and any overlap. `CancelledHoldsNoMoney` itself fails when handlers overlap (section 7);
  the theorem says which statements can spoil it: the cancellation of a reversal whose check has gone
  stale, and the insert of a payments screen that looked at the invoice before. `recordPayment`, which checks
  again inside its lock, cannot. It also names the four statements that write figures worked out from an
  older reading and so can open a cancelled invoice again. `SoundInv` carries what a handler past its
  check still knows about the rows.
* `NothingIsPaidTwice`: `Spec => []PaidAmountWasReceived` if nobody edits or deletes payments, for any
  overlap of receipts, refunds, approvals, reversals, failures and deaths. `Reconciles` fails there because
  updates get lost (section 7); the theorem says that they are lost in one direction only: the invoice never
  shows money that did not come in, and one that reads PAID was paid. `ReceivedInv` bounds the paid
  amount, and every reading of it that a handler will still use, by what handlers have told the
  invoice (`Entered`: what was received less what is inserted and not yet told, `Coming`). Edits and
  deletions write figures that fall behind in the other direction, which is why they are excluded.
* `ReceiptsAreNeverLost`: `Spec => []Reconciles` for desks on which handlers overlap, with receipts
  (`recordPayment`), reversals and deaths (`create`, edits, deletions and refunds are left out; section 7 has
  the update that `create` loses). `recordPayment` adds to the counter inside the row lock, so
  `CounterInv` has the equation in every state, not only at rest; the readings a handler took earlier
  (`Receives`) do not matter for it.
* `ReceiptsKeepTheBooks`: `Spec => []BooksAtRest` for desks with receipts only, overlapping and dying as they
  like. `FiguresInv` adds the due amount, the status and that cash and receivables together are the
  invoice's total; how much of it is cash comes from `LedgerKnowsTheMoney`. Reversals are left out because two at once post twice (section 7).

`PaymentEntry_proofs` has the lemmas on sums that these and the next proofs rest on. `SumFunctionOnSet`
folds a set in the order of `CHOOSE`; `SumChange` (one value changes), `SumSame`, `SumZero`, `SumType`,
`SumStep` and `SumNat` state that the order does not matter. They are by the smallest counterexample
among the subsets of a finite set (`Smallest`, from the well-foundedness of strict inclusion), which
needs no induction rule. Therefore `Requests`, `PaymentIds` and `Gateway` are assumed finite:
at any moment a database has finitely many rows and a process has taken finitely many requests.

`OnlinePayments_proofs` (any transactions, amounts, cashiers, deliveries and crashes; finitely many
handlers, because they are counted):

* `TypeCorrect`: `Spec => []TypeOK`; what concerns `recordPayment` is shared with the desk
  (`PaymentEntry_proofs`).
* `HostedChargesOnce`: `Spec => HostedSettleOnce`, the refinement of `ChargeOnce`. `HostedInv` says
  that a credit given is a transaction in SUCCESS (`CreditedIsSettled`), because webhook, payment and
  status commit together and nothing takes a hosted transaction out of SUCCESS, and that a
  webhook with a success is about captured money (`Deliveries`).
* `CreditsPerReopening`: `Spec => []CreditsNeedReopening`. A callback that won the claim will record
  whatever the row says by then, so the credits given are not inductive; `CreditsCovered` counts with them the
  callbacks that still may credit (`Claimed`): together at most the reopenings, plus one while
  the transaction reads SUCCESS. A lost duplicate guard or a crash only makes the left side smaller.
* `PaidMatchesPayments`: `Spec => []PaidIsThePayments`, and `StaffTakeNoMoreThanTotal`:
  `Spec => []StaffWithinTotal`. `MoneyStep` sorts the steps: one leaves invoice and payments alone or adds
  one payment to both. What staff took is at most what the invoice holds (`StaffCovered`), so the
  locked check against the invoice bounds it although callbacks add to the invoice unchecked.
* `NoServiceUnpaid`: `Spec => []ServiceIsPaidFor`. A callback extends from a reading that others overtake,
  so `ServiceCovered` counts the extensions still to come (`Promised`) with those granted, and bounds
  what a handler is about to write by its own reading.

`Renewals_proofs` (any package, price, credit limit, clock, set of handlers and keys):

* `TypeCorrect`: `Spec => []TypeOK`.
* `ChargedOnce`: `Spec => []OneRowPerReference`; inductive together with the types, because the
  duplicate check and the row are in one locked step. `AppendDistinct` carries the argument, applied
  twice where a sale writes a dealer's and a customer's row.
* `Prepaid`: `Spec => []NoOverdraft`; the conditional update and the locked check bound the
  only steps that lower a balance.
* `ClickSellsOnce`: `Spec => []OneClickOneSale`; a bill with a key is appended only by a sale that
  found the key nowhere, and `ActFinish` never changes a key.
* `NightlyServiceIsPaid`: `Spec => []RenewalsArePaid`. `NightlyInv` counts the jobs that have charged and
  not yet extended (`Extending`) with the periods granted: a death in between loses a period, never a charge.
* `SoldOrRefused`: `Spec => []SalesAreSettled`. `ActSold` is the only step that appends a dealer's
  activation charge or a paid invoice, and it appends one of each; the lemmas about `Places` count
  the places of a sequence that hold members of a set.

`FieldJobs_proofs`, of `FieldWork` (any jobs, units, technicians, requests and appointments):

* `TypeCorrect`: `Spec => []TypeOK`.
* `ClosureSettlesMaterial`: `Spec => []ClosedJobsHoldNothing`, and `IssuesNameTheTechnician`:
  `Spec => []IssuedToItsTechnician`. Both follow from the invariant `Custody`, which speaks of one unit
  at a time (`Kept`): the job of an issued unit is not closed, the unit is ASSIGNED and the job's
  technician is its owner or nobody; the job of a reserved unit is not closed. Neither property is
  inductive alone: closing a job is safe only because of what issuing checked, and issuing only
  because of what assigning refused. A deletion is covered because it clears every reference.
* `AppointmentsStayApart`: `Spec => []NoDoubleBooking`; the lemma `OutOfTheWay` says that what
  `InTheWay` does not find is apart, open ends included.

`JobQueue_proofs` (any processes, jobs, crashes and failing statements):

* `TypeCorrect`: `Spec => []TypeOK`.
* `ClaimsExclude`: `Spec => []OneRunner`. `OneRunner` counts runners and says nothing of rows, so it is
  not inductive. The invariant `Runners` adds `Reserved`: while a job that no boot took over has a
  runner, its row is neither new nor QUEUED, so no claim can succeed.
* `OutcomesAreKept`: `Spec => OutcomesStand`, an action property. `RowsFollow` adds that whoever is
  inside an ordinary job finds its row RUNNING; with `ClaimsExclude` the writer of an outcome is the only one.

`TaskReminders_proofs` (any messages, carriers, attempts, people, overlapping cron runs and crashes):

* `MessagesAreClaimedWork`: `Spec => ClaimsHold`, the refinement of `ClaimedWork` by the messages.
  `MessageSteps` reduces every step of tasks and reminders to what it does to a message
  (`Requested`); `Sound` says that a row's claim is its last attempt and that what waits is allowed
  another; then each step is one of the abstract claim, decision, give-up, retry or withdrawal, or none.
* `WaitingMayBeClaimed`: `Spec => []WaitingIsClaimable`, a part of `Sound`.
* `ConfirmedWithinRetries`: `Spec => []NoSilentDuplicate`. The invariant counts permissions: what was
  confirmed, plus the carriers that have their answer still before them (`Flying`), is at most the
  retries ordered, plus one unless the message waits. A carrier whose claim expired keeps its
  permission, which is why UNKNOWN messages must not be queued again without a person.
* `SentMeansTaken`: `Spec => []SentWasTaken`.
* `RemindersReachTheirAssignee`: `Spec => [](DeliveredWasTaken /\ (NamesOldMessage \/ DeliveredToAssignee))`, for
  any number of overlapping cron runs. A delivered reminder names a message that the provider took; if
  that is the message of the row's own key, it went to the employee the reminder is for. The core of
  `AddressInv` is that a key belongs to one employee: a renewed row has a new key, no message has it yet
  (`KeysFresh`), the message under the row's key is to the row's employee (`Owned`), and a run that still has
  the row's key has its employee too (`Working`). Rows, readings and verdicts name written messages
  (`Linked`, `JudgedIn`), and a message keeps its recipient. `NamesOldMessage` is what two overlapping runs can do
  (section 7); with one run TLC finds no such state, and `DeliveredToAssignee` holds alone (run **reminders**).
* `TypeCorrect`: `Spec => []TypeOK`, also for overlapping runs. The types have the limits in them:
  attempts, keys, queue entries. A QUEUED row is claimed without a look at its attempts, so the invariant
  `TriesLeft` counts with the attempts every run that saw the row QUEUED with attempts left and may still
  claim it (`Retrying`): together at most `MostAttempts`, the maximum and one more per further run.

`FieldJobs_proofs`, of `WorkSchedules` (any plans, cron runs, tokens and troubles):

* `OneJobEach`: `Spec => []OneJobPerSlot`; the jobs made are the occurrences stored.
* `NoneSkipped`: `Spec => []NoSlotSkipped`. The next run is on the plan's grid (`Planned`); `Following` and
  `AfterEdit` state what the two computations of the next run return, from lemmas about
  remainders: less than a period apart is the same occurrence, and rounding up passes over none.

`Vouchers_proofs` (any cards, customers, resellers, requests and troubles):

* `TypeCorrect`: `Spec => []TypeOK`.
* `CardsGiveOnce`: `Spec => []GivenOnce`. Expiry, deletion and the undo of a hotspot claim write the card by
  its id, whatever it has become. `CardInv` says why that is safe for the value: a card that may be
  claimed gave nothing and no request holds it (`Holds`: between the claim and the answer or the
  undo), and a card that is held gave nothing either and has one holder. Only a holder's undo makes a card
  claimable again, so it never revives a card that a wallet or another customer has used. `GivenOnce`
  alone is not inductive: it says nothing of the requests that still have a login to hand over.
* `HoldersOfSoldCardsStay`: `Spec => NoSoldCardMoves`, from the same invariant: a card that gave its value
  is not UNUSED, and allocation moves UNUSED cards only. A deletion under way erases the row instead (section 7).

Assumptions on constants are `BooksAssumption`, `OnlineAssumption`, the one of `Refunds`,
`RenewalsAssumption`, `FieldWorkAssumption`, `JobsAssumption`, `OutboxAssumption`,
`RemindersAssumption`, `SchedulesAssumption` and `VouchersAssumption`; TLC evaluates them in the runs.

Only model-checked: every liveness property. Liveness under fairness and `ENABLED` are out of the
prover's reach, and so is what an operator declared RECURSIVE computes. So are, on desks with edits,
deletions or refunds, `Reconciles`, `BooksAtRest` and `CancelledHoldsNoMoney`: they hold for one handler at a
time, which the code does not ensure, and run **desk_corrections** checks them as such; what is proved
is what remains true when handlers overlap (`OnlyStaleChecksSpoilCancelled`, `NothingIsPaidTwice`, `ReceiptsAreNeverLost`,
`ReceiptsKeepTheBooks`). Every other safety invariant and action property of a passing run is stated by
a theorem; where one has hypotheses, TLC has a counterexample without them or the bullet says why.

TLC has checked these theorems on small instances as well. Where no run of section 3 does it, these are
the instances, each the named configuration with other constants:

* `CancelledByStaleChecks`, desk_corrections with `Total = 2`, `Slack = 1`: 2 requests, 1 payment, all
  operations (21 thousand states), and 3 requests, 2 payments, `MaxInFlight = 3`, all but `"crash"` (690 thousand).
* `PaidAmountWasReceived`, the same with 3 requests, 2 payments, 1 ticket, `Threshold = 1`, all but `"update"` and
  `"remove"` (1.4 million states), and 4 requests, `Ops = {"record", "create", "refund"}`, `MaxInFlight = 3` (3.9 million).
* `Reconciles` and `BooksAtRest`, desk_corrections with `Requests = {r1, r2, r3}`, `PaymentIds = {p1, p2, p3}`,
  `Tickets = Refs = {t1}`, `Threshold = 1`, `MaxInFlight = 3` and `Ops = {"record", "reverse", "crash", "postfail"}`, without
  `"reverse"` for the second (28 and 20 thousand states).
* `TypeOK`, `DeliveredWasTaken` and `NamesOldMessage \/ DeliveredToAssignee`, reminders with `Ticks = {t1, t2}`,
  `MaxCrashes = 0`, `MaxRetries = 0` (12 million states).

## 6. Limits

* One invoice, one customer, one dealer directly below the company. Contention between customers
  exists only through the dealer's wallet, which one customer's handlers exercise.
* `recordPayment`'s lock, `handleWebhook`'s, `settleActivation`'s and `deductBalance`'s transactions
  are single steps. Their isolation is read committed; the statement that takes the row lock
  comes before the reads that decide, except for the browser key, whose late duplicates the
  unique index refuses (both are `Replayed`).
* Of the activation dialog the modes DATE and CREDIT, extra fees and custom prices are left
  out, and so are owners that are not charged although they are dealers (the code refuses them).
* Cashiers do not pay the invoices of `Renewals`; the two halves are not composed.
* Signature checks of providers are guards; drivers, routers and RADIUS are not modelled.
* A reminder has one task and one time slot, a schedule and a card are alone: the code never
  reads two of them together, except that allocation moves several cards, which is in the model.
* Leaves and employee status (a condition of assignment), tickets that a review resolves, links
  and visit order of a job, the audit rows of plain stock moves (their failure is swallowed,
  `inventory.service.ts:745`), and evidence are left out of `FieldWork`; so is `fromTicket`'s check for
  open jobs, which runs outside its transaction (`field-jobs.service.ts:1490`).
* In `TaskReminders` a reminder whose attempts are used up while its message is QUEUED becomes
  FAILED_FINAL although the message may still go out; a message made by a tick that read the
  former assignee still goes to that person. The properties speak of the row, not of these.

### Not modelled

Everything else in `PROJECT.json` with the status *not_modelled*: row maintenance under tenancy checks
(users, areas, notes, packages, prices), code that is mostly I/O to routers, mail and providers
(nas, network, monitoring, vpn, mikrotik, logs), read-only reports, the user interface, which is more
than half of the repository's lines and holds no shared state, and separate programs (licence
server, assistant).

## 7. Known disagreements without a run

The number of runs is kept small. The following formulas are in the modules, and TLC finds each
violated with the constants given here (others as in the named configuration). Each was found
while the code was translated.

| Formula, module | What happens | Constants |
|---|---|---|
| `Reconciles`, `InvoiceDesk` | `PaymentsService.create` erases a receipt that committed between its read (`payments.service.ts:358`) and its write; `accounting.service.ts:309` says paidAmount is payments minus refunds | desk_corrections with `Requests = {r1, r2}`, `Total = 3`, `Amounts = {1, 2}`, `Ops = {"record", "create"}`, `MaxInFlight = 2` |
| `Reconciles` | deleting a partly refunded payment takes the refunded part off the invoice twice (`payments.service.ts:507`) | the same with 4 requests, `Tickets = Refs = {t1}`, `Ops = {"record", "refund", "remove"}`, `MaxInFlight = 1` |
| `RejectedMovedNothing` | a request ends REJECTED though its approval moved the money (`accounting.service.ts:1262`; 1257 says "nothing was ever posted") | desk_refunds with `Total = 3`, `Slack = 1`, no `"crash"` |
| `CancelledHoldsNoMoney` | a receipt commits between the check (894-904) and the cancellation (906) | desk_corrections with 2 requests, `Total = 3`, `Ops = {"record", "reverse"}`, `MaxInFlight = 2` |
| `NoSecondSettlement`, `OnlinePayments` | a late failure report reopens a settled transaction (`gateway.service.ts:265`; 230 says "two deliveries cannot both settle") | online_unrecorded with `Gateway = Refs = {g1}`, `Ops = {"settle", "fail"}` |
| `SkippedWasCharged`, `Renewals` | a pro-rated charge's reference repeats in a later cycle; the customer is skipped as "already charged" (`billing.service.ts:269`) | renewals with `Offered <- MCPeriods`, `CreditLimit = 0`, `Lead = 0`, `MaxTime = 8`, `DealerStart = 3`, `Ops = {"activate", "renew"}`, `MaxInFlight = 1` |
| `PaidBillsHavePayments`, `Renewals` | re-activation within the paid days is taken for a crash recovery and marks an unpaid invoice as paid (`subscribers.service.ts:3876`) | renewals with 4 requests, `Offered <- MCPeriods`, `Days = 3`, `CreditLimit = 0`, `Lead = 2`, `MaxTime = 2`, `MaxWallet = 0`, `DealerStart = 2`, `Ops = {"activate", "bill", "deactivate"}`, `MaxInFlight = 1` |
| `NeverTwoRunners`, `JobQueue` | a process that boots requeues what another is running (`jobs.service.ts:54`; `SCALING.md:47-48` says two workers never run the same job) | jobs |
| `NoneTurnedAway` | drain starts before other services have registered their handlers; their queued jobs are failed (`jobs.service.ts:99`) | jobs |
| `AcceptedIsTaken` | a job enqueued between a drain's last look and the end of its flag waits for the next kick (`jobs.service.ts:80`) | jobs, also with `MaxTroubles = 0` |
| `DeliveredToAssignee`, `TaskReminders` | two overlapping cron runs: one records the hand-over of the message the other made for the former assignee; `SCALING.md:49` says in-flight guards stop a cron from overlapping itself, this one has none (`tasks.service.ts:673`) | reminders with `Ticks = {t1, t2}`, `MaxCrashes = 0`, `MaxRetries = 0` |
| `TriesWithinMaximum`, `TaskReminders` | two overlapping cron runs follow the same QUEUED row; the second claims it when the first has handed it over again, and `attempts` exceeds `MAX_TASK_REMINDER_ATTEMPTS`, because this claim does not ask for them (`tasks.service.ts:858-859`); `TypeCorrect` bounds by how much | reminders with `Ticks = {t1, t2}`, `MaxCrashes = 0`, `MaxRetries = 0` |
| `BooksAtRest`, `InvoiceDesk` | two reversals pass the check together, and each posts the invoice's amount to the ledger (`accounting.service.ts:906`) | desk_corrections with 2 requests, `Total = 3`, `Ops = {"reverse"}`, `MaxInFlight = 2` |
| `NoneStranded`, `TaskReminders` | a retry by staff dies between row and durable queue, and the recovery job does nothing with Redis (`notifications.service.ts:530`) | deliveries with `Carriers = {c1}`, `MaxJobs = 1`, `MaxCrashes = 1` |
| `RedeemedIsKept`, `Vouchers` | a card redeemed after the check is deleted by id (`vouchers.service.ts:645`), and its seller (`assignedToUserId`) with it; 622-625 say that neither may happen | vouchers |
| `CreditedLogsNobodyIn` | a hotspot claim whose RADIUS statements fail gives the card back and leaves the login; the card is then redeemed into a wallet | vouchers |
| `IssuedHasATechnician`, `FieldWork` | material is issued between unassign's count and its write (`field-jobs.service.ts:1751-1756`) | fieldwork |

Seen in the models and not stated as properties: the wallet statement written by a refund keeps a
balance read earlier (`accounting.service.ts:991`); a refund writes a due amount below zero (958);
the approval threshold is checked before the claim (1117); the suspension job expires customers who
renewed since its list was read (`billing.service.ts:422`); a dealer pays for a night that the
wallet then refuses (293); a refused activation cuts off a customer whom another request has just
activated (`subscribers.service.ts:3420`); an unassigned job that was visited cannot be assigned again.

## 8. Plan

Built, in this order: the invoice desk, online payments over `ChargeOnce`, renewals, the job queue,
the outbox with task reminders over `ClaimedWork`, vouchers, field jobs with material, recurring
work orders, and the proofs named above. Next:

1. `billing-ext` reversals as further handlers of `Refunds`; expenses and their approval.
2. Leave and attendance (`hr`), tickets with their clocks, address allocation (`ip-pool`).
3. Proofs: cash and receivables of a desk on which at most one reversal runs beside the receipts.

Hazards that no property covers are in `PROJECT.json` with the reason.
