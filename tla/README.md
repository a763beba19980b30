# Hire purchase, in TLA+

This directory holds TLA+ models of the hire purchase system's own logic: contracts and the
ledger everything about them is derived from, mobile money charges, and what happens when
handlers overlap, die or repeat. TLC checks the models on small instances; TLAPS proves some
of the results for every value of the constants. `PROJECT.json` maps each definition to the
lines it translates, and lists runs, hazards, findings, theorems and, for each property, a
slip in the code that would break it.

Paths below are relative to the repository (`src/` is its root, so services are in
`src/src/lib/services`).

## 1. The system

A shop sells phones on instalments. An agent or cashier enters a contract; an approver may
have to accept it; the customer pays a deposit, gets the phone, and pays instalments in cash
or by mobile money (Hubtel). A phone that falls behind is locked remotely (PayTrigger) and
unlocked when its owner catches up. The program is one Next.js server over PostgreSQL, reached
through Prisma, with a scheduler inside the process. Handlers run inside
`prisma.$transaction` at the default isolation, read committed, and nothing in the code takes
a lock other than by updating a row.

### Components

| Component | State it keeps | Operations | Hard because | Correct when |
|---|---|---|---|---|
| **Contract ledger** `paymentService` | payment rows (never deleted), reversals, allocations, the contract's totals and status | `postPayment`, `postCreditRefund`, `reversePayment`, `postDeviceLoanPayment`; each ends in `recomputeContract` and some in `advanceContractStatus` | totals are derived, stored and then trusted; allocations survive reversals; two transactions overlap | stored totals are the ledger's; money is allocated once, to arrears first; a contract completes when paid |
| **Contract lifecycle** `contractService` | contract row, instalments, reserved item | create, approve, request revision, resubmit, cancel, expire stale submissions | unwinds money, phone and status together, on what was read before | phone, money and status agree; an ended contract stays ended |
| **Refunds**, **reschedule** `refundService`, `rescheduleService` | `refundedAt`; instalments | record a refund; replace what is unpaid by a new schedule | part-paid and reversed allocations | what the customer owes does not change |
| **Schedules** `scheduleService`, `workingDays` | none | split a sum over due dates | rounding, closed days, months | instalments add up |
| **Daily jobs** `overdueService` | instalment status, late charges, contract status | mark overdue, mark defaulted, charge | each job can fail alone and be skipped | charged once; default only with arrears |
| **Mobile money charges** `hubtelPaymentService`, `hubtelStatusCheckService`, the callback route | `HubtelTransaction` rows | initiate, callback, claim, record, five-minute sweep | callbacks lost, late or repeated; status checks that fail; overlap at every `await`; a process that dies halfway | money taken is posted once or put before a person |
| **Mobile money review queue** `mobileMoneyOpsService` | the same rows | reapply, resolve | read, then write, by several people | a charge one person works is not both posted and dealt with by hand |
| **Direct debit** `hubtelPreapprovalService`, `collectionsService` | mandates, charges, retries | request, cancel, reactivate and check a mandate; morning collection, charge by hand, chain of retries | answers late, repeated or lost; a debit given up succeeds after its retry was sent | one debit unanswered at a time, retried once; a contract that owes is asked again; a settled mandate is learnt of without its callback |
| **USSD checkout and fulfilment** `ussdService`, `ussdCheckoutService` | menu sessions, the order's row and the answer owed to Hubtel | walk the menu, hand over a cart, settle the order, answer within an hour | overlapping and repeated calls of one session; fulfilment repeated; a process that dies before answering | one cart a session; told "fulfilled" only if the money is accounted for; every answer ends |
| **Agent cash and commission** `agentLedgerService`, `completionCommissionService` | remittances, commission, derived totals | file, confirm, reject, pay | checked against totals read earlier | remitted no more than collected; paid no more than earned |
| **Second approval** `approvalService` | requests | request, decide, carry out, put back | claim, then a carry-out that fails | carried out once |
| **Phone locking** `paytrigger/*` | device rows, inbox, command log | notify, reconcile, sweep, webhook | coalescing inbox, callbacks out of order | the phone ends locked or unlocked as the ledger says |
| **Device loans** `loanService` | interest rows | accrue daily interest; interest and principal payments | a missed morning is made up for at the next run | every open day's interest once; principal paid once |
| **Inventory** `inventoryService`, `stockAssignmentService` | items, movements, who holds them | reserve, issue, return, assign, transfer, adjust | a check, then an update by id alone, in no transaction when by hand | contract, branch, agent and latest movement agree on a phone |
| **Scheduler** `instrumentation-node.ts` | timers | 08:00 jobs in order, a sweep every five minutes, the phone-lock run | one job's failure is swallowed | the next run repairs |
| Payment limits, notices, sign-in, reports, portal, settings, screens | settings, messages, sessions | | | not about money already moved |

### How they interact

* Cash is posted by `postPayment` directly. Mobile money reaches it through
  `recordSuccessfulHubtelCharge`, which a callback, the sweep's status check, the retry of
  unrecorded charges or a person in the review queue can all call for the same row.
* Every posting runs `recomputeContract` (totals, instalments, charges from the ledger), then
  `advanceContractStatus` (deposit cleared: phone issued; arrears cleared: default cured;
  balance and charges cleared: completed). Reversals and credit refunds recompute but do not
  move the status; a reschedule does both; a cancellation recomputes only if it unwinds.
* The 08:00 run marks instalments overdue, marks contracts in default, applies late charges,
  then debits, retries, accrues loan interest, prunes and expires stale submissions. Each job is
  wrapped so that its failure stops only itself.
* Hubtel, its customers and PostgreSQL are external. They are modelled from how the code uses
  them: Hubtel reports a settled charge late, repeatedly or never, but truthfully; the database
  gives read committed, row locks, unique indexes and a deadlock detector.

## 2. The modules

### ContractLedger

One instalment sale, with handlers running one at a time: the question is whether a long
sequence of legal operations keeps the derived state right.

| Variable | Code |
|---|---|
| `status`, `totalPaid`, `balance`, `refundDue`, `refunded` | the contract row |
| `deal` | `totalPayableMinor`, `depositAmountMinor` and the number of instalments |
| `schedule` | instalment rows by number |
| `penalties` | late charges, in the order they are paid |
| `payments` | the ledger; a payment carries its allocations, and a reversal is a flag on the payment it takes back, since one at most can point at it |
| `item` | the inventory item the contract holds |
| `now` | today |

| Action | Code |
|---|---|
| `Init` | `createContract`, entered by an agent (to be approved) or by staff |
| `ApproveContract`, `RequestContractRevision`, `ResubmitContract`, `CancelContract` | the functions of those names; rejection and expiry are cancellations |
| `PostPayment`, `PostCreditRefund`, `ReversePayment` | the functions of those names, `recomputeContract` and `advanceContractStatus` included |
| `RecordRefund`, `RescheduleContract` | the functions of those names |
| `MarkOverdueInstalments`, `MarkDefaultedContracts`, `ApplyLatePenalties` | the morning jobs, each a step that may be skipped |
| `Tick` | midnight |

`AllocatePayment` is the order in which one payment is spread: overdue instalments, then late
charges (each in full or not at all), then instalments to come. The order in which the sweep makes
charges due on one day is the database's, so any. `AdvancedStatus` is the whole
status machine of this contract type.

Abstracted: due dates are equally spaced days rather than months and working days; receipts,
messages, commission and the payer's identity are left out, as nothing here depends on them.

### HubtelCharge and Collection

Some charges to one contract, and handlers that overlap at every `await`. `wallet` is the truth
outside (what the customer and Hubtel did); `status`, `linked`, `resolved`, `age` and `quiet`
are the row; `posted` counts ledger rows under the charge's reference; `contract` is whether
the ledger would take it now. A handler is a record of where it is (`pc`), on which charge
(`on`) and with which outcome (`outcome`). `alerted` is whom the sweep alerted staff about, because
Hubtel did not answer for them. `shared` is history: the charges a handler took up while another was
at work on them.

| Handler | Steps | Code |
|---|---|---|
| webhook | `ReceiveCallback` or `RefuseHubtelPayment`, `Claim`, then recording | `processHubtelCallback`; also the initiating request when Hubtel refuses it |
| sweep | `ListStale`, `CheckStatus`, `Claim`, then recording; or `CheckFails`, `RaiseAlert` when Hubtel does not answer; or `RetryUnrecorded`, then recording | `reconcilePendingHubtelTransactions` |
| staff | `OpenForReview`, then `ReapplyCollectedCharge` and recording, or `ResolveCollectedCharge` | `mobileMoneyOpsService` |
| recording | `ReadCharge`, `LookupPayment`, `BeginPosting`, `InsertPayment`, `LinkPayment`, or `SendToReview` when the ledger refuses | `recordSuccessfulHubtelCharge` and the idempotent start of `postPayment` |

`Crash` ends any handler at any point. `GrowOld` passes the sweep's two cutoffs (five and fifteen
minutes) and the half hour after which a charge Hubtel does not answer for is worth an alert;
`GrowQuiet` passes the five minutes after which a collected, unrecorded charge is taken up again,
whether or not the handler that claimed it is done: a slow one may still be at work. Sweeps overlap,
as the scheduler starts one every five minutes whether or not the last has ended
(`instrumentation-node.ts:91`) and staff can start one (`api/payments/hubtel/reconcile`), and so do
people in the queue.

`Collection` is the promise, in seven stages: asked, abandoned, taken, recorded, held, closed, and
contested: money two handlers were at work on at once. Of that it promises only that it was taken
and, once in the ledger, stays there; of all other money, that it is never both in the ledger and
in a person's hands. `account` maps the rows to it, and `ImplementsCollection` says the code's
steps are its steps.

### LedgerConcurrency

The same contract, a device loan or a Save to Own account, under three transactions at once,
statement by statement: what a transaction reads is what is committed, plus its own writes;
updating the contract row takes its lock until commit; inserting a payment row takes none; two
reversals of one payment collide on the unique index. `tx[t]` is a transaction's place, what it
read, and what it has written and not committed. Transactions are `PostPayment`,
`PostCreditRefund`, `PostDeviceLoanPayment`, `PostWithdrawal`, `ReversePayment` and
`CancelContract`. Instalment and charge rows are left out: they are derived by the same statements
from the same reads. A cancellation unwinds payments only of a phone still RESERVED or of savings
(`contractService.ts:477-480`), on what it reads again. `sawAll` is history: no commit came
between what the transaction read to recompute the total and now.

### AgentLedger

What an agent and the office owe each other on one contract: `ledger` is the `agentDepositLedger`
row, derived by `syncAgentLedger` (`SyncContract`, `SyncPayments`, `SyncExisting`, `SyncUpsert`)
inside whatever changed the money. Handlers are payments and reversals (which first update the
contract row, if the total differs from the one read), remittances filed, confirmed and rejected,
and commission payouts. The lock of the contract row and the lock of the agent's row are separate,
and that is what this module is about. `alone` and `skipped` are history: whether nothing
committed since a derivation began, and whether money committed without having found the
contract's total changed, so without its lock. `HeldSince` is `cashHeldSince`, from which the
alert about cash held too long counts: a fold that meets the collections oldest first (`Latest` is
met last, `Cover` is one turn of the loop). `WaitsFor` says which handler a statement would wait
for; the database's detector, which would end a circle of them, is left out, because the question
is where there can be one.

### Books

`Books` puts these two modules side by side for one run: `part` says at the start whose behaviour it
is, and the other part stays as it begins. It extends `AgentLedger` and instantiates
`LedgerConcurrencyProofs` as `Contract`, so that what is proved of either is proved of `Books`.
`LedgerConcurrencyTerms` holds the constants of `LedgerConcurrency` and their assumptions, which
`Books` then shares.

### DirectDebit

The direct debits of one contract over several days. `status`, `retryCount`, `retryIn` and
`parent` are the charge rows (a retry is a new row whose parent is called off); `wallet` is what
Hubtel did; `owing` is what the contract may be asked for today; `pc`, `on` and `queue` are where
the 08:00 run and the other handlers are.

| Actions | Code |
|---|---|
| `ReadContract`, `ReadInHand`, `Charge` | `runDirectDebitCollections` |
| `ListRetries`, `LookAtRetry`, `CreateRetry`, `CallOff`, `EndRun` | `retryFailedDirectDebits`, run after it |
| `CallRefused`, `CallTaken`, `StaffCharge` | `chargeDirectDebit`, which asks Hubtel |
| `ReceiveSuccess`, `ReceiveFailure`, `Schedule`, `Record`, `RetryUnrecorded` | `processDirectDebitCallback` and the five-minute sweep |
| `NextDay`, `ContractMoves`, `WalletIsDebited`, `Die` | days, payments and mandates elsewhere, Hubtel, a process that dies at any `await` |

`Charge` checks what `chargeDirectDebit` checks and no more: that the contract runs, its mandate is
approved and the amount is within the balance; an instalment paid since the run looked is asked for
all the same. What follows the claim of a collected charge is one step here: `HubtelCharge` has its
steps.
Amounts are left out.

### PhoneLock

One financed phone. PayTrigger has no "lock" call: it and the phone each hold a date, and the
phone locks itself, online or not, when its date passes. `device` is the `PayTriggerDevice` row
(date last sent, fingerprint of what was sent, whether its state is in doubt, whether staff are
shown that it waits for a PIN, whether a release is scheduled), `date` what PayTrigger holds,
`phone` what the phone has heard, `furthest` the furthest date the contract was ever paid up to
(history), `inbox` the coalesced notification, `pc` and `dec` where the two
reconciling handlers are and what they decided.

| Actions | Code |
|---|---|
| `Pay`, `ReversePayment`, `MarkDefaulted`, `CancelContract`, `AgentBalance` | the services that call `notifyPayTrigger` |
| `Drain`, `Reconcile`, then `Run` (`Note`, `Send`, `Record`) | `notify.ts`, the sweep and staff, `reconcileContract` and `sendLockDate`; `Decide` is `decide.ts` |
| `Report`, `StatusRead` | the webhook, and the sweep's reading of phones in doubt or near their date |
| `AskForPin`, `IssuePin`, `StartRelease`, `Remove` | `admin.ts` and the sweep's releases |
| `SwitchOn`, `Connect`, `Tick` | the phone, and a lock moment that passes |

A date is the number of lock moments still ahead of it, up to the cap on how far ahead a phone may
be opened; an instalment further off counts as the cap. A `HOLD` decision is a `LOCK` (both leave
the date), the committed state is reduced to whether it is in doubt, and the fingerprint has no
amounts (which only change the text on the screen). No lock moment passes in the middle of a
reconcile, which takes seconds.

### UssdMenu and Fulfilment

`UssdMenu` is a customer's dial: `menu` is the session row (state, chosen contract, amount),
`req` what each overlapping call of the gateway read, `row` the pending charge keyed on Hubtel's
session id, `carts` what Hubtel was given. `Receive`, `Reply`, `Confirm`, `StartSession`,
`EndSession` and `DropSession` are `handleUssdInput` and its helpers, `NextStateFor` the menu's
transitions, `FindCheckout`, `CreateCheckout` and `AnswerCart` `beginUssdCheckout` and its reply.
The screens that list contracts and past payments, and dialling for another number, are choices.

`Fulfilment` is what follows: Hubtel's report (`ReceiveFulfilment`, `SettleFulfilment`,
`WriteVerdict`), the answer it is owed (`ReadVerdict`, `SendVerdict`, `MarkSent`), the sweep that
sends it again for an hour (`ListUnanswered`, `GiveUp`) and the sweep that settles the charge
without a report (`ReconcileCheckout`).

### Mandate

The direct debit mandates of one wallet number: `row` is `HubtelPreapproval`, `age` its
`updatedAt` against the sweep's five minutes and 72 hours, `hubtel` what the customer and Hubtel
did, `reached` the outcomes whose callbacks, carrying the id the row now holds, may come or come
again (a reactivation gives the row a new id, and callbacks with the old one are refused), `act`
what a handler read and was told. Hubtel can do what it is asked and the answer be lost, for a
request, a cancellation and a reactivation alike. The actions are the functions of
`hubtelPreapprovalService` that keep mandates (initiate, cancel, reactivate, check, callback,
sweep), each cut at its awaits. A mandate attached to or detached from a contract is
`ContractMoves` in `DirectDebit`.

### SecondApproval

`FindWaiting` and `CreateRequest` are `requestApproval`; `ReadRequest`, `Claim`, `CarryOut` and
`PutBack` are `decideApproval`; `Die` ends a call at any of them. Whether the same reversal can
happen twice is `LedgerConcurrency`'s question.

### DeviceLoan

One loan by days: `charged` counts the interest rows of each day, `settled` those that read paid,
`paid` is each payment, `run` the morning's job between its reads (`ListDays`, `LookAtPrincipal`)
and its write (`ChargeInterest`). `PayPrincipal`, `PayInterest`, `ReversePayment`,
`MarkDefaulted` and `WriteOffContract` are the functions of those names for a loan. Times within
a day are not told apart and the loan starts on day 1.

### Stock

Phones: `item` is the row (status, branch, agent), `moved` the latest stock movement, `contract`
each sale, `act` each handler. `Sell`, `PayDeposit`, `Cancel`, `Transfer` and `Adjust` are what
their callers check; `CheckTransition`, `UpdateItem` and `RecordMovement` are `applyStockMovement`,
the last two being one step inside a caller's transaction and two outside; `Assign` and
`UpdateAssignment` are `assignStock`. `disturbed` is a history variable: phones written while
another handler was between its check and its write, moved by hand under a sale, or left without
their movement by a process that died. Handlers of one contract take turns here
(`LedgerConcurrency` has them overlap), and agents do not change branch.

### Office

The six modules from `UssdMenu` to `Stock` share no row, so `Office` composes them, each under its
instance's name, and one run checks them all: `part` chooses at the start which of them moves.
`MCOffice`, `MCContractLedger` and `MCDirectDebit` hold the values a cfg cannot write;
`MCHubtelCharge` is `HubtelCharge` for its runs.

## 3. What is checked

Each `Mut...` operator beside a definition is a plausible slip in the code it models. No
specification uses one: each property has a slip under which TLC finds it violated, so no
property holds merely by the model's shape. Every cfg says `CHECK_DEADLOCK FALSE`, because
there the system may stop: a clock reaches its bound, every charge may be settled, every
transaction has ended.

### Runs that pass

**`contract_ledger`** (1.7 million states; one deal of 5 with a deposit of 2 in two instalments,
one of 2 with no deposit in one; payments of 1 and 4; three days, three ledger rows, three
instalment numbers; charges as large as the instalment). The bounds let a payment miss, meet and
pass the deposit, an instalment and the price; a contract fall into default and be cured, be
rescheduled after a part payment and after a reversal, be cancelled before and after the
hand-over; a charge be applied, paid, reversed and paid again.

* `TotalsMatchLedger`, `InstalmentsMatchLedger`: stored totals and instalments are the ledger's
  after any sequence of operations, and no instalment holds more than it is for.
* `ScheduleSumsToFinance`: however often it is rescheduled, the schedule adds up to the price
  less the deposit.
* `ChargedOnce`: no charge takes money from two payments, no instalment is charged twice.
* `PhoneFollowsStatus`: the phone is where the status says.
* `PayingArrearsCures`: default means arrears, and paying the arrears ends it whatever charges
  there are.

**`hubtel_overlaps`** (1.8 million states; one charge, a webhook, two sweeps, two people, a crash;
handlers of a kind are interchangeable, which is the symmetry used, and a row is followed for half
an hour, after which only the alert differs). Two sweeps and two people are the fewest in which
either kind overlaps with itself, and with a webhook and each other. `LedgerHoldsWhatWasPaid`: the
ledger has at most one row per charge and only for money taken, whatever overlaps.
`WorkedAloneIsSafe`: retrying a recorded charge never sends it to the queue, unless another
handler took it up at the same time. `ImplementsCollection`: every step is one of `Collection`'s,
or changes nothing it can see, so overlapping handlers can contest money and cannot enter it
twice, take it out again, or touch money only one of them works.

**`hubtel_found`** (301,485 states; one charge, two webhooks, a sweep, a person, two crashes, with
fairness). `PaidInTimeIsAccountedFor`: money taken before the sweep gives up ends in the ledger or
before a person, or, if Hubtel's status check keeps failing, staff are alerted to it; no callback
need ever come. `LateSuccessLands`: money taken later is accounted for too, if the callback is
repeated until heard. Two crashes let a handler and the one that repairs its work die in turn.

**`books`** (534,061 states): transactions of a contract and of an agent's row, apart.

Of the contract: three transactions, three contract types, payments of 1 and 3 against a deposit
of 2 and a price of 3. Three transactions are the fewest in which a reversal, a cancellation and a
payment overlap. `ReversedOnce`: a payment is taken back once. `HandedOverStaysOut`: a phone
handed over during a cancellation is not put back. `Heals`: a transaction beside which nothing
committed since it began to recompute leaves the total right, however wrong it was.

Of the agent's row: two handlers of any kind, from a deposit paid whole or in part, in cash or
not, with a remittance perhaps waiting; commissions of 1 and 3 against payments of 1 and 2, so
that either side may owe. Two handlers are what each of these races takes; longer histories are in
the initial states, and the theorems are of any number. `RemittedByConfirming`: what was paid in
rises once per remittance. `CashMatchesPayments`: payments and reversals never miss each other's
cash, though reading is not locked, as long as each first updates the contract, which one that
leaves the total as it was read does not (`skipped`). `UndisturbedSyncIsRight`: a derivation
nothing else committed beside is right in every column. `OnlyDriftDeadlocks`: the contract's row
is locked before the agent's, so handlers wait for each other in a circle only where the
contract's total had drifted: one of them had nothing to write when it recomputed and an
activation to write later, when it already holds the agent's row. Only there is the database's
detector needed. With two handlers there is no such circle and with more there can be; the
property allows it, and the theorem says of any number that it is the only one. `HeldSinceOldest`:
in every state, whatever the row was derived from, the date is that of the oldest cash not
covered.

**`direct_debit`** (936,015 states; the run and one other handler, three debits, one mishap - a
charge by hand or a death - and a retry schedule of one entry, two days later). Three debits are
the fewest in which the retry limit is reached and the collection starts afresh; two days are the
fewest in which a day passes that is not the retry's. `OneUnanswered`: what the morning run asks
for is never waiting for two answers. `RetriedOnce`: a bounced debit is followed by one retry, and
by two only if the process died between the new row and the calling off of the old one.
`KeepsAsking`: a contract that stays overdue is asked again and again, whatever bounces, goes
unanswered or loses its handler.

**`phone_lock`** (195,608 states; one phone, the inbox's handler and one more, one mishap - a send
that fails or a death - and a horizon of one lock moment, with fairness).
`PaidPhoneOpensOrIsShown`: a switched-on phone whose contract is paid up opens, or its lock is
removed, or staff are shown that it waits for a PIN, though the phone may never come online. With
a horizon of one, every date held is the next to pass, so the sweep reads it the day before;
longer horizons only put that reading off.

**`phone_stays_locked`** (1.2 million states; the same with a horizon of two, so that a phone can
hold a date more than a day ahead and be sent a nearer or a further one; of fairness, only that
what is begun is finished). `OpenOnlyAsPaid`: until a contract is paid off its phone never has a
later date than it was once paid up to, and keeps its lock, whichever reconcile is the last to
send (the theorem says so for any horizon). `UnpaidPhoneStaysLocked`: once a contract stays unpaid
and lock moments keep passing, its phone ends locked and stays so, though no send ever succeed: no
reconcile, repeated or forced, no callback and no PIN moves its date on again. The exception is a
phone whose lock was removed while the contract was paid off.

**`office`** (310,887 states): the six smaller parts.

| Property | Bounds | Says |
|---|---|---|
| `OneCartASession` | one session, a sale and a loan, two calls, a debt of 1, two lives of the menu | however often a session is confirmed or dialled again, Hubtel gets one cart, the one whose row will be credited |
| `ToldSuccessIsAccounted`, `EveryAnswerEnds` | one order, two of Hubtel's calls and the sweep | Hubtel is told "fulfilled" only of money in the ledger or before staff; every answer is accepted or marked as never delivered |
| `SettledIsLearnt` | one mandate, two handlers and the sweep | a settled mandate is learnt of without its callback, within 72 hours |
| `ApprovedIsCarriedOut` | two people, two requests, two calls | what was done stays approved, by somebody else; what reads approved was done, is being done, or lost its call |
| `EveryDayChargedOnce` | five days, one of grace, one closed, default after one, three payments | whenever interest is charged, each open day so far has one row |
| `StockAgrees` | one phone, two branches, one agent, two sales, two handlers | contract, branch, agent and movement agree on a phone no two handlers wrote over each other on |

Two handlers are what each of these races takes. A behaviour of `Stock` ends when no phone is left
that is not `disturbed`, since nothing is said of it from then on; sequences of any length before
that are covered.

### Runs that show where a comment and the code disagree

| Run | What the repository says | What happens |
|---|---|---|
| `late_payment_lost` | `hubtelPaymentService.ts:353-357`: money taken must never be silently written off | a prompt approved after the row was written off, whose callback is lost, is never looked at again |
| `ledger_drift` | `paymentService.ts:18-23`: zero drift | two payments posted at once each miss the other's row; the later total wins until the next recompute |
| `rejected_applied` | `agentLedgerService.ts:155-156`: a rejected claim leaves the ledger untouched | a rejection is written over a confirmation that committed after it looked; the amount stays added |
| `reversed_release` | `reconcile.ts:340`: a reversal can un-complete a contract, and calls a release off | nothing un-completes a contract, so the lock is removed for good |

### Fairness

* `HubtelCharge` (`hubtel_found`): a handler that does not die takes its next step (weak fairness
  of `Step`), time passes (weak fairness of `GrowOld` and `GrowQuiet`), and the sweep gets to each
  row it lists (strong fairness per charge of `ListStale` and `RetryUnrecorded`):
  `instrumentation-node.ts:91-103` runs it every five minutes, over every row found, catching each
  row's failure. Nothing is assumed of callbacks, of people, or of Hubtel's answers to status
  checks, any of which may fail; `LateSuccessLands` names what it needs of callbacks as its
  hypothesis.
* `DirectDebit`: the 08:00 run and handlers that do not die go on, working days come, and the same
  sweep settles each debit, so of Hubtel it is assumed that it answers some status checks, in
  whichever way. Nothing is assumed of callbacks or people. A contract that stays overdue is
  `KeepsAsking`'s hypothesis.
* `Fulfilment`, `Mandate`: the sweep goes on and gets to each row it lists; the hour and the five
  minutes pass; of Hubtel, that it answers some of the questions about each mandate.
* `PhoneLock`: a reconcile begun is finished (`Finishes`, all that `phone_stays_locked` assumes);
  in `phone_lock` also, every morning's sweep reconciles, reads and releases. Nobody is assumed to
  pay, come online or act; `UnpaidPhoneStaysLocked` has as its hypothesis that lock moments keep
  passing.
* `ContractLedger`, `LedgerConcurrency`, `AgentLedger`, `UssdMenu`, `SecondApproval`, `DeviceLoan`
  and `Stock` assume none: any morning job may be skipped any day.

## 4. What is proved

For every value of the constants allowed by the modules' assumptions, with the bounds as
constants too. All 30 safety properties the passing runs check are proved: invariants, action
properties and the refinement of `Collection`. The 7 liveness properties are out of the prover's
reach.

**ContractLedgerProofs.** All of `contract_ledger`: `TotalsAreTheLedgers`, `PhoneIsWhereStatusSays`,
`TypeCorrect`, `InstalmentsAreTheLedgers`, `ScheduleIsForWhatWasFinanced`,
`ChargesAreMadeAndPaidOnce` and `PayingArrearsIsEnough`, for any deals,
amounts, schedules, policies and bounds.

* `LedgerInv` adds to totals and phone that an unapproved contract has an empty ledger, without
  which `ResubmitContract`, which sets a new balance and leaves the total alone, could break
  `TotalsMatchLedger`.
* `AccountInv` is about the rows behind them. `Fits` says of a ledger, a schedule and charges what
  makes a recompute of them safe: rows allocate only to what is there (so an instalment number
  that a reschedule deletes and uses again starts with nothing paid), no instalment gets more than
  it is for, no charge has two payments, the schedule adds up. `RecomputeFits` proves once that a
  recompute turns what fits into stored rows that agree with it; then each action need only show
  that what it hands to the recompute fits.
* `PaidChargesAreMarked` is why a charge is not paid twice: a payment takes only charges not marked,
  and marks are never taken off, though a reversal takes the money back (section 6).
* For `PayingArrearsCures` the invariant says when a stored status can be trusted: in a running
  contract PAID means paid, and OVERDUE means due before today. It does not hold before activation,
  where a last instalment of nothing (rounding) is stored as pending. `FilledFacts` and
  `AllocationFacts` say what `allocatePayment` does: money enough for the arrears fills each of
  them before a charge sees any.

**SumTheorems** is what those proofs need of sums over a ledger, a schedule or an allocation. The
community modules define them by a recursive function over subsets, and the library's induction
theorems take an operator as a parameter, which the provers cannot instantiate. The module proves
first-order induction over sets of numbers (`NatInduct`) and of subsets of a finite set
(`SetInduct`, `PickInduct`), from the library's well-founded relations, then that the fold exists
(`FoldExists`), and then the laws: a sum takes out any element (`SumTakes`), splits over disjoint
sets (`SumUnion`), adds (`SumPlus`), grows with the set (`SumOfFewer`) and so on.

**HubtelChargeProofs.** `TypeCorrect`, `LedgerHoldsOnlyWhatWasPaid`, `NoHandlerActsOnUnpaid`: for
any number of charges, webhooks, sweeps, people and crashes. `LedgerHoldsWhatWasPaid` is not
inductive: a handler that has claimed a success is about to change the row and the ledger, so the
invariant must say what it knows. `HandlersActOnPaid` is that part; with the types the three form
`IInv`, which every action preserves. The pivot is that `wallet` never leaves "paid", so what a
handler learned before an `await` stays true after it. `WorkedAloneStaysSafe` and
`RowsImplementCollection` assume nothing more: any number of sweeps and people, all of whom may
overlap. `WorkInv` says that a charge no handler shared has one handler at work on it
(`OneWorker`), what that handler's row reads at each of its steps (`WorksAlone`), and what it
reads when nobody is at work (`RowIsRight`). Of a shared charge it says nothing, and `Collection`
only that it was taken and stays in the ledger once there, which needs `IInv` alone. So every step
of the code is one step of `Collection` under `account`, or none.

**LedgerConcurrencyProofs**, carried over to `Books` at the end of `AgentLedgerProofs`.
`PaymentsReversedOnce`, `PhonesHandedOver`, `RecomputedIsRight`, `RowsAreTyped`: for any number of
transactions, amounts and terms. Each part of `Sound` is what one mechanism gives: the unique
index (`TakesBackAlone`), the row's lock (`HoldsTheRow`), the conditional update of the phone
(`PutsBackReserved`), and `SawAll`, that a transaction beside which nothing committed has read
what is committed. The types rest on it: the ledger's total is a number because finitely many rows
are committed, each by a transaction that is over. A behaviour of `Books` is one of
`LedgerConcurrency` (`IsOfTheContract`) and one of `AgentLedger` (`IsOfTheAgent`), so each theorem
holds there.

**AgentLedgerProofs.** `CashIsNeverMissed`, `RemittedOncePerClaim`, `UndisturbedIsRight`,
`OneOrderOfLocks`, `RowsAreTyped`: for any number of handlers of any kind and any amounts, where
the run has two. `Sound` says of one handler what it carries, where it can be (`OnItsWay`), what
its locks give it (`HoldsRows`: whoever has written a row and not committed holds it, and only a
confirmation adds to what was remitted), that a claimed remittance still waits and is claimed once
(`SettlesAlone`), and that what a derivation nobody committed beside has read still stands
(`ReadsStand`). `CashMatchesPayments` is not inductive: it needs `MissesNone`, that a handler that
reads the payments while it holds the contract's row, or the agent's, has read every payment there
is. Two such handlers that hold different rows cannot both commit: money that derives the agent's
row holds it when it commits, unless there was nothing to settle, and then there is no row a
confirmation or a payout could hold. `OneOrderOfLocks` adds `ContractTaken`: who holds the
contract's row has already found what it needs and is deriving the agent's row or about to
activate, so it waits for the agent's row at most, whose holder is past the contract's unless it
left that row alone before and has an activation to write. `AlertCountsFromOldest` is about the
loop of `cashHeldSince`, so about a fold, for which no induction theorem can be used. It is proved
from SumTheorems' first-order induction, over the collections that the loop has met
(`HeldSinceFinds`): as long as what it has met is covered, what is left to cover is what there was
less their sum, and the first collection past it is the date found. Collections of one date may be
met in any order. That the row be right is not needed: what counts as covered is what was
collected less what the row says is owed, and both the loop and the property take the row as it
is.

**DirectDebitProofs.** `TypeCorrect`, `WaitsForOneAnswer`, `BouncedIsRetriedOnce`: for any retry
schedule and bounds. A retry is counted against deaths because the code makes a second one only by
dying between the new row and the calling off of the old; the invariant says who may be about to
make one (`SchedulesAlone`, `RunHoldsRow`) and that a debit in somebody's hands has no child yet
(`NotYetRetried`).

**PhoneLockProofs.** `DatesAreWithinTheCap`, `NeverOpensUnpaid`: for any horizon and any number of
mishaps. A handler sends a date some time after it read the contract, and by then the contract may
say less, so the date cannot be compared with what the contract says; it is compared with
`furthest`, and the invariant says that whatever a handler has decided and not yet sent was within
it (`SentAsPaid`). Two facts carry that: no lock moment passes while a handler is under way, so
what it decided does not go stale by days, and a contract that is COMPLETED stays so, so a release
that was due when it was checked is still due when it is carried out. `KnownIsOn` is what the
types need: only a phone that was switched on loses its lock.

**OfficeProofs.** The invariants of `office` and `EveryDayChargedOnce`, for the composition the
run checks. A part's invariant is about variables the other parts leave alone (`EachPart`), so
each is proved over its own steps. `OneCartForEverySession`: a session's row is made once and not
changed, before it there is no cart (`NoCartBeforeTheRow`), and the cart a call sends is the row's
whatever menu state the call read. `SuccessIsAccountedFor`: what a teller is about to say was true
when it read it and stays so. `StockAgreesWithSales`: a handler between its check and its write
either is alone with the phone or will make it `disturbed`. `ApprovedIsDone`: the call that files
a request is the only one about it (`FilesAlone`), whoever is about to approve did not ask
(`DecidesForAnother`), and one call at most has an approved request in hand, not yet done
(`CarriesOutAlone`): the conditional claim keeps the last one true when several people decide at
once. `DaysChargedOnce`: the days charged are always a stretch up to some day, which needs the
least and greatest element of a set of days. `RowsAreTyped`: each part's `TypeOK` needs something
of its own, which the module states beside it: the menu of a call that pays has its contract and
what is confirmed an amount (`GoodMenu`), what a call is about to write or answer is a word for it
(`SaysTyped`), a handler of mandates that is at work is on one of them (`DebitShape`), and the
days about to be charged have come (`ChargesPastDays`). It assumes of the constants that amounts
and lives are natural numbers (`MenuAssumption`).

`TypeCorrect` of `HubtelCharge` and of `DirectDebit`, `NoHandlerActsOnUnpaid` and
`EndedStaysEnded` state no property a run checks; they are what the others rest on, or follow from
the code too closely to need a run.

Proofs corrected what three properties said. `Heals` counted as undisturbed a transaction that had
missed a row, found the total right all the same and corrected nothing, while another wrote a wrong
total; its history variable (`sawAll`) now also asks that the total be the one that was read.
`CashMatchesPayments` held of two handlers and not of four: once the contract's total has drifted, a
reversal can find its new total already stored, take no turn and be missed. It now speaks of
histories in which no committed money skipped its turn (`skipped`), and of every state of them,
where it spoke of quiet ones only. `HeldSinceOldest` asked that nobody be at work and the row be
right; neither is needed.

Only model-checked is liveness under fairness, in every module: `PaidInTimeIsAccountedFor`,
`LateSuccessLands`, `KeepsAsking`, `PaidPhoneOpensOrIsShown`, `UnpaidPhoneStaysLocked`,
`EveryAnswerEnds`, `SettledIsLearnt`.

## 5. What is not modelled, and why

Most of the repository's lines are screens and routes (`src/src/app`, `src/mobile`): they check a
permission, call a service and show what it returns, and hold no rule of their own about money.
Reports, the portal and settings are queries and rows written whole. Sign-in and password resets
are handlers over one row each, shared with nothing else here. Notices are sent after the fact and
nothing in the ledger depends on them; what can go wrong there is one crash (section 6). Payment
limits are checked before a payment is asked for and never when it is recorded, so the ledger
modules let any amount through.

Left out of components that are modelled:

* contracts: the creation of a loan or a savings account (one insert each); `releaseContract`, which
  no contract reaches (a Save to Own account has no phone and never completes); messages and the
  mandate asked for at activation;
* schedules: months and closed days, and the older schedule with interest that nothing creates;
* direct debit: amounts, callbacks whose identifiers match no mandate, the wallet's name check;
* USSD: an order no session matches, the list screens, paying for another number;
* phone locking: transport and signatures, enrolment, the canary list, dry run and circuit breaker,
  a second contract on the same phone, the text on the lock screen, the length of a held period (a
  choice) and the guard at the sale;
* agent cash: branch checks, and the alert over many agents; the completion commission, one row
  whose only handler is one statement.

## 6. What the models show that no run claims

Behaviours met while modelling, each reachable in its module; a reader changing this code should
know them. They are not findings, as nothing in the repository promises otherwise, or are further
cases of a disagreement section 3 already shows.

* **Ledger.** Reversing the payment that paid a late charge leaves the charge paid
  (`paymentService.ts:91`, against the comment at 701-703); `ChargedOnce` does not forbid it. One
  payment that covers deposit and price completes a contract with a charge unpaid (158, against
  214-215). Two payments of one loan's principal at once are both accepted (631, against 612-615),
  and so are two refunds of one credit (507). Two withdrawals at once both pass the check of the
  balance; reversing a deposit after a withdrawal leaves a negative total.
* **Agent cash.** Once the contract's total has drifted, a reversal that finds its new total
  already stored takes no lock of the contract row, and another payment's derivation can miss it:
  the agent is held to cash that was given back until the next derivation, or reads SETTLED while
  they still owe. Two commission payouts at once are each checked before the other exists (210).
* **Mobile money.** Two sweeps that retry one charge, or a sweep and a handler slower than five
  minutes: the first completes the contract, the second is refused and overwrites the row with
  `NEEDS_REVIEW`, though the money is posted (`hubtelPaymentService.ts:251`, against 235-239). Two
  people who opened one charge at once can have it both posted and closed by hand
  (`mobileMoneyOpsService.ts:93` and 102). Both are what `Collection` calls contested.
* **Direct debit.** After the last retry fails, the next morning's collection starts afresh. A
  death between claiming a failure and scheduling its retry, or between a retry's row and calling
  off its parent, can make two chains. A success claimed and not yet recorded does not stop the
  run from asking again, and one that comes while the run looks at the debit it is about to retry
  leaves both (`hubtelPreapprovalService.ts:488`, 549 and 556): `OneUnanswered` is about answers
  awaited, so does not see it. Retries go out on closed days (520-525, against
  `collectionsService.ts:27`).
* **Mandates.** If Hubtel's answer to a request is lost, the row is deleted though the customer is
  being asked. A late or repeated approval, or a check that read earlier, writes APPROVED over
  CANCELLED; one that read before a reactivation writes the earlier approval over the PENDING it
  brought, though the customer is to approve again (256-259); a handler that read PENDING can
  write CANCELLED or FAILED over APPROVED (`hubtelPreapprovalService.ts:606-607` says otherwise).
  Two requests at once ask the customer twice.
* **Fulfilment.** With an unpaid and a paid report overlapping, the last answer can be "failed"
  for an order that is posted (`ussdCheckoutService.ts:143`). A death between settling and storing
  the verdict leaves Hubtel untold (against 76-82).
* **Phone locking.** A lock PayTrigger took, but whose send failed here, is not undone when the
  contract returns to its earlier state: the fingerprint still reads current (`reconcile.ts:369`),
  and without a callback the phone's lock goes unnoticed until the reading the day before its
  date. A PIN issued meanwhile carries PayTrigger's old date and clears `awaitingPinSince`. A
  release is checked and then carried out (`admin.ts:278-297`), so a contract that stops being
  paid in between is released all the same. A released phone that is offline stays locked until it
  is online, and can get no more PINs.
* **Second approval.** A request whose call dies after the claim stays approved and undone.
  `writeOffContract` checks and then writes with no lock.
* **Loans.** If the principal is reversed, the next run charges the days it was paid. The days a
  reversed interest payment paid stay paid. A run that looked before a payment completed the loan
  charges a completed loan.
* **Stock.** `applyStockMovement` checks and then updates by id: two sales can both reserve one
  phone, though `contractService.ts:131-135` has the loser fail cleanly; a transfer that overlaps
  a sale writes AVAILABLE over RESERVED; an assignment that overlaps a transfer leaves a phone
  with an agent of another branch (`inventoryService.ts:90`). The transfer and adjustment routes
  call it in no transaction, so a death leaves an item without its movement, against its own
  comment (51-53). The adjustment route takes any status. `StockAgrees` leaves all of these out as
  `disturbed`.
* **Notices.** A message queued and not delivered by a process that died counts as sent
  (`reminderService.ts:34-47`, against 19-21).
