# Verification of the billing platform

TLA+ modules, TLC configurations and TLAPS proofs for the backend in
`src/backend` (NestJS, TypeScript). Paths below are relative to
`src/backend/src` unless they start with `src/`. Every definition is translated
from the source; the numbered documents (`src/00_…` to `src/06_…`),
`src/docs` and the tests are used only as the place where the program's
promises are written down.

## 1. The system

All financial state is in memory, in repositories (classes around a `Map`)
owned by services. `database/` is provided but no financial module uses it.
Node runs one thread: what runs between two `await`s is atomic, and everything
else interleaves. Three mechanisms hold the system together: a process-wide
transaction wrapper, an event log with a queue that drives consumers, and
idempotency keys.

| Part | State | Operations | Talks to | What is hard | What makes it correct |
|---|---|---|---|---|---|
| Financial transaction manager (`common/transactions`) | active context (id, depth, snapshots, callbacks), FIFO lock of chained promises | `wrapper`, `begin`, `commit`, `rollback`, `runAfterCommit` | every financial service | nested frames, an error deep inside, callbacks that run after the commit with the lock held, writers outside any transaction | one transaction at a time, all or nothing, callbacks only for what committed, every call returns |
| Idempotency keys (`modules/idempotency`) | record per (scope, key), waiters | `begin`, `waitForCompletion`, `complete`, `fail` | HTTP middleware, payment service, event consumers | concurrent duplicates, a first attempt that fails, a client that goes away | one effect per key, replayed answers are genuine, nobody waits for ever |
| Event log, replay tooling (`modules/events`) | events by id and by idempotency key; the rebuild keeps nothing | `logEvent`, `logMutation`, `consumeEventOnce`; rebuild, verify, simulate a missed event | all services write it, the queue carries it on, the replay reads it | written inside and outside transactions, replayed in another order than it was handled | append only; one event per key; what is published after a commit is there for good; a rebuild gives the live positions |
| In-process event bus (`events/event-bus.service.ts`) | a queue, a retry timer and waiting publishers per subscription | `publish`, `subscribe`, `drain`, `waitForIdle` | event log, handlers | backlog and publisher hand over the same event, retries, unsubscribing | each event once and in order, publishers are answered |
| In-memory queue and worker (`modules/events/queue`) | job map, timers, promise chain per aggregate, dead letters | `add`, `registerProcessor`, `process`, `close` | publisher, handlers | retries, re-publication, jobs before boot, shutdown | each handler works at most once per event, no job is forgotten, only poison dies |
| Invoices, payments, AR (`modules/invoices`, `payments`, `ar`) | invoices with totals and status, payments, allocations, receivable positions | create, edit, issue, void; record, allocate, void; three projections | validator before each commit, events to each other | a due amount that lags behind the allocations, events in any order | books balance, projections agree with the allocations |
| Ledger, periods, chart of accounts (`modules/ledger`, `accounting-periods`, `accounting`) | entries, key bindings, consumed events, period status | `post`, `postEvent`, manual, adjustment, reversal, `closePeriod`, `reopenPeriod` | events of invoices and payments, approvals | checks before the lock, bindings after the commit, closing a period during a transaction | balanced immutable entries, closed periods stay closed, one entry per source |
| Statements, cash flow (`modules/statements`, `cashflow`) | none | slices, balance sheet, income statement, cash flow, comparison | read the ledger | date boundaries, the start of the fiscal year | the equation holds, sections reconcile, spans join up |
| Approvals (`modules/approval`) | requests with their steps, thresholds | request, approve, reject, the gate | ledger, reconciliation, payments | an approval consumed before the operation it was for is refused | one use per approval |
| Vendors, bills, AP (`modules/vendors`, `bills`, `ap`) | vendors, bills, payable positions | create, patch, delete; projections of bill events; vendor, due and outflow views | ledger, event queue | events repeated and out of order, partial patches, a vendor deleted before its bills | open is total less payments, AP agrees with the ledger, listings are complete |
| Integrations, polling, webhooks, connectors (`modules/integrations`, `integration-ingestion`, `webhooks`, `bank-connector`, `payments/connectors`, `common/connectors`) | checkpoint, raw and normalized records, seen keys | pull, normalize, ingest, match | event log, reconciliation, payments | overlapping pulls, duplicates, a record that throws half way | nothing behind the cursor is lost, a delivery is answered with what came first |
| Reconciliation (`modules/reconciliation`) | results, items, manual matches | suggest, override, match by hand | bank data, approvals | greedy matching, an approval spent on an action that is refused | a record is paired once, with its like |
| Customers and balances (`modules/customers`) | customers, balance per customer, seen events | CRUD, search, paging; projection of events | event queue | a list that changes between two pages, redelivered events | no walk misses anybody, every event counts once |
| Subscriptions and tax (`modules/subscriptions`, `tax`) | subscriptions with the next billing date; tax rates | create, patch, cancel, the daily job; rates, line and document taxes | invoices, ledger | months of different length, several periods in one run, an end between two runs, an invoice nobody waits for, rounding | each date of the schedule is billed once, none after the end; taxes add up |
| Analytics and dashboard (`modules/analytics`, `dashboard`) | none | cash flow, series, aging, projections, anomalies, collections prediction | ledger, invoices, AP | many readings of the same accounts | the figures agree, what is pointed out has a reason |
| Products, documents, users, tenants, auth | records | CRUD, rendering | | little interleaving | see section 7 |

How a payment travels: the middleware begins the client's key for the path;
the controller answers 201 with the promise of the operation inside; the
payment service begins the key of the operation, enters the transaction
wrapper, writes payment and allocations, logs events, and registers an
after-commit callback that logs the allocated event. `logEvent` stores the
event and publishes it; the queue sets a timer; the worker runs the handlers of
the event, each under a consumer key: the invoice projection recomputes the
paid amount from the log, AR adds and subtracts, the ledger posts an entry.

## 2. Modules

| Module | Models | Built on |
|---|---|---|
| `AtomicStore` | what the manager promises: a call's writes appear together or never | |
| `TransactionManager` | the wrapper, `begin`/`commit`/`rollback`, the lock, callbacks, writers outside | implements `AtomicStore` |
| `TransactionManagerProofs` | proofs about it | `TransactionManager` |
| `Idempotency` | one (scope, key) record with its waiters, as parameterised operators | |
| `EventConsumerIdempotency` | `execute` around a handler | `Idempotency` |
| `EventConsumerIdempotencyProofs` | proofs about it | `EventConsumerIdempotency` |
| `PaymentRequests` | middleware, controller and payment operation, two keys | two instances of `Idempotency` |
| `PaymentRequestsProofs` | proofs about it | `PaymentRequests` |
| `EventQueue`, `MCEventQueue` | queue driver, publisher and worker | |
| `EventQueueProofs` | proofs about it | `EventQueue`, `CollectionLemmas` |
| `Billing`, `MCBilling` | invoices, payments, allocations, validator, invoice projection, AR | |
| `BillingProofs` | proofs about it | `Billing`, `CollectionLemmas` |
| `Statements` | chart of accounts, posting rules, statement slices, as operators on a set of entries | |
| `Ledger`, `MCLedger` | the ledger service: postings of events and of journals, request keys, periods | `Statements` |
| `LedgerProofs` | proofs about it and about the statements | `Ledger`, `CollectionLemmas` |
| `EventLog` | the log's services, repository and validator, the AR and AP projections fed from it, the replay tooling | |
| `EventBus` | subscriptions, backlog, drain, retry timer, waiting publishers | |
| `Payables` | AP positions and the ledger entries of the same bill events, vendor, due-date and outflow views | `Statements` |
| `Bills` | vendors, bills, the list of a vendor's bills, partial patches, soft deletes | |
| `Approvals`, `Reconciliation` | approval requests and the gate; overrides behind it, items and manual matches | `Reconciliation` extends `Approvals` |
| `Matching` | the matching engine, the suggestions with their score, the bank connector's rules, as operators over two lists of records | |
| `Polling` | the scheduler's slots, pulls under way, checkpoint, raw and normalized records | |
| `Ingestion` | the keys by which webhooks, Stripe events, external payments and bank transactions are recognised | |
| `Customers`, `CustomerBalances` | customers and the client's walk through their pages; the balance projection | |
| `Subscriptions`, `MCSubscriptions` | subscriptions, the daily job, the invoices it asks for and does not wait for | |
| `Tax` | rates and their choice, line and document taxes | |
| `Reports`, `Insights` | cash flow, series, tax, aging and projection figures over a growing journal; anomalies, collections prediction and follow-ups over series and histories | `Statements` |
| `MCBackOffice` | the modules from `EventLog` down, side by side | all of them |
| `BackOfficeProofs` | proofs about them | `MCBackOffice`, `CollectionLemmas` |
| `Amounts` | the larger and the smaller of two amounts and the absolute one, for `Statements`, `Matching`, `Insights`, `CustomerBalances`, `Tax` and `EventLog` | |
| `CollectionLemmas` | induction over sets of numbers and finite sets, sequences that grow and shrink, sums of the values of a function, folds, loops | the library's theorems |

How the modules lean on each other. `PaymentRequests` treats a handler as one
step that commits or fails, and `Billing` treats a call as one step or none:
that is what `TransactionManager` shows with `FailedCallLeavesNoTrace` and the
refinement of `AtomicStore`. `EventQueue` lets a consumer key be absent or
completed, because jobs of one aggregate are chained and so never meet a
pending key; `EventConsumerIdempotency` covers the pending case that another
driver would allow. `Billing` delivers each event once per consumer, in any
order and at any time, which is what `EventQueue` shows (`EffectAtMostOnce`,
and an order that retries break). `Ledger` keeps of `TransactionManager` the
lock, the snapshot and the rollback, and of `EventConsumerIdempotency` the
status of the consumer's key, because how the two interleave is what matters
there; a nested transaction that fails rolls everything back at once, as
`begin` and `rollback` do. `EventLog` keeps of the transaction manager the
snapshot, the rollback, the callbacks that publish after the commit and the
question whether the caller is inside the transaction or another one, and
takes from `EventQueue` that a handler works once per event, in any order.

`MCBackOffice` is not a composition: its modules share no variable, because
the code lets them meet only through events and through calls each module has
as an action of its own. A variable `part`, chosen at the start, says which of
them moves; the others stay in their initial state. So one run explores each
module alone and the number of its states is the sum, not the product, of
theirs. Each property gathers what the modules promise against one kind of
fault, as a conjunction guarded by `part`, and the definition it names is in
the module it is about.

### Correspondence of state

* `TransactionManager`: `activeContext` is the field of that name with the
  AsyncLocalStorage id replaced by the call that opened it; `lockQueue` is the
  chain of release promises, `frames` the wrapper frames on a call's stack,
  `store` the repositories, each as the set of the writers whose writes it
  holds. `Request` is the synchronous part of `wrapper` up to the await of the
  lock, `Enter` what follows; `Nest` is `begin` in an open context; `Throw` is
  the catch of one frame and is repeated for each frame outside it.
* `Idempotency`: `status`, `response`, `waiters` are the repository record and
  the list of resolvers; `resolved` and `answer` are promises that are resolved
  but whose continuation has not run.
* `PaymentRequests`: `pc` follows a request in the HTTP stack, `op` the promise
  the controller put into the response; they advance independently, as in the
  code.
* `EventQueue`: `jobs`, `attempts`, `chains`, `dead` are the driver's maps,
  `timers` the pending `setTimeout`s, `running` the worker's loop.
* `Billing`: `invoices`, `payments`, `allocations`, `log`, `positions` are the
  repositories; `afterCommit` holds the allocated events the callbacks have
  still to log, during which the lock is held and no other call runs.
* `Ledger`: an entry's id is a digest of its source, so `entries` is the set of
  sources that have been posted; `bindings` is `requestIdempotencyIndex`,
  `consumed` the status of the key `ledger-posting:<rule version>` of each event,
  `periods` the ledger's own period repository. `phase` says between which
  awaits a call is: `waiting` for the lock, `running`, `posting` and `posted`
  inside (before and after the nested transaction), `binding` after the commit
  of a journal, `unwinding` after a nested rollback, `awaiting` another
  delivery's consumer key. `late` is history: the calls that had passed the
  check of a period when it became closed.
* `EventLog`: `log` is the repository in the order of `create`, `saved` the
  snapshot of an open transaction, `outbox` its `runAfterCommit` callbacks,
  `published` what the queue has had, `handled` the order in which the
  projections took it; `exposed` is history, the events that a caller outside
  published while a transaction was open whose rollback takes them back. `live`
  is the AR and AP repositories; `Rebuilt` is what the tool computes from the
  log and keeps nowhere. Ids are numbers, given in any order, as the random ids
  that break ties in the replay's order are.
* `EventBus`: `busSubscriptions` has the fields of `SubscriptionRecord`:
  the queue, the event the handler is at work on, the timer (`null`, `set`, and
  `cleared` when it was cleared without being set to null), the publishers that
  wait.
* `Payables`: `positions` is the AP repository, `applied` and `posted` the
  events AP and the ledger have consumed; `early` is history, the payments that
  came before their bill.
* `Polling`: a pull under way holds the checkpoint it read and the answer it
  got; `checkpoint` is a position in the provider's feed.
* `Ingestion`: `answers` is history: what each delivery was answered with.
* `Subscriptions`: `today` is the clock the daily job reads, `billed` the dates
  for which it has asked for an invoice, `pending` the calls of `createInvoice` nobody awaits,
  `invoiced` those that succeeded.
* `Statements`: an entry is its month and its lines; `Slice` is
  `computeStatementSlice`, `Section` is `classifyCashflowSection`.

## 3. Runs

| Run | Shows | Bounds, and why they are enough |
|---|---|---|
| `transaction_manager` | Serialisation, rollback from any depth, what happens to writes outside transactions, refinement of `AtomicStore`, and that every call returns unless the lock was leaked by a callback that threw | Two calls (a holder and a waiter), one outside writer, two repositories, so that one can be registered early and one in a nested frame; depth 3, so that an error can cross a frame that is neither the first nor the last; three operations per call |
| `transaction_manager_outside` | Violation: an outside write is erased by a rollback | One call, one writer, one repository: the shortest case |
| `consumer_idempotency` | One effect per event and consumer, the body returned is that of the recorded effect, every delivery returns | Four deliveries: one at work, one waiting, one resolved, one to come |
| `payment_requests` | Replayed answers are genuine; duplicates need a failure; every launched operation settles, and so does every request unless one before it lost its client | Three requests, two failures, clients that disconnect |
| `payment_duplicates` | Violation: two waiters of a failed attempt both pay | One failure is enough |
| `event_queue` | Each handler once, processed means handled, first attempts in order, only poison dies, every job settles | Two events of one aggregate (the case chaining is for), two handlers (so that the second fails after the first worked), two attempts, each event published twice, shutdown at any time |
| `event_queue_order` | Violation: a retried event is overtaken | Two events of one aggregate, one of another |
| `billing` | The books balance, projections follow the allocations in any order of events, also through the announcement of a paid invoice that is always refused, customer statements close with what the invoices ask for, over-allocation needs a request naming an invoice twice | Two invoices, two payments of 3, prices of 2 and discounts of 0 and 2 (totals 0 and 2), so a payment overpays one invoice and underpays two; requests of up to two items; four events in the log, which is where TLC stops, hence no deadlock check |
| `billing_receivable` | Violation: AR loses an allocation handled before the issue | as above |
| `ledger` | What was answered, bound or consumed is in the journal; no rollback takes an entry of somebody else; a closed period takes only postings already past their check; statements reconcile and consecutive spans join up after every step; every posting returns | Two calls (one inside, one waiting or closing in); seven sources: a taxed invoice, the same event under another rule version, an invoice of zero, a payment in the next fiscal year, a lopsided adjustment, a cash journal, a reversal of the invoice; one key, so that different sources collide on it; two periods, each closed and reopened at most once, one approval; three months with the year's end after the first, so spans start in, end in and cross a year |
| `back_office` | Positions agree with payments, ledger and a rebuild; the dates of a schedule are billed once and none after the end; listings are complete; deliveries count once; approvals let one action through and matches pair off; calculations keep their sums | see the table below |
| `subscription_invoices` | Violation: a period is advanced past and nobody gets its invoice | One subscription and ten days: the first run of the job |

What `back_office` explores of each module (572,782 states in all):

| Part | Bounds, and why they are enough |
|---|---|
| payables | Eight events of two bills and two vendors, each consumed by AP and by the ledger in any order: created, approved with the same and with another total and vendor, two part payments, a payment too much, a bill without a vendor |
| bills | Two vendors and one bill, patches that leave fields out, two days |
| subscriptions | One subscription, a clock of ten days over months of two and three days, so that several periods fall due at once, the start day is missing in some month and an end falls between two dates; one patch |
| tax | One rate that may change in code, jurisdiction, dates and kind; rates of 8.25 % and of 200 %, lines that bring a rate of 1500 % or of -120 %, documents of up to two lines of 0, 7 and 99 |
| matching | Two lists of up to two of eleven records that differ in amount, date, currency, reference and name, one field at a time |
| overrides, manual matches | Two approval requests and two candidates; three items with three contents |
| polling | A feed of four records on pages of three, with a new version of an object, a malformed record and its repair; two overlapping pulls, two slots |
| webhooks, Stripe, external payments, bank sync, bank feed | Two sources, two ids (or none), two contents and two details: everything a key may confuse; four different answers of one handler |
| customers | Three customers, pages of one, a second customer in the same millisecond |
| balances | Six events of three invoices and two customers under old and new names, delivered any number of times |
| reports | Every subset of seven entries with five open invoices, over days, weeks and months; all series of six days of five amounts; histories of up to six invoices |
| event log with transactions | Any three events of the three types of `LoggedTogether`, one dated back and two with one client's key in two tenants, logged inside or outside, repeated, undone and logged again |
| event log and replay | Any three events of ten without transactions: both kinds of document, repeated, dated back, with a client's key, lacking a field |
| event bus | Two subscriptions to one type, two events published any time, one failure |

Every property of a passing run has a mutant: a definition `X_fault` beside the
definition `X` with one plausible mistake in it (a dropped guard, an
off-by-one, a missing reset). Put in the place of `X`, the mistake makes TLC
report that property violated.

### Interleaving and fairness

A step is what runs between two awaits of one call. Calls of one process do
interleave at that grain (`Promise.all` over service calls, as the tests do).
Bodies of handlers and of transactions are one step where another module has
shown they may be taken as one. Fairness is weak and per actor: a promise that
is resolved is continued, a timer fires, the application boots, a function
given to `wrapper` does a bounded amount of work. No fairness is assumed for
anything outside the process: nobody has to send a request, publish an event
or close the application. Liveness in `PaymentRequests` uses that a
transaction returns, which `TransactionManager` shows (`EveryCallReturns`) as
long as no after-commit callback throws; in the code the callbacks are
`logEvent` publications.

## 4. Disagreements between the code and what is written about it

* A rollback erases events that others logged meanwhile
  (`financial-transaction.manager.ts:108`); `src/docs/database_schema.md:818`
  calls the log append-only and immutable.
* All retries that wait behind a failing payment operation take over
  (`payments.service.ts:409`); the test
  `src/backend/test/payments.idempotency.spec.js:137` promises one payment.
* A retried event is overtaken by later events of its aggregate
  (`in-memory-queue.driver.ts:125`); `src/03_event_system.md:65` guarantees
  the order.
* AR drops an allocation handled before its invoice's issue
  (`ar.service.ts:38`); `src/05_ar_ap_engine.md:25`.
* The daily job advances a subscription past a period whose invoice is refused
  (`subscriptions.service.ts:126`); `src/docs/domain_model.md:573`.

Met while reading and not turned into runs. The models have what the code does,
and where a property would fail because of it, the property says under which
condition it holds.

* Invoices: voiding an invoice worth something is always refused by the
  validator although `src/backend/tests/invoice-lifecycle.test.ts` expects it
  to succeed, and an issued invoice may be issued again although the same test
  expects a conflict. `billing.invoice.paid.v1` never passes its
  validator, whose table has that key twice, the second time requiring
  `payment_id` (`tests/invoice-events.test.ts:87`).
* Keys: a key reused with another payload is answered with the stored response
  where `src/docs/api_contracts.md:141` has a 409; the keys of the integration
  events leave out the source system, so that of two source systems' payments
  with one id the second is answered with the first and lost.
* Event log: a consumer may be sent an event that is not in the log, when a
  caller outside another call's transaction logs it and the transaction rolls
  back. A projection that has applied it keeps a position no rebuild gives.
* Consumers: a delivery that waited for one that failed returns null without
  an error (`event-consumer-idempotency.service.ts:35`); `payment.refunded`
  carries no customer, so balances ignore refunds; nobody publishes
  `billing.bill.*` events.
* Payables: the ledger posts a bill when it is created and AP opens a position
  also when it is approved, although `src/05_ar_ap_engine.md:37` wants both
  reconciled; a payment that overtakes its bill is lost; an approval with
  another total forgets or invents payments.
* Patches: one without a currency (vendors, bills) or a name (customers)
  erases it, and a search by name then throws.
* Subscriptions: monthly billing from the 29th to the 31st passes over a month
  that lacks the day and goes on from the day it ran over to; the last day of a
  subscription with an end date is not billed after midnight, and dates of the
  term still due when the end has passed are never billed.
* Tax: the rate a line brings is not checked as a configured one is; one of
  -100 % in an amount that includes its tax divides by zero.
* Approvals: the gate does not compare amounts, and an action refused after
  the gate has used up its approval.
* Polling: a malformed record that is sent again unchanged is never normalized,
  and the slot of a failed pull is not tried again. Automatic bank matching
  ignores the currency.
* Replay: refunds, which are negative changes, are clamped to zero by the
  tool's copy of the projections, so a rebuild disagrees with AR after one; the
  simulated recovery compares a replay with itself.
* Event bus: `waitForIdle` called after an unsubscribe during a retry delay
  never resolves, because the timer is cleared and not set to null.
* Figures: the dashboard's outstanding balance counts drafts and its net burn
  ignores refunds; with a median deviation of zero the anomaly threshold shown
  is the median; one more late invoice can lower a predicted delay.

## 5. Proofs

Checked by TLAPS for every value of the constants: any number of calls,
invoices, events, handlers, deliveries, subscribers, any amounts and bounds. A
proof module states the inductive invariant of its component before the lemmas
that keep it, one lemma per action; TLC was given the invariants that could be
evaluated on the small instances before they were proved.

| Module | Theorem | Property it establishes |
|---|---|---|
| `TransactionManagerProofs` | `TypeCorrect`, `MutualExclusionHolds`, `NoTraceHolds`, `PublishedHolds` | `TypeOK`, `MutualExclusion`, `FailedCallLeavesNoTrace`, `PublishedIsCommitted` |
| | `OutsideWritesLostOnlyToRollbackHolds` | the action property `OutsideWritesLostOnlyToRollback` |
| | `Implementation` | the refinement `ImplementsAtomicStore` |
| `EventConsumerIdempotencyProofs` | `TypeCorrect`, `HandledAtMostOnce`, `RecordedBodies` | `TypeOK`, `EffectAtMostOnce`, `BodyIsOfRecordedEffect` |
| `PaymentRequestsProofs` | `TypeCorrect`, `GenuineReplays`, `CommittedResults`, `NoDuplicateWithoutFailure` | `TypeOK`, `ReplaysAreGenuine`, `ResultIsCommitted`, `DuplicatesNeedAFailure` |
| `EventQueueProofs` | `TypeCorrect`, `EffectsOnce`, `ProcessedAreHandled`, `FirstAttemptsOrdered` | `TypeOK`, `EffectAtMostOnce`, `ProcessedMeansHandled`, `FirstAttemptsInOrder` |
| | `DeathsArePoison` | the action property `OnlyPoisonDies` |
| `BillingProofs` | `TypeCorrect`, `BooksAlwaysBalance`, `OverAllocationIsByOnePayment`, `InvoicesCatchUp`, `ReceivableFollowsInOrder` | `TypeOK`, `BooksBalance`, `OverAllocationNeedsARepeatedInvoice`, `InvoicesFollowAllocations`, `ReceivableRightInOrder` |
| `LedgerProofs` | `TypeCorrect`, `AnswersStand`, `StatementsAlwaysReconcile` | `TypeOK`, `AnswersAreEntries`, `StatementsReconcile` |
| | `EntriesStay`, `ClosedPeriodsHold` | the action properties `LedgerOnlyGrows`, `ClosedPeriodTakesOnlyLateCalls` |
| `BackOfficeProofs` | `BackOfficeTypeCorrect`, `ApprovalsAndMatchesHold`, `EveryDeliveryCountsOnce`, `EveryListIsComplete` | `BackOfficeTypeOK`, `ApprovalsAndMatches`, `DeliveriesCountOnce`, `ListsAreComplete` |
| | `BillingIsAlwaysExact`, `PositionsAlwaysAgree` | `BillingIsExact`, `PositionsAgree` |

The arguments, and why the properties are not inductive by themselves:

* **The transaction manager.** A second call is kept out because only the head
  of the queue enters, the head is the one inside, and an error that releases
  the lock early also moves its call out of the transaction. `LockInv` says so:
  who is in a transaction is the head of the queue and owns the open context,
  whose depth is the number of its frames. That a failed call leaves no trace
  needs what the snapshots hold (`TraceInv`): a call's writes are in a
  repository only once it has committed, or while it runs and its context has a
  snapshot of that repository; and a snapshot has writes of committed calls
  only and differs from the repository by the owner's own. The refinement maps
  the store of `AtomicStore` to the calls' writes as a rollback of the open
  context would leave them; a commit and an error are its steps, everything
  else stutters.
* **Keys.** The record's status decides who may be where: a key is pending
  exactly while one delivery is in the handler, and a completed key holds the
  response of the delivery whose work was done. For payment requests there are
  two keys and two promises between them, so the invariants follow an answer
  from where it was produced, through the record or a resolved promise, to
  whoever is answered. Before the first failure an operation is alone under its
  key (`AloneInv`); with a failure it need not be, which is the violation of
  `payment_duplicates`.
* **The queue.** A job under way is the head of its aggregate's chain and all
  handlers before the current one have worked (`RunningInv`); the work done is
  on the keys' records (`EffectInv`); a queued job has an attempt left or its
  last one is under way (`AttemptsInv`), hence only poison dies. The order of
  first attempts depends on the timers: between publication and first attempt
  an event has one timer without a delay or one place in the chain, and of two
  such events of an aggregate the later is behind the earlier in both
  (`OrderInv`).
* **Billing.** `CoreInv` is about what the services write: the log together
  with the event still to be logged after the commit tells exactly what is
  allocated (`NetInv`), so a paid amount is wrong only while an event that
  touches the invoice is not reconciled (`PaidInv`); allocations by different
  payments cannot exceed an invoice because each was checked against what the
  others had left (`OneEachInv`). `ReceivableInv` adds what AR needs: every
  event that moves money stands behind its invoice's issue, no prefix of the
  log allocates less than nothing or more than the total, hence the clamps
  never bite, and a position that has taken a prefix in order is what that
  prefix says. That the AR theorem needs the order is the violation of
  `billing_receivable`.
* **The ledger.** The rollback is the step that breaks `AnswersAreEntries`: it
  replaces the journal by a snapshot. The invariant says that a call in its
  transaction holds the lock, that the journal then is its snapshot and at most
  its own entry, posted and not answered yet, and that everything answered,
  bound, consumed or about to be bound is in the snapshot (`Lasting`). Four
  lemmas (a rollback, a commit, a request, a step inside) carry it; each action
  is one of them. `JournalStep`, what a step may do to the journal, gives the
  two action properties.
* **The statements.** The journal is a finite set of valid postings
  (`JournalInv`, kept by `JournalStep`). Line by line, debits and credits are
  what the two sides of the balance sheet change by, so the sides agree for
  every valid posting (`LinesBalance`) and for every set of them
  (`SidesBalance`). The rest is how sums split over sets that do not meet
  (`EntriesSplit`): what lies before a span and within it, the three sections
  of the cash flow and what moves no cash, and two spans of one fiscal year.
* **The back office.** Each module has an invariant of its own, and as the
  modules share no variable a part that does not move keeps its one.
  *Approvals*: what the log says of a request follows its status, and a request
  that let an action through is spent. *Overrides*: there are at most as many
  results that depart from their suggestion as overrides that passed the gate.
  *Manual matches*: an item not sent again is marked just when one match has
  it. *Polling*: a stored checkpoint may go back but never has a gap behind it,
  because what is behind the cursor of a pull was stored before it was asked.
  *Ingestion*: a key names one delivery (or those of source systems that share
  an id), and what is kept under it is what was answered. *Event log*: a
  transaction only adds to the log; what it adds is published before the commit
  only by a caller outside, and is then among the exposed, as is whatever a
  rollback took after it was published. *Balances*: deltas and events that name
  their customer correspond one to one, so a sum over the keys of a customer is
  a sum over its events. *Event bus*: what came to a subscription is what its
  handler is done with followed by what is left, whose head the handler is busy
  with; an active subscription with something to do is draining or has its
  timer set. *Bills*: a vendor is never gone, as its deletion sets only its
  status, and whatever patch is applied, the dates that are stored were
  compared. *Customers*: the place of a customer in a list is one more than the
  number of those listed before; no two share a place, a page shows those whose
  places it covers, and whoever a walk expects and has not shown has a place
  behind the walk's offset. A customer who is created can only move others to a
  later place, which an offset that counts from the front does not pass over.
  *Subscriptions*: the dates billed and the date that is next are one sequence
  in which each date is the advance of the one before. A run of the job goes on
  from its end (`IsRun`); a date that is next is set by hand only at a patch
  that is counted, so an uncounted one starts the sequence. Both the first days
  of the months and the loop of the job are recursive functions, so the lemmas
  first show by induction that there are such functions. That one advance is
  the next date of the schedule (`MonthsApart`) needs that a day a month lacks
  falls into the month after it. What a run bills (`JobBills`) is read off the
  loop: it stops at the end and at today, and the date it leaves is past one of
  them. *Tax*: a rounded
  quotient is at most half its divisor away, so the base of a line that
  includes its tax is never above its amount, and every line that is appended
  is exact (`LineHolds`); totals are then sums of what each line adds up to,
  and the groups by code a sum taken fiber by fiber that leaves out zeros.
  *Payables*: a position is opened by the first event that names its bill and
  reduced only by payments that came after it, all of which the invariant
  counts (`PayablesInv`), and a ledger that posted the same events has moved
  its control account by the same amounts, whatever the order; the views are
  the sum of what is open, taken by vendor, by due date and by bucket.
  *The matching engine*: its two loops are recursive functions of a number;
  `RoundsExist` proves that each exists and `RoundsKeep` that it keeps what
  every round keeps. `RoundSums` says that what a record has left and its
  matches add up to its amount, on both sides, and `RoundProgress` that after k
  rounds the record at hand is served or k of the others are used up, so that
  as many rounds as there are others are enough. `RunSums` carries both over
  the records that had their turn; later turns only lower what others have
  left, so whoever was served stays so. `EveryPlaceHasARecord` says that the
  order by date gives each record one turn.
  *Types*: the invariants above hold most of them; `BesideTypes` keeps the rest
  beside them.

Sums (`SumFunction`) and `Distinct` are recursive functions of the community
modules. `CollectionLemmas` proves that the function each is defined by exists
(by induction over the cardinality of the subsets, with the induction stated
for a set of numbers instead of a predicate), that it may take its elements in
any order, and from that how a sum grows, splits, adds and is renamed.

Assumptions are the named `ASSUME`s on constants: bounds are naturals, a null
value is none of the actors, a fiscal year has at least one month, the calendar
of subscriptions has months for a quarter and one more beyond the clock, none
twice as long as another, no line brings a rate of -100 %, events with one id
are the same event, the feed of a provider is a sequence. TLC evaluates them on
the runs.

Only model-checked:

* Liveness (`EveryCallReturns`, `EveryDeliveryReturns`, `EveryRequestSettles`,
  `EveryJobSettles`, `EveryPostingReturns`): the prover has no rule for
  fairness.
* `CalculationsAreExact` of `MCBackOffice`: that the three matchers agree rests
  on the weights of their scores, which the options of the engine can outweigh
  (a reference counts 1000, a day of `maxDateDistanceDays` 1); the figures of
  the reports compare some twenty readings of one journal; medians are about
  lists sorted by `SortSeq`, and a rebuild folds a list sorted by
  `SetToSortSeq`, a choice among all sequences, in another order than the live
  consumers did.
* The five runs that expect a violation are counterexamples, not theorems.

## 6. What the models leave out on purpose

* `TransactionManager`: fn is a bounded sequence of writes, nestings and
  registrations. Two things about callers are taken from reading them: a
  repository that is written is registered as a participant (the approval
  repository is not; it is a writer outside), and no caller swallows an error
  of a nested call.
* `Idempotency`: payloads. A key is never compared with the request it came
  with, in the code either.
* `EventQueue`: the content of events; events already published before the
  run; the BullMQ driver, which has concurrency 10 and no chains.
* `Billing`: one tenant, customer, currency and date; the audit, created,
  recorded, paid and receivable-updated events, which nothing modelled reads;
  quantity times price with rounding, as a price per line.
* `Ledger`: one tenant and currency; the events the ledger logs, role checks,
  requests malformed beyond repair, and the approval's own life cycle (a
  number of approved requests). Entries posted by an event carry exactly the
  accounts its rule requires, so the required-account check has nothing to
  reject. Queries and paging, and the balance, income and AR/AP summaries of
  the other statement services, only read.
* `EventLog`: of a payload only the fields a validator requires or a projection
  reads, each present or not. The normalization of legacy event types.
* `Payables`, `Bills`: the payable-updated events, one tenant and currency in AP;
  names, addresses and terms.
* `Matching`: similarity of texts, as equal, different or missing.
* `Polling`, `Ingestion`: the network calls, as a client that answers or fails;
  signatures, as good or broken; hashes, as the contents they are taken of.
* `Customers`: a search matches a name or not; cursors are offsets.
* `Subscriptions`: a date is a day in a calendar of short months; prices.
* `Reports`, `Insights`: presentation, and of floating point numbers what the
  comparison with a threshold needs, as a fraction of integers.
* Periods: `POST /accounting-periods/...` closes a period in a repository of
  its own (`modules/accounting-periods`) that no posting reads, while
  `LedgerService.closePeriod` and `reopenPeriod`, which the model has, are called
  only by tests. The model says what closing means to the ledger, not that
  the API reaches it.

## 7. Not modelled, and what is left

Not modelled: products (a record store like customers), event normalization (a
table of names), documents and AI safety (rendering and text filtering),
authentication, users and tenants (every modelled call is one the guards let
through, or a 4xx answer in `PaymentRequests`), the BullMQ adapter, the
provider transports and the connector manager (network calls), the database
service (unused by financial modules), the frontend, the shared packages,
design, infrastructure and operations files. Partly modelled: the separate
accounting period repository and the editable chart of accounts, which no
posting reads; comparisons and daily rows of statements; the narrative,
revenue and recurring figures of analytics.

Left to prove: the parts of `CalculationsAreExact` (section 5 says why they
are only checked).
