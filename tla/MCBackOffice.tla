---------------------------- MODULE MCBackOffice ----------------------------
(***************************************************************************)
(* The modules of the back office side by side.  They share no state, so   *)
(* each behavior lets one of them move, the part it starts with, and the   *)
(* properties of all are checked in one run.                               *)
(***************************************************************************)
EXTENDS Payables, Bills, Subscriptions, Tax, Matching, Reconciliation,
        Polling, Ingestion, Customers, CustomerBalances, Reports, Insights,
        EventLog, EventBus

CONSTANT LoggedTogether   \* types of the events logged beside transactions

VARIABLE part   \* the part that moves

Part == {"payables", "bills", "subscriptions", "tax", "matching", "overrides", "manual_matches",
         "polling", "webhooks", "stripe", "external_payments", "bank_sync", "bank_feed",
         "anonymous_feed", "customers", "balances", "reports", "event_log", "event_replay", "event_bus"}
Ingesting == {"webhooks", "stripe", "external_payments", "bank_sync", "bank_feed", "anonymous_feed"}
Reconciling == {"overrides", "manual_matches"}
Logging == {"event_log", "event_replay"}

backOfficeVars ==
    <<part, apVars, billsVars, subscriptionVars, taxVars, matchingVars, approvalVars, reconVars,
      pollingVars, ingestionVars, customersVars, balanceVars, reportVars, logVars, busVars>>

BackOfficeInit ==
    /\ part \in Part
    /\ APInit /\ BillsInit /\ SubscriptionsInit /\ TaxInit /\ MatchingInit /\ ReconciliationInit
    /\ PollingInit /\ IngestionInit /\ CustomersInit /\ BalancesInit /\ ReportsInit
    /\ LogInit /\ BusInit
    /\ part # "reports" => receivables = {}

\* Whatever is not the part that moves stays.
OthersStay ==
    /\ UNCHANGED part
    /\ part # "payables" => UNCHANGED apVars
    /\ part # "bills" => UNCHANGED billsVars
    /\ part # "subscriptions" => UNCHANGED subscriptionVars
    /\ part # "tax" => UNCHANGED taxVars
    /\ part # "matching" => UNCHANGED matchingVars
    /\ part # "overrides" => UNCHANGED <<approvalVars, results>>
    /\ part # "manual_matches" => UNCHANGED <<items, matches, resent>>
    /\ part # "polling" => UNCHANGED pollingVars
    /\ part \notin Ingesting => UNCHANGED ingestionVars
    /\ part # "customers" => UNCHANGED customersVars
    /\ part # "balances" => UNCHANGED balanceVars
    /\ part # "reports" => UNCHANGED reportVars
    /\ part \notin Logging => UNCHANGED logVars
    /\ part # "event_bus" => UNCHANGED busVars

\* The log has two parts: one with transactions, whose events are of some
\* types, and one with every type of event and no transaction.
BackOfficeNext ==
    /\ \/ part = "payables" /\ APNext
       \/ part = "bills" /\ BillsNext
       \/ part = "subscriptions" /\ SubscriptionsNext
       \/ part = "tax" /\ TaxNext
       \/ part = "matching" /\ MatchingNext
       \/ part = "overrides" /\ OverridesNext
       \/ part = "manual_matches" /\ MatchesNext
       \/ part = "polling" /\ PollingNext
       \/ part = "webhooks" /\ WebhooksNext
       \/ part = "stripe" /\ StripeNext
       \/ part = "external_payments" /\ PaymentsNext
       \/ part = "bank_sync" /\ SyncNext
       \/ part = "bank_feed" /\ BankFeedNext
       \/ part = "anonymous_feed" /\ AnonymousFeedNext
       \/ part = "customers" /\ CustomersNext
       \/ part = "balances" /\ BalancesNext
       \/ part = "reports" /\ ReportsNext
       \/ part = "event_log" /\ LogNext /\ \A n \in DOMAIN log' : log'[n].type \in LoggedTogether
       \/ part = "event_replay" /\ LogNext /\ saved' = <<>>
       \/ part = "event_bus" /\ BusNext
    /\ OthersStay

BackOfficeSpec == BackOfficeInit /\ [][BackOfficeNext]_backOfficeVars

-----------------------------------------------------------------------------
(* What the modules promise, by what can go wrong.  A part that does not   *)
(* move is in an initial state, where its own behaviors show its promise.  *)

\* Every record of every store is one its services can have written, and
\* the histories name only what happened.
BackOfficeTypeOK ==
    /\ part = "payables" => APTypeOK
    /\ part = "bills" => BillsTypeOK
    /\ part = "subscriptions" => SubscriptionsTypeOK
    /\ part = "tax" => TaxTypeOK
    /\ part = "matching" => MatchingTypeOK
    /\ part \in Reconciling => ApprovalsTypeOK /\ ReconciliationTypeOK
    /\ part = "polling" => PollingTypeOK
    /\ part \in Ingesting => IngestionTypeOK
    /\ part = "customers" => CustomersTypeOK
    /\ part = "balances" => BalancesTypeOK
    /\ part = "reports" => ReportsTypeOK
    /\ part \in Logging => LogTypeOK
    /\ part = "event_bus" => BusTypeOK

\* However the events of bills repeat and cross each other, a position is the
\* total less what was paid, agrees with the control account of the ledger
\* once both have seen the bill, and every view of the positions tells the
\* same (ApService).
PositionsAgree ==
    part = "payables" => OpenIsTotalLessPayments /\ ControlAccountAgrees /\ ViewsAgree

\* However seldom the job runs, each date of a subscription's schedule is
\* billed once, as long as nobody sets the schedule by hand, and no run bills a
\* canceled subscription, a date after the end, or leaves one due; and the tax
\* of the lines of a document, each rounded, is the tax of the document
\* (SubscriptionsService.processDueSubscriptions, TaxService).
BillingIsExact ==
    /\ []((part = "subscriptions" => EachPeriodBilledOnce) /\ (part = "tax" => TaxAddsUp))
    /\ [][part = "subscriptions" => JobBillsTheTerm]_backOfficeVars

\* No listing loses a record: neither the list of a vendor's bills when the
\* vendor is deleted before them, nor a walk through the pages of the
\* customers while others are created (BillsService, CustomersService).
ListsAreComplete ==
    /\ part = "bills" => BillsStayListed
    /\ part = "customers" => WalksMissNobody

\* What is delivered again counts once, and what is delivered counts: a record
\* of a poll that overlaps the last one, a webhook or a payment a source sends
\* twice, an event that reaches the customer balances twice, an event logged
\* again with its key or after a rollback, one that comes to a subscription of
\* the bus with the backlog and from its publisher, who is answered once it is
\* handled.  FirstDeliveryStands and LogIsSound name the two cases in which the
\* code fails this: source systems that share an id, and callers outside the
\* transaction that is rolled back (PollingSyncService, IntegrationService, EventsRepository,
\* CustomerBalanceEventsConsumer, EventBusService).
DeliveriesCountOnce ==
    /\ part = "polling" => FeedIsTakenWhole
    /\ part \in Ingesting => FirstDeliveryStands
    /\ part = "balances" => BalancesCountOnce
    /\ part \in Logging => LogIsSound
    /\ part = "event_bus" => HandledInOrder /\ PublishersAreAnswered

\* One approval lets one action through, what is matched by hand pairs one
\* record with one other, and the engine matches nobody beyond his amount and
\* leaves nobody over whom it should have matched (ApprovalGateService,
\* ReconciliationService, MatchingEngine).
ApprovalsAndMatches ==
    /\ part = "overrides" => ApprovalsAreSpentOnce
    /\ part \in Reconciling => MatchesPairOff
    /\ part = "matching" => MatchesAreSound

\* The calculations agree: the matchers pair the same records, the reports of
\* one ledger give the same figures, what the assistive figures point out has
\* a reason, and a rebuild from the event log gives the live positions,
\* whatever orderly way the consumers took (MatchingEngine, AnalyticsService,
\* DashboardService, ReplayRebuildToolingService).
CalculationsAreExact ==
    /\ part = "matching" => MatchersAgree
    /\ part = "reports" => ReportsAgree /\ InsightsAreGrounded
    /\ part \in Logging => RebuildsAgree

-----------------------------------------------------------------------------
(* Values of the constants *)
MCBillContent ==
    [created1  |-> [type |-> "bill.created", bill |-> "b1", vendor |-> "v1",
                    amount |-> 3, tax |-> 1, due |-> 2, period |-> 1],
     approved1 |-> [type |-> "bill.approved", bill |-> "b1", vendor |-> "v1",
                    amount |-> 3, tax |-> 1, due |-> 2, period |-> 1],
     raised1   |-> [type |-> "bill.approved", bill |-> "b1", vendor |-> "v2",
                    amount |-> 4, tax |-> 0, due |-> 3, period |-> 2],
     part1     |-> [type |-> "bill.paid", bill |-> "b1", vendor |-> None,
                    amount |-> 1, tax |-> 0, due |-> None, period |-> 2],
     rest1     |-> [type |-> "bill.paid", bill |-> "b1", vendor |-> None,
                    amount |-> 2, tax |-> 0, due |-> None, period |-> 3],
     created2  |-> [type |-> "bill.created", bill |-> "b2", vendor |-> "v1",
                    amount |-> 2, tax |-> 0, due |-> None, period |-> 1],
     unowned2  |-> [type |-> "bill.created", bill |-> "b2", vendor |-> None,
                    amount |-> 2, tax |-> 0, due |-> None, period |-> 1],
     twice2    |-> [type |-> "bill.paid", bill |-> "b2", vendor |-> None,
                    amount |-> 4, tax |-> 0, due |-> None, period |-> 2]]
MCBillEvent == DOMAIN MCBillContent

MCMonthLength == <<3, 2, 3, 3, 3, 3, 3, 3>>

MCLinePoints == {150000, -12000}

LOCAL ToMatch(a, d, c, r, n) ==
    [amount |-> a, date |-> d, currency |-> c, reference |-> r, counterparty |-> n]
MCRecord ==
    {ToMatch(a, 3, "USD", NoReference, n) : a \in {1, 2}, n \in {"acme", NoReference}}
    \cup {ToMatch(a, d, "USD", "R", "acme") : a \in {2, 3}, d \in {1, 3}}
    \cup {ToMatch(2, 7, "USD", "R", NoReference), ToMatch(2, 3, "EUR", "R", "acme"),
          ToMatch(2, 1, "USD", "S", "acme")}

MCItemContent ==
    {[currency |-> "USD", amount |-> 1], [currency |-> "USD", amount |-> 2],
     [currency |-> "EUR", amount |-> 1]}

\* The malformed record is sent again repaired, with the same payload.
MCFeed ==
    << [object |-> "o1", content |-> 1, wellFormed |-> TRUE],
       [object |-> "o2", content |-> 1, wellFormed |-> FALSE],
       [object |-> "o1", content |-> 2, wellFormed |-> TRUE],
       [object |-> "o2", content |-> 1, wellFormed |-> TRUE] >>

LOCAL Balancing(id, type, customer, changes) ==
    [id |-> id, type |-> type, customer |-> customer, changes |-> changes]
LOCAL Change(invoice, amount) == [invoice |-> invoice, amount |-> amount]
MCBalanceEvent ==
    {Balancing("e1", "billing.invoice.created.v1", "c1", {Change(1, 7)}),
     Balancing("e2", "invoice.created", "c1", {Change(2, 3)}),
     Balancing("e3", "billing.payment.allocated.v1", "c1", {Change(1, 4), Change(2, 2)}),
     Balancing("e4", "billing.payment.allocated.v1", "c1", {Change(1, 2)}),
     Balancing("e5", "payment.received", "c2", {Change(3, 5)}),
     Balancing("e6", "billing.payment.refunded.v1", "nobody", {Change(1, -4)})}

LOCAL Posted(id, day, period, event, lines) ==
    [id |-> id, day |-> day, period |-> period, event |-> event, lines |-> lines]
MCJournalEntry ==
    {Posted(1, 0, 0, "invoice.created", EventLines("invoice.created", 6, 1)),
     Posted(2, 6, 0, "payment.recorded", EventLines("payment.recorded", 5, 0)),
     Posted(3, 7, 0, "bill.created", EventLines("bill.created", 4, 1)),
     Posted(4, 13, 0, "bill.paid", EventLines("bill.paid", 4, 0)),
     Posted(5, 13, 0, "payment.refunded", EventLines("payment.refunded", 2, 0)),
     Posted(6, 31, 1, "manual", << Debit("bank_clearing", 3), Credit("cash", 3) >>),
     Posted(7, 31, 1, "manual", << Debit("sales_tax_payable", 1), Credit("cash", 1) >>)}
LOCAL Receivable(id, status, due, amount) ==
    [id |-> id, status |-> status, due |-> due, amount |-> amount]
MCOpenInvoice ==
    {Receivable(1, "issued", 0, 1), Receivable(2, "partially_paid", 30, 2),
     Receivable(3, "issued", NoDueDate, 4), Receivable(4, "paid", 61, 8),
     Receivable(5, "issued", 91, 16)}
MCTaxDocument ==
    {[entry |-> 1, kind |-> "invoice", issued |-> 6, tax |-> 1],
     [entry |-> 3, kind |-> "bill", issued |-> 6, tax |-> 1]}
MCMonthStart == {0, 31, 59}
MCOutflowSeries == [1..6 -> {0, 999, 1000, 3000, 9000}]

LOCAL Logged(tenant, type, doc, amount, changes) ==
    [tenant |-> tenant, type |-> type, key |-> <<>>, version |-> 1, datedBack |-> FALSE, lacks |-> {},
     doc |-> doc, amount |-> amount, changes |-> changes]
LOCAL Moved(doc, amount) == [doc |-> doc, amount |-> amount]
MCInput ==
    {Logged("t1", "invoice.issued", 1, 5, {}),
     Logged("t1", "invoice.voided", 1, 0, {}),
     [Logged("t1", "invoice.paid", 1, 5, {}) EXCEPT !.lacks = {"payment_id"}],
     Logged("t1", "bill.created", 3, 4, {}),
     [Logged("t1", "bill.approved", 3, 4, {}) EXCEPT !.datedBack = TRUE],
     Logged("t1", "bill.paid", 3, 1, {}),
     [Logged("t2", "payment.recorded", 9, 4, {}) EXCEPT !.key = <<"k1">>],
     [Logged("t1", "payment.allocated", 9, 4, {Moved(1, 4), Moved(2, 1)}) EXCEPT !.key = <<"k1">>],
     [Logged("t1", "payment.refunded", 9, 4, {Moved(1, -4)}) EXCEPT !.lacks = {"allocation_changes"}],
     [Logged("t1", "invoice.issued", 2, 3, {}) EXCEPT !.lacks = {"due_date"}]}
MCEventTypeOf == [x \in Subscriber \cup BusEvent |-> IF x = 3 THEN "payment" ELSE "invoice"]
=============================================================================
