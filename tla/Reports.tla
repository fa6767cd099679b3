------------------------------ MODULE Reports ------------------------------
(***************************************************************************)
(* The reports that read the journal and the open invoices, each with code *)
(* of its own: CashflowService, the figures of AnalyticsService and those  *)
(* of DashboardService, beside FinancialStatementsService (Statements).    *)
(*                                                                         *)
(* The journal grows by any of the given entries.  An entry is dated by a  *)
(* day; days are counted from a Monday.  Currencies, ordering and the      *)
(* daily rows are left out.  The tax reports of TaxService read the same   *)
(* journal, beside the documents that were taxed.                          *)
(***************************************************************************)
EXTENDS Statements

CONSTANTS
    JournalEntry,   \* entries that may be posted: [id, day, period, event, lines]
    OpenInvoice,    \* invoices as the reports see them: [id, status, due, amount]
    TaxDocument,    \* taxed invoices and bills: [entry, kind, issued, tax], posted by entry
    MonthStart,     \* days on which a month starts
    NoDueDate

ASSUME ReportsAssumption ==
    /\ \A e \in JournalEntry : e.day \in Nat /\ e.period \in Nat /\ ValidLines(e.lines)
    /\ \A i \in OpenInvoice : i.due \in Nat \cup {NoDueDate} /\ i.amount \in Nat
    /\ \A t \in TaxDocument : t.kind \in {"invoice", "bill"} /\ t.tax \in Nat /\ t.issued \in Nat
    /\ 0 \in MonthStart /\ MonthStart \subseteq Nat

VARIABLES
    journal,     \* LedgerRepository: the entries posted
    receivables  \* the invoices the reports read

reportVars == <<journal, receivables>>

ReportsTypeOK == journal \subseteq JournalEntry /\ receivables \subseteq OpenInvoice

ReportsInit == journal = {} /\ receivables \in SUBSET OpenInvoice

PostEntry(e) ==
    /\ journal' = journal \cup {e}
    /\ UNCHANGED receivables

ReportsNext == \E e \in JournalEntry \ journal : PostEntry(e)

LOCAL Total(f(_), set) == MapThenSumSet(f, set)

-----------------------------------------------------------------------------
\* CashflowService.generate for the days from..to
Within(from, to) == {e \in journal : from <= e.day /\ e.day <= to}

CashflowReport(from, to) ==
    LET entries  == Within(from, to)
        incoming == {e \in entries : NetCash(e) > 0}
        outgoing == {e \in entries : NetCash(e) < 0}
        billPaid == {e \in outgoing : e.event = "bill.paid"}
        settled  == {e \in incoming : e.event \in {"payment.settled", "payment.recorded"}}
    IN  [inflows   |-> Inflows(incoming),
         outflows  |-> Outflows(outgoing),
         arInflow  |-> Inflows(settled),
         apOutflow |-> Outflows(billPaid),
         expense   |-> Outflows(outgoing \ billPaid),
         arControl |-> Balance(entries, {"accounts_receivable"}),
         apControl |-> Balance(entries, {"accounts_payable"})]

-----------------------------------------------------------------------------
(* AnalyticsService *)
DaysPosted == {e.day : e \in journal}

\* getCashflow, day by day and in all
DayCashflow(d) == [inflow  |-> Inflows({e \in journal : e.day = d}),
                   outflow |-> Outflows({e \in journal : e.day = d})]
AnalyticsCashflow ==
    [inflow  |-> Total(LAMBDA d : DayCashflow(d).inflow, DaysPosted),
     outflow |-> Total(LAMBDA d : DayCashflow(d).outflow, DaysPosted)]

\* getBucketWindow: the first and the last day of a bucket
MondayOf(d) == d - (d % 7)
MonthOf(d) == Max({m \in MonthStart : m <= d})
MonthEnd(d) == LET later == {m \in MonthStart : m > d} IN IF later = {} THEN d ELSE Min(later) - 1

BucketWindow_fault(d, bucket) ==     \* mutant: a week ends seven days after it starts
    CASE bucket = "daily"   -> <<d, d>>
      [] bucket = "weekly"  -> <<MondayOf(d), MondayOf(d) + 7>>
      [] bucket = "monthly" -> <<MonthOf(d), MonthEnd(d)>>
BucketWindow(d, bucket) ==
    CASE bucket = "daily"   -> <<d, d>>
      [] bucket = "weekly"  -> <<MondayOf(d), MondayOf(d) + 6>>
      [] bucket = "monthly" -> <<MonthOf(d), MonthEnd(d)>>

\* getTimeSeries: a point for each bucket that has an entry
TimeSeries(bucket) ==
    LET of(w) == {e \in journal : BucketWindow(e.day, bucket) = w}
    IN  {[window   |-> w,
          revenue  |-> Balance(of(w), OfType({"revenue"})),
          expense  |-> Balance(of(w), OfType({"expense"})),
          cashflow |-> Balance(of(w), CashAccounts)] :
         w \in {BucketWindow(d, bucket) : d \in DaysPosted}}

\* getTaxSummary
TaxLines(direction) ==
    Total(LAMBDA e : Total(LAMBDA k : IF /\ e.lines[k].account = "sales_tax_payable"
                                         /\ e.lines[k].direction = direction
                                      THEN e.lines[k].amount ELSE 0, DOMAIN e.lines), journal)
TaxSummary == [collected |-> TaxLines("credit"), paid |-> TaxLines("debit"),
               net |-> TaxLines("credit") - TaxLines("debit")]

-----------------------------------------------------------------------------
(* TaxService *)
TaxBefore(day) == Balance({e \in journal : e.day < day}, {"sales_tax_payable"})
TaxOf(entries, direction) ==
    Total(LAMBDA e : Total(LAMBDA k : IF /\ e.lines[k].account = "sales_tax_payable"
                                         /\ e.lines[k].direction = direction
                                      THEN e.lines[k].amount ELSE 0, DOMAIN e.lines), entries)

\* getTaxPayableSummary and getTaxCollectedVsPaid for the days from..to
TaxPayable(from, to) ==
    LET opening   == TaxBefore(from)
        collected == TaxOf(Within(from, to), "credit")
        paid      == TaxOf(Within(from, to), "debit")
    IN  [opening |-> opening, collected |-> collected, paid |-> paid, closing |-> opening + collected - paid]

\* getPeriodTaxReportExportModel: the invoices issued in the span that no
\* entry of the span has posted with their tax.
MissingTaxRecords(from, to) ==
    LET issued == {t \in TaxDocument : t.kind = "invoice" /\ from <= t.issued /\ t.issued <= to /\ t.tax > 0}
    IN  {t \in issued : ~ \E e \in Within(from, to) :
                             /\ e.event = "invoice.created" /\ e.id = t.entry
                             /\ TaxOf({e}, "credit") = t.tax}

\* buildTaxSummary: whether documents and ledger agree; otherwise it throws.
TaxOfDocuments(kind, documents) == Total(LAMBDA t : t.tax, {t \in documents : t.kind = kind})
SummaryMatches(documents) ==
    TaxOfDocuments("invoice", documents) - TaxOfDocuments("bill", documents)
        = TaxOf(journal, "credit") - TaxOf(journal, "debit")

-----------------------------------------------------------------------------
(* DashboardService *)

\* buildCashflowTrends and computeCurrentCashMinor
CashTrend == {[day |-> d, net |-> DayCashflow(d).inflow - DayCashflow(d).outflow] :
                d \in {e.day : e \in {x \in journal : NetCash(x) # 0}}}
CurrentCash == Total(NetCash, journal)

\* computeOutflowsMinor: what bills took from the cash account itself
BillOutflows ==
    Total(LAMBDA e : Total(LAMBDA k : IF /\ e.lines[k].account = "cash"
                                         /\ e.lines[k].direction = "credit"
                                      THEN e.lines[k].amount ELSE 0, DOMAIN e.lines),
          {e \in journal : e.event \in {"bill.created", "bill.paid"}})

Collectable == {i \in receivables : i.amount > 0 /\ i.status \notin {"draft", "void", "paid"}}
AmountOfInvoices(invoices) == Total(LAMBDA i : i.amount, invoices)

\* buildInvoiceAgingBuckets
PastDue(i, asOf) == asOf - i.due

AgingBuckets(asOf) ==
    LET dated == {i \in Collectable : i.due # NoDueDate}
        of(low, high) == AmountOfInvoices({i \in dated : low < PastDue(i, asOf) /\ PastDue(i, asOf) <= high})
    IN  [current  |-> AmountOfInvoices((Collectable \ dated) \cup
                                       {i \in dated : PastDue(i, asOf) <= 0}),
         days30   |-> of(0, 30),
         days60   |-> of(30, 60),
         days90up |-> AmountOfInvoices({i \in dated : PastDue(i, asOf) > 60})]

\* trackBillDueStates, which is given invoices here
DueTracking(asOf) ==
    LET due == {i \in Collectable : i.due # NoDueDate}
    IN  [due |-> due, overdue |-> {i \in due : PastDue(i, asOf) > 0}]

\* buildArInflowProjection: what is expected of the open invoices when each
\* is paid with a probability in percent, which decays to a quarter in the
\* days it is overdue.
OutstandingAr == AmountOfInvoices(Collectable)
Decayed(i, asOf) ==              \* max(1/4, 1 - days overdue / 180), times 180
    IF i.due = NoDueDate THEN 180 ELSE Larger(45, 180 - Larger(0, PastDue(i, asOf)))
ProjectedInflow(asOf, percent) ==
    Total(LAMBDA i : (i.amount * percent * Decayed(i, asOf)) \div (100 * 180), Collectable)

-----------------------------------------------------------------------------
\* The reports, each with its own reading of the accounts, tell one story
\* about every journal: the cash of consecutive spans adds up, analytics and
\* dashboard and the financial statements agree with the cash-flow report, no
\* bucket of the time series drops, repeats or straddles a day, and the ageing
\* buckets of any day hold what can be collected, of which as much is overdue
\* as the due tracking says.  The tax of one span closes where the next opens,
\* a split of a span hides no taxed invoice that is missing from the ledger,
\* and the tax summary throws exactly when something other than the posted
\* documents moved the account.  The projected inflow has all that is not yet
\* due, no more than is outstanding, and no day makes it rise
\* (CashflowService.generate, AnalyticsService, TaxService, DashboardService).
ReportsAgree ==
    LET first == Min(DaysPosted) last == Max(DaysPosted)
        whole == CashflowReport(first, last)
        net   == whole.inflows - whole.outflows
    IN  /\ journal # {} =>
             /\ \A d \in first..last - 1 :
                  LET a == CashflowReport(first, d) b == CashflowReport(d + 1, last)
                  IN  \A f \in DOMAIN whole : whole[f] = a[f] + b[f]
             /\ whole.apOutflow + whole.expense = whole.outflows
             /\ whole.arInflow <= whole.inflows
             /\ AnalyticsCashflow = [inflow |-> whole.inflows, outflow |-> whole.outflows]
             /\ CurrentCash = net /\ Total(LAMBDA p : p.net, CashTrend) = net
             /\ BillOutflows = whole.apOutflow
             /\ TaxSummary.net = Balance(journal, {"sales_tax_payable"})
             /\ LET periods == {e.period : e \in journal}
                    s == Slice(journal, Min(periods), Max(periods))
                IN  FiscalYearStart(Min(periods)) = FiscalYearStart(Max(periods)) =>
                      s.inflows = whole.inflows /\ s.closingCash = net
             /\ \A d \in first..last - 1 :
                  LET a == TaxPayable(first, d) b == TaxPayable(d + 1, last)
                  IN  /\ a.opening = 0 /\ a.closing = b.opening
                      /\ b.closing = Balance(journal, {"sales_tax_payable"})
                      /\ MissingTaxRecords(first, last)
                           \subseteq MissingTaxRecords(first, d) \cup MissingTaxRecords(d + 1, last)
             /\ \A bucket \in {"daily", "weekly", "monthly"} :
                  LET points == TimeSeries(bucket)
                  IN  /\ Total(LAMBDA p : p.cashflow, points) = net
                      /\ Total(LAMBDA p : p.revenue, points) = Balance(journal, OfType({"revenue"}))
                      /\ Total(LAMBDA p : p.expense, points) = Balance(journal, OfType({"expense"}))
                      /\ \A d \in DaysPosted : \E p \in points : p.window[1] <= d /\ d <= p.window[2]
                      /\ \A p, q \in points : p # q =>
                           p.window[2] < q.window[1] \/ q.window[2] < p.window[1]
        /\ LET documents == {t \in TaxDocument : \E e \in journal : e.id = t.entry}
               others    == {e \in journal : \A t \in documents : e.id # t.entry}
           IN  SummaryMatches(documents) <=> Balance(others, {"sales_tax_payable"}) = 0
        /\ \A asOf \in {i.due : i \in OpenInvoice} \ {NoDueDate} :
             LET b == AgingBuckets(asOf)
             IN  /\ b.current + b.days30 + b.days60 + b.days90up = OutstandingAr
                 /\ b.days30 + b.days60 + b.days90up = AmountOfInvoices(DueTracking(asOf).overdue)
                 /\ b.current <= ProjectedInflow(asOf, 100) /\ ProjectedInflow(asOf, 100) <= OutstandingAr
                 /\ \A percent \in {0, 50, 100} :
                      ProjectedInflow(asOf + 30, percent) <= ProjectedInflow(asOf, percent)
=============================================================================
