--------------------------- MODULE Subscriptions ---------------------------
(***************************************************************************)
(* SubscriptionsService, its repository and the daily job that turns due   *)
(* subscriptions into invoices.                                            *)
(*                                                                         *)
(* The job is synchronous but InvoicesService.createInvoice is not: the    *)
(* job starts an invoice, counts it and moves next_billing_date on, and    *)
(* nobody awaits the promise.  Dates are days counted from a first day,    *)
(* with months of given lengths; an instant is a day at midnight or later, *)
(* because a date is compared with the job's time as its midnight (UTC,    *)
(* the process's time zone).  Yearly billing, twelve months on, is left    *)
(* out.                                                                    *)
(***************************************************************************)
EXTENDS Integers, Sequences, FiniteSets, FiniteSetsExt

CONSTANTS
    Subscription,
    MonthLength,   \* sequence of the lengths of the months, in days
    BillingDay,    \* days a subscription may start, end or be billed
    LastDay,       \* bound on the clock
    MaxPatches,    \* bound on the patches of a subscription's schedule
    NoDate

\* The first day of each month, and of the one after the last.
firstOf[m \in 1 .. Len(MonthLength) + 1] ==
    IF m = 1 THEN 0 ELSE firstOf[m - 1] + MonthLength[m - 1]

\* There are months for a quarter beyond the clock and the one after it, and
\* none is so short that a day it does not have runs over two months.
ASSUME SubscriptionsAssumption ==
    /\ MonthLength \in Seq(Nat \ {0}) /\ Len(MonthLength) > 4
    /\ \A m, n \in DOMAIN MonthLength : MonthLength[m] < 2 * MonthLength[n]
    /\ BillingDay \subseteq Nat /\ LastDay \in Nat /\ NoDate \notin Nat
    /\ MaxPatches \in Nat \ {0}
    /\ LastDay < firstOf[Len(MonthLength) - 3]

VARIABLES
    subscriptions,  \* [Subscription -> record, status "absent" before creation]
    today,          \* the day
    billed,         \* [Subscription -> Seq(Nat)]: issue dates of the invoices asked for
    pending,        \* invoices whose creation has not settled: [of, date, lineTax]
    invoiced,       \* the invoices there are: [of, date]
    patched         \* [Subscription -> how often its next date or frequency was set by hand]

subscriptionVars == <<subscriptions, today, billed, pending, invoiced, patched>>

SubscriptionStatus == {"absent", "draft", "active", "paused", "canceled", "expired"}
Frequency == {"monthly", "quarterly"}
OptionalDate == Nat \cup {NoDate}

SubscriptionsTypeOK ==
    /\ \A s \in Subscription :
         /\ subscriptions[s].status \in SubscriptionStatus
         /\ subscriptions[s].frequency \in Frequency
         /\ {subscriptions[s].end, subscriptions[s].next} \subseteq OptionalDate
         /\ billed[s] \in Seq(Nat)
    /\ \A i \in pending \cup invoiced : i.of \in Subscription /\ i.date \in Nat
    /\ today \in 0 .. LastDay /\ patched \in [Subscription -> 0 .. MaxPatches]

SubscriptionsInit ==
    /\ subscriptions = [s \in Subscription |->
         [status |-> "absent", start |-> 0, end |-> NoDate, next |-> NoDate,
          frequency |-> "monthly"]]
    /\ today = 0
    /\ billed = [s \in Subscription |-> <<>>]
    /\ pending = {} /\ invoiced = {}
    /\ patched = [s \in Subscription |-> 0]

-----------------------------------------------------------------------------
(* Dates. *)
MonthNumber(date) ==
    LET begun == {m \in DOMAIN MonthLength : firstOf[m] <= date}
    IN  CHOOSE m \in begun : \A k \in begun : k <= m
DayInMonth(date) == date - firstOf[MonthNumber(date)]

\* advanceDate: setMonth keeps the day of the month, and the days a shorter
\* month does not have run over into the next.  "custom" is monthly.
AdvanceDate(date, frequency) ==
    LET months == IF frequency = "quarterly" THEN 3 ELSE 1
    IN  firstOf[MonthNumber(date) + months] + DayInMonth(date)

-----------------------------------------------------------------------------
\* The next date may come with the request; by default it is the start.
CreateSubscription(s, status, start, end, next, frequency) ==
    /\ subscriptions[s].status = "absent"
    /\ subscriptions' = [subscriptions EXCEPT ![s] =
         [status |-> status, start |-> start, end |-> end, next |-> next,
          frequency |-> frequency]]
    /\ patched' = [patched EXCEPT ![s] = IF next = start THEN 0 ELSE 1]
    /\ UNCHANGED <<today, billed, pending, invoiced>>

\* updateSubscription: the status is not among the fields that may be patched.
UpdateSubscription(s, end, next, frequency) ==
    /\ subscriptions[s].status \notin {"absent", "canceled", "expired"}
    /\ subscriptions' = [subscriptions EXCEPT ![s] =
         [@ EXCEPT !.end = end, !.next = next, !.frequency = frequency]]
    /\ LET rescheduled == <<next, frequency>> # <<subscriptions[s].next, subscriptions[s].frequency>>
       IN  /\ rescheduled => patched[s] < MaxPatches
           /\ patched' = [patched EXCEPT ![s] = IF rescheduled THEN @ + 1 ELSE @]
    /\ UNCHANGED <<today, billed, pending, invoiced>>

CancelSubscription(s) ==
    /\ subscriptions[s].status \notin {"absent", "canceled"}
    /\ LET end == IF subscriptions[s].end = NoDate THEN today ELSE subscriptions[s].end
       IN  subscriptions' = [subscriptions EXCEPT ![s] = [@ EXCEPT !.status = "canceled", !.end = end]]
    /\ UNCHANGED <<today, billed, pending, invoiced, patched>>

NextDay ==
    /\ today < LastDay
    /\ today' = today + 1
    /\ UNCHANGED <<subscriptions, billed, pending, invoiced, patched>>

\* listDue.  afternoon: the job's time is later than today's midnight, which
\* is what an end date stands for.  A subscription whose end has passed is not
\* listed, even if dates before its end are still to be billed.
IsDue(s, afternoon) ==
    LET r == subscriptions[s]
    IN  /\ r.status = "active"
        /\ r.next # NoDate /\ r.next <= today /\ r.start <= today
        /\ r.end # NoDate => r.end > today \/ (r.end = today /\ ~afternoon)

\* The dates the while loop of processDueSubscriptions bills, and the date
\* it leaves as the next one.
DatesDue(r) ==
    LET from[d \in 0 .. LastDay] ==
          IF d > today \/ (r.end # NoDate /\ d > r.end) THEN <<>>
          ELSE LET then == AdvanceDate(d, r.frequency)
               IN  <<d>> \o (IF then > LastDay THEN <<>> ELSE from[then])
    IN  from[r.next]

NextDate_fault(r) == AdvanceDate(r.next, r.frequency)   \* mutant: one period only
NextDate(r) ==
    LET dates == DatesDue(r)
    IN  IF dates = <<>> THEN r.next ELSE AdvanceDate(dates[Len(dates)], r.frequency)

\* runDailyJob, processDueSubscriptions: all that are due, in one go.
RunDailyJob(afternoon) ==
    LET due == {s \in Subscription : IsDue(s, afternoon)}
        dates(s) == IF s \in due THEN DatesDue(subscriptions[s]) ELSE <<>>
    IN  /\ due # {}
        /\ billed' = [s \in Subscription |-> billed[s] \o dates(s)]
        /\ subscriptions' = [s \in Subscription |->
             IF s \in due THEN [subscriptions[s] EXCEPT !.next = NextDate(subscriptions[s])]
             ELSE subscriptions[s]]
        /\ pending' = pending \cup UNION {{[of |-> s, date |-> dates(s)[k], lineTax |-> 0] :
                                             k \in DOMAIN dates(s)} : s \in due}
        /\ UNCHANGED <<today, invoiced, patched>>

\* createInvoice adds the line, and addLine refuses a line that brings its own
\* tax.  The line of the job always does: pricing_terms.tax_minor, or zero.
LineAccepted(line) == line.lineTax = NoDate

SettleInvoice(i) ==
    /\ i \in pending
    /\ pending' = pending \ {i}
    /\ invoiced' = IF LineAccepted(i) THEN invoiced \cup {[of |-> i.of, date |-> i.date]}
                   ELSE invoiced
    /\ UNCHANGED <<subscriptions, today, billed, patched>>

SubscriptionsNext ==
    \/ \E s \in Subscription :
         \/ \E status \in SubscriptionStatus \ {"absent"}, start, next \in BillingDay,
               end \in BillingDay \cup {NoDate}, f \in Frequency :
              CreateSubscription(s, status, start, end, next, f)
         \/ \E end \in BillingDay \cup {NoDate}, f \in Frequency,
               next \in BillingDay \cup {NoDate, subscriptions[s].next} :
              UpdateSubscription(s, end, next, f)
         \/ CancelSubscription(s)
    \/ NextDay
    \/ \E afternoon \in BOOLEAN : RunDailyJob(afternoon)
    \/ \E i \in pending : SettleInvoice(i)

-----------------------------------------------------------------------------
(* Properties. *)
MonthsOf(frequency) == IF frequency = "quarterly" THEN 3 ELSE 1

\* Date e is so many months after d: on the same day or, if that month does
\* not have it, as many days into the next one as it lacks.
MonthsApart(months, d, e) ==
    LET m == MonthNumber(d) + months
    IN  IF DayInMonth(d) < MonthLength[m]
        THEN MonthNumber(e) = m /\ DayInMonth(e) = DayInMonth(d)
        ELSE MonthNumber(e) = m + 1 /\ DayInMonth(e) = DayInMonth(d) - MonthLength[m]

\* However often or seldom the job runs, however many periods one run has to
\* catch up with, and whatever becomes of the subscription in between, an
\* invoice is asked for on each date of its schedule and on no other, up to the
\* next one: from the start, period by period, never twice and never before the
\* day has come, as long as nobody sets the schedule by hand.  The schedule is
\* that of setMonth: a start on a day some month does not have (the 29th to
\* the 31st) passes that month over, and every later date falls on
\* the day it ran over to (SubscriptionsService.advanceDate,
\* processDueSubscriptions).
EachPeriodBilledOnce ==
    \A s \in {s \in Subscription : patched[s] = 0 /\ subscriptions[s].status # "absent"} :
        LET r == subscriptions[s]
            dates == Append(billed[s], r.next)
        IN  /\ dates[1] = r.start
            /\ \A k \in 1 .. Len(dates) - 1 :
                 /\ dates[k] < dates[k + 1] /\ dates[k] <= today
                 /\ MonthsApart(MonthsOf(r.frequency), dates[k], dates[k + 1])

\* Whatever was set by hand before: only a subscription that is active, so not
\* one that was canceled, is billed, never for a date after its end, and a
\* run that bills it leaves no date of its term due (listDue,
\* processDueSubscriptions).  Both listDue and the loop look at the end, and
\* either would do: what listDue lists ends after every date that is due.  A run that comes after the end does not list it,
\* so dates of the term that are due by then are never billed.
JobBillsTheTerm ==
    \A s \in Subscription : billed'[s] # billed[s] =>
        LET r    == subscriptions[s]
            next == subscriptions'[s].next
        IN  /\ r.status = "active"
            /\ r.end # NoDate =>
                 \A k \in Len(billed[s]) + 1 .. Len(billed'[s]) : billed'[s][k] <= r.end
            /\ next > today \/ (r.end # NoDate /\ next > r.end)

\* What the domain model says of a subscription: it generates recurring
\* invoices according to its schedule, so that once nothing is under way every
\* date the job has billed has its invoice (SubscriptionsService.processDueSubscriptions).
SubscriptionsAreInvoiced ==
    pending = {} =>
        \A s \in Subscription : \A k \in DOMAIN billed[s] :
            [of |-> s, date |-> billed[s][k]] \in invoiced
=============================================================================
