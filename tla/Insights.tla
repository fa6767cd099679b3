------------------------------ MODULE Insights ------------------------------
(***************************************************************************)
(* The assistive figures of AnalyticsService as operators on integers: the *)
(* anomalies of a series of days, the delays it predicts for open invoices *)
(* from the history of their customer, and what the copilot suggests.      *)
(*                                                                         *)
(* Medians and deviations are doubled where halves occur, and fractions    *)
(* are compared after multiplying out, so that nothing is rounded but what *)
(* the code rounds.                                                        *)
(***************************************************************************)
EXTENDS Amounts, Integers, Sequences, SequencesExt, FiniteSets, FiniteSetsExt

CONSTANTS
    OutflowSeries,    \* series of outflows, day by day
    LateDays,         \* days a closed invoice was late
    MaxHistory        \* bound: closed invoices of one customer

ASSUME InsightsAssumption == LateDays \subseteq Nat \ {0} /\ MaxHistory \in Nat

LOCAL Apart(a, b) == Larger(a - b, b - a)

-----------------------------------------------------------------------------
(* getAnomalies *)

\* computeMedian, doubled
Median2(values) ==
    LET sorted == SortSeq(values, <)
        n      == Len(values)
    IN  IF n = 0 THEN 0
        ELSE IF n % 2 = 0 THEN sorted[n \div 2] + sorted[n \div 2 + 1]
        ELSE 2 * sorted[n \div 2 + 1]

\* computeRobustStats: the median and the median deviation, doubled and
\* four times over.
RobustStats(values) ==
    LET median2 == Median2(values)
    IN  [median2 |-> median2,
         mad4    |-> Median2([k \in DOMAIN values |-> Apart(2 * values[k], median2)])]

\* computeRobustScore at least z tenths.  Without deviation the score has no
\* sign and is relative to the median, or to 1.
ScoreAtLeast(value, stats, z) ==
    IF stats.mad4 = 0
    THEN 6745 * Apart(2 * value, stats.median2) >= 1000 * z * Larger(stats.median2, 2)
    ELSE 6745 * 2 * (2 * value - stats.median2) >= 1000 * z * stats.mad4

\* computeThreshold, for z tenths
OutlierThreshold(stats, z) ==
    (6745 * 2 * stats.median2 + 1000 * z * stats.mad4 + 6745 * 2) \div (4 * 6745)

MinSamples == 6
MinimumAbsolute == 1000

\* The days with an unusual expense.
UnusualExpenses(outflows) ==
    LET stats == RobustStats(outflows)
    IN  {d \in DOMAIN outflows :
           /\ Len(outflows) >= MinSamples
           /\ outflows[d] >= MinimumAbsolute /\ ScoreAtLeast(outflows[d], stats, 32)}

-----------------------------------------------------------------------------
(* getCollectionsPrediction: a customer's closed invoices are so many paid *)
(* in time and a sequence of late ones.                                    *)
History == [onTime : 0 .. MaxHistory, late : BoundedSeq(LateDays, MaxHistory)]

\* The probability of a delay in ten thousandths, of an invoice overdue so
\* many days.  Its score is 0.2, plus half the share of late invoices (a
\* quarter for an unknown customer), plus 0.15 each for thirty days that the
\* customer is late on average and that the invoice is overdue.
DelayProbability(history, overdue) ==
    LET count == Len(history.late)
        all   == history.onTime + count
        days  == FoldLeft(+, 0, history.late)
        ratio == IF all = 0 THEN <<1, 4>> ELSE <<count, all>>
        mean  == IF count = 0 THEN <<0, 1>> ELSE <<Smaller(30 * count, days), 30 * count>>
        \* every share over the product of the two denominators
        den   == ratio[2] * mean[2]
        num   == 2000 * den + 5000 * ratio[1] * mean[2] + 1500 * mean[1] * ratio[2]
                   + 50 * Smaller(30, overdue) * den
    IN  Larger(100, Smaller(9900, (2 * num + den) \div (2 * den)))

\* The reasons given for it.
Drivers(history, overdue) ==
    LET count == Len(history.late)
        all   == history.onTime + count
    IN  {r \in {"late_payments", "days_late", "overdue"} :
           CASE r = "late_payments" -> IF all = 0 THEN FALSE ELSE 10 * count >= 4 * all
             [] r = "days_late"     -> count > 0 /\ FoldLeft(+, 0, history.late) >= 7 * count
             [] OTHER               -> overdue > 0}

\* getCopilotSuggestions: whether the invoice, among the first two of the
\* predictions, is suggested for a follow-up, and how urgently.
FollowUpSuggested(history, overdue) == DelayProbability(history, overdue) >= 5000
FollowUpUrgent(history, overdue) == DelayProbability(history, overdue) >= 7500

-----------------------------------------------------------------------------
\* What the copilot shows has a reason a reader can check: an unusual expense
\* is above the threshold shown with it, which fewer than half of the days
\* reach; a follow-up is only suggested about a customer who has paid late
\* before, and a reason is given with it; and a day longer overdue never makes
\* a delay less probable, nor one more invoice paid in time more
\* (AnalyticsService.getAnomalies, getCollectionsPrediction,
\* getCopilotSuggestions).
InsightsAreGrounded ==
    /\ \A o \in OutflowSeries :
         LET stats == RobustStats(o)
         IN  /\ \A d \in UnusualExpenses(o) :
                  o[d] >= OutlierThreshold(stats, 32) /\ 2 * o[d] > stats.median2
             /\ 2 * Cardinality(UnusualExpenses(o)) < Len(o)
    /\ \A h \in History, overdue \in {0, 1, 29, 30, 31} :
         /\ FollowUpSuggested(h, overdue) => h.late # <<>> /\ Drivers(h, overdue) # {}
         /\ FollowUpUrgent(h, overdue) => "late_payments" \in Drivers(h, overdue)
         /\ DelayProbability(h, overdue) <= DelayProbability(h, overdue + 1)
         /\ DelayProbability([h EXCEPT !.onTime = @ + 1], overdue) <= DelayProbability(h, overdue)
=============================================================================
