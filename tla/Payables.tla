----------------------------- MODULE Payables -----------------------------
(***************************************************************************)
(* ApService with its repository and event handlers: the payable position  *)
(* of each bill, projected from the bill's events, and the views computed  *)
(* from the positions, beside the ledger that posts the same events.       *)
(*                                                                         *)
(* No service of the backend publishes a bill event; they come from the    *)
(* outside through the event log, in any order and any number of times.    *)
(* The contents of the events are therefore a parameter.  The position has *)
(* no date but its due date, and subledger.payable.updated, which nothing  *)
(* consumes, is left out.  So is applyPayableUpdated, which only tests     *)
(* call.                                                                   *)
(***************************************************************************)
EXTENDS Statements

CONSTANTS
    BillEvent,    \* ids of the bill events
    BillContent,  \* [BillEvent -> [type, bill, vendor, amount, tax, due, period]]
    Bill,
    Vendor,
    None          \* no vendor, no due date, no position

Position == [vendor : Vendor, total : Nat, open : Nat, paid : Nat,
             due : Nat \cup {None}, status : {"open", "closed"}]

ASSUME PayablesAssumption ==
    /\ None \notin Vendor /\ None \notin Position
    /\ \A e \in BillEvent :
         /\ BillContent[e].type \in {"bill.created", "bill.approved", "bill.paid"}
         /\ BillContent[e].bill \in Bill /\ BillContent[e].vendor \in Vendor \cup {None}
         /\ BillContent[e].amount \in Nat /\ BillContent[e].tax \in Nat
         /\ BillContent[e].due \in Nat \cup {None} /\ BillContent[e].period \in Nat
    /\ IsFiniteSet(Vendor)

VARIABLES
    positions,  \* [Bill -> Position or None]
    applied,    \* appliedEventKeys: the events marked as applied
    posted,     \* the events the ledger has posted
    early       \* history: payments applied when the bill had no position

apVars == <<positions, applied, posted, early>>

APTypeOK ==
    /\ positions \in [Bill -> Position \cup {None}]
    /\ applied \subseteq BillEvent /\ posted \subseteq BillEvent /\ early \subseteq applied

APInit ==
    /\ positions = [b \in Bill |-> None]
    /\ applied = {} /\ posted = {} /\ early = {}

Known(b) == positions[b] # None

-----------------------------------------------------------------------------
\* markEventApplied: whether the event is new.
IsNew_fault(e) == TRUE          \* mutant: a redelivered event counts again
IsNew(e) == e \notin applied

\* applyBillApprovedFromEvent, for the approved and for the created event.
Approved(e) ==
    LET b     == BillContent[e].bill
        total == BillContent[e].amount
        base  == IF Known(b) THEN positions[b].open ELSE total
        open  == Larger(0, Smaller(total, base))
    IN  [vendor |-> BillContent[e].vendor, total |-> total, open |-> open,
         paid |-> total - open, due |-> BillContent[e].due,
         status |-> IF base <= 0 THEN "closed" ELSE "open"]

ApplyBillApproved(e) ==
    /\ BillContent[e].type \in {"bill.created", "bill.approved"}
    /\ BillContent[e].vendor # None
    /\ IsNew(e)
    /\ positions' = [positions EXCEPT ![BillContent[e].bill] = Approved(e)]
    /\ applied' = applied \cup {e}
    /\ UNCHANGED <<posted, early>>

\* applyBillPaidFromEvent: marked first, so a payment of a bill that has no
\* position yet is spent without any effect.
Paid(position, amount) ==
    LET open == Larger(0, Smaller(position.total, position.open - amount))
    IN  [position EXCEPT !.open = open,
                         !.paid = Larger(0, position.total - open),
                         !.status = IF open = 0 THEN "closed" ELSE "open"]

ApplyBillPaid(e) ==
    LET b == BillContent[e].bill
    IN  /\ BillContent[e].type = "bill.paid"
        /\ IsNew(e)
        /\ applied' = applied \cup {e}
        /\ \/ /\ Known(b)
              /\ positions' = [positions EXCEPT ![b] = Paid(positions[b], BillContent[e].amount)]
              /\ UNCHANGED <<posted, early>>
           \/ /\ ~Known(b)
              /\ early' = early \cup {e}
              /\ UNCHANGED <<positions, posted>>

\* LedgerService.postEvent, which never posts an approval.
BillEntry(e) == [id |-> e, period |-> BillContent[e].period,
             lines |-> EventLines(BillContent[e].type, BillContent[e].amount, BillContent[e].tax)]

PostBillEvent(e) ==
    /\ Buildable(BillContent[e].type, BillContent[e].amount, BillContent[e].tax)
    /\ ValidLines(BillEntry(e).lines)
    /\ e \notin posted
    /\ posted' = posted \cup {e}
    /\ UNCHANGED <<positions, applied, early>>

APNext == \E e \in BillEvent : ApplyBillApproved(e) \/ ApplyBillPaid(e) \/ PostBillEvent(e)

-----------------------------------------------------------------------------
(* The views. *)
BillsOf(v) == {b \in Bill : Known(b) /\ positions[b].vendor = v}
TotalOpen(bills) == SumFunction([b \in bills |-> positions[b].open])

\* getVendorPayableState
VendorPayableState(v) ==
    [open |-> TotalOpen(BillsOf(v)),
     paid |-> SumFunction([b \in BillsOf(v) |-> positions[b].paid]),
     countOpen |-> Cardinality({b \in BillsOf(v) : positions[b].status = "open"})]

\* getVendorDueTrackingState: what is open by whether it is due.
VendorDueTracking(v, asOf) ==
    LET bills   == {b \in BillsOf(v) : positions[b].status = "open" /\ positions[b].open > 0}
        unknown == {b \in bills : positions[b].due = None}
        overdue == {b \in bills \ unknown : positions[b].due < asOf}
        due     == bills \ (unknown \cup overdue)
    IN  [overdue |-> TotalOpen(overdue), due |-> TotalOpen(due), unknown |-> TotalOpen(unknown),
         count |-> Cardinality(overdue) + Cardinality(due) + Cardinality(unknown)]

\* reconcileOpenPayablesToLedger, for some bills and the entries of their events.
OpenBills == {b \in Bill : Known(b) /\ positions[b].status = "open"}
EntriesOf(bills) == {BillEntry(e) : e \in {e \in posted : BillContent[e].bill \in bills}}
Variance(bills) ==
    TotalOpen(OpenBills \cap bills) - Balance(EntriesOf(bills), {"accounts_payable"})

\* buildBillObligations with simulated bills, a set of [bill, amount].
Obligations(simulated) ==
    LET used == {s \in simulated : s.amount > 0}
        kept == {b \in OpenBills : positions[b].open > 0 /\ \A s \in used : s.bill # b}
    IN  TotalOpen(kept) + SumFunction([s \in used |-> s.amount])

\* buildLedgerExpenses: the entries that cost something up to a date.
Expenses(asOf) ==
    LET dated == {x \in EntriesOf(Bill) : x.period <= asOf}
    IN  SumFunction([x \in dated |-> Larger(0, LineBalance(x.lines, OfType({"expense"})))])

\* buildOutflowProjection
OutflowProjection(asOf, simulated) == Obligations(simulated) + Expenses(asOf)

-----------------------------------------------------------------------------
(* Properties. *)
PaymentsOf(b) == {e \in BillEvent : BillContent[e].type = "bill.paid" /\ BillContent[e].bill = b}
ApprovalsOf(b) == {e \in BillEvent : BillContent[e].type # "bill.paid" /\ BillContent[e].bill = b}
AmountOf(events) == SumFunction([e \in events |-> BillContent[e].amount])
OneTotal(b) == \A d, e \in ApprovalsOf(b) \cap applied : BillContent[d].amount = BillContent[e].amount

\* However the events of a bill are repeated and interleaved, what is open is
\* the total less the payments that came after the bill: created and approved
\* together count once, an overpayment stops at zero, and the status says
\* whether anything is open.  Only a change of the total breaks this
\* (ApService.applyBillApprovedFromEvent, applyBillPaidFromEvent).
OpenIsTotalLessPayments ==
    \A b \in Bill : (Known(b) /\ OneTotal(b)) =>
        LET p == positions[b]
        IN  /\ p.open = Larger(0, p.total - AmountOf((PaymentsOf(b) \cap applied) \ early))
            /\ p.paid = p.total - p.open
            /\ p.status = "closed" <=> p.open = 0

\* A bill both consumers have finished with, and that gives neither a reason
\* to disagree: one created event, no payment ahead of the bill, none too much.
Regular(b) ==
    /\ Known(b) /\ OneTotal(b)
    /\ Cardinality(ApprovalsOf(b) \cap posted) = 1
    /\ PaymentsOf(b) \cap early = {}
    /\ PaymentsOf(b) \cap applied = PaymentsOf(b) \cap posted
    /\ AmountOf(PaymentsOf(b) \cap posted) <= positions[b].total
    /\ \A e \in ApprovalsOf(b) \cap posted : BillContent[e].amount = positions[b].total

\* The open payables of such bills are the balance of the ledger's control
\* account, with no variance, whatever is still under way for other bills
\* (ApService.reconcileOpenPayablesToLedger).
ControlAccountAgrees == Variance({b \in Bill : Regular(b)}) = 0

\* The views tell one story: the vendors' totals, the due buckets of any day
\* and the outflow projection all add up to what is open, a simulated bill
\* replaces the real one of its id, and what is overdue stays overdue as days
\* pass.
ViewsAgree ==
    LET days == {BillContent[e].period : e \in BillEvent}
        open == TotalOpen({b \in Bill : Known(b)})
    IN  /\ open = SumFunction([v \in Vendor |-> VendorPayableState(v).open])
        /\ \A d \in days :
             OutflowProjection(d, {}) =
               open + Balance({x \in EntriesOf(Bill) : x.period <= d}, OfType({"expense"}))
        /\ \A b \in Bill :
             Obligations({[bill |-> b, amount |-> 1]}) =
               open + 1 - (IF Known(b) THEN positions[b].open ELSE 0)
        /\ \A v \in Vendor, d \in days :
             LET t == VendorDueTracking(v, d)
             IN  /\ t.overdue + t.due + t.unknown = VendorPayableState(v).open
                 /\ t.count <= VendorPayableState(v).countOpen
                 /\ \A later \in days :
                      d <= later => t.overdue <= VendorDueTracking(v, later).overdue
=============================================================================
