------------------------------ MODULE Billing ------------------------------
(***************************************************************************)
(* Invoices, payments, allocations and the two projections that follow     *)
(* them: InvoicesService, PaymentsService, FinancialStateValidator,        *)
(* InvoicePaymentEventsHandler and ArService with their repositories.      *)
(*                                                                         *)
(* A service call runs inside FinancialTransactionManager.wrapper.  The    *)
(* module TransactionManager shows that such a call takes effect entirely  *)
(* or not at all, so here a call that throws is no step, and a call that   *)
(* commits is one step followed, with the lock still held, by its          *)
(* after-commit callbacks.  An event is handled by each consumer once, in  *)
(* any order, and tried again when a handler throws (module EventQueue).   *)
(* One tenant, customer, currency and allocation date; every command       *)
(* carries an idempotency key of its own.                                  *)
(***************************************************************************)
EXTENDS Integers, Sequences, FiniteSets, FiniteSetsExt, SequencesExt

CONSTANTS
    Invoice,    \* invoice ids the repository may hand out
    Payment,    \* payment ids the repository may hand out
    Price,      \* what a line may add to an invoice, tax included
    Discount,   \* values of discount_minor
    Received,   \* values of amount_received_minor
    Amount,     \* values of allocated_minor
    MaxLines,   \* bound: lines of an invoice
    MaxItems,   \* bound: items of one allocation request
    MaxEvents   \* bound: events in the log

ASSUME AmountsAreMinorUnits ==
    /\ Price \subseteq Nat /\ Discount \subseteq Nat
    /\ Received \subseteq Nat /\ Amount \subseteq Nat \ {0}
    /\ {MaxLines, MaxItems, MaxEvents} \subseteq Nat

VARIABLES
    invoices,     \* InvoicesRepository.invoices, with each invoice's lines
    payments,     \* PaymentsRepository.payments
    allocations,  \* PaymentsRepository.allocations
    log,          \* EventsRepository.events, the types the consumers below read
    afterCommit,  \* callbacks of the committed call that have not run
    reconciled,   \* events invoice-payment-state-projection has handled
    positions,    \* ArRepository.positions
    projected,    \* events the ar-receivable projections have handled
    inOrder,      \* auxiliary: AR has handled every event in log order
    overAllocated \* auxiliary: some invoice was over-allocated at some time

books == <<invoices, payments, allocations>>
receivables == <<positions, projected, inOrder>>
vars == <<books, log, afterCommit, reconciled, receivables, overAllocated>>

Smaller(a, b) == IF a < b THEN a ELSE b
Larger(a, b) == IF a < b THEN b ELSE a

NoInvoice == [status |-> "absent", lines |-> <<>>, discount |-> 0,
              total |-> 0, paid |-> 0, due |-> 0]
NoPayment == [status |-> "absent", received |-> 0, allocated |-> 0, unallocated |-> 0]
NoPosition == [status |-> "absent", total |-> 0, open |-> 0]

Allocation == [payment : Payment, invoice : Invoice, amount : Amount]
Item == [invoice : Invoice, amount : Amount]

SumOf(set) == SumFunction([a \in set |-> a.amount])
AllocatedOf(allocs, p) == SumOf({a \in allocs : a.payment = p})
AllocatedTo(allocs, i) == SumOf({a \in allocs : a.invoice = i})

Init ==
    /\ invoices = [i \in Invoice |-> NoInvoice]
    /\ payments = [p \in Payment |-> NoPayment]
    /\ allocations = {}
    /\ log = <<>>
    /\ afterCommit = <<>>
    /\ reconciled = {}
    /\ positions = [i \in Invoice |-> NoPosition]
    /\ projected = {}
    /\ inOrder = TRUE
    /\ overAllocated = FALSE

(***************************************************************************)
(* FinancialStateValidator: what the last participant of every call checks *)
(* before it commits.  Invoice calls leave out the payments.               *)
(***************************************************************************)
InvoicesValid(invs) ==
    \A i \in Invoice :
        LET inv == invs[i] IN
        /\ inv.total >= 0 /\ inv.paid >= 0 /\ inv.due >= 0
        /\ inv.paid <= inv.total
        /\ inv.due = inv.total - inv.paid

PaymentsValid(pays, allocs) ==
    \A p \in Payment :
        LET pay == pays[p] IN
        /\ pay.allocated >= 0 /\ pay.unallocated >= 0
        /\ pay.allocated = AllocatedOf(allocs, p)
        /\ pay.received = pay.allocated + pay.unallocated

LockIsFree == afterCommit = <<>>

\* An invoice call: it writes invoices and logs the given events inside.
InvoiceCall(i, inv, events) ==
    /\ LockIsFree
    /\ Len(log) + Len(events) <= MaxEvents
    /\ invoices' = [invoices EXCEPT ![i] = inv]
    /\ InvoicesValid(invoices')
    /\ log' = log \o events
    /\ UNCHANGED <<payments, allocations, afterCommit, reconciled, receivables, overAllocated>>

\* A payment call: events are logged inside, later ones by a callback.
PaymentCall(pays, allocs, events, later) ==
    /\ LockIsFree
    /\ Len(log) + Len(events) + Len(later) <= MaxEvents
    /\ payments' = pays
    /\ allocations' = allocs
    /\ PaymentsValid(pays, allocs)
    /\ InvoicesValid(invoices)
    /\ log' = log \o events
    /\ afterCommit' = later
    /\ overAllocated' = (overAllocated \/ \E i \in Invoice : AllocatedTo(allocs, i) > invoices[i].total)
    /\ UNCHANGED <<invoices, reconciled, receivables>>

(***************************************************************************)
(* InvoicesService                                                         *)
(***************************************************************************)
\* recalculateTotals: the totals that follow from the lines and the discount.
Recalculated(inv, lines, discount) ==
    LET total == Larger(0, SumFunction(lines) - discount)
    IN  [inv EXCEPT !.lines = lines, !.discount = discount,
                    !.total = total, !.due = Larger(0, total - inv.paid)]

CreateInvoice(i, lines, discount) ==
    /\ invoices[i].status = "absent"
    /\ InvoiceCall(i, Recalculated([NoInvoice EXCEPT !.status = "draft"], lines, discount), <<>>)

EditDraft(i, lines, discount) ==
    /\ invoices[i].status = "draft"
    /\ InvoiceCall(i, Recalculated(invoices[i], lines, discount), <<>>)

UpdateInvoice(i, discount) == EditDraft(i, invoices[i].lines, discount)

AddLine(i, price) ==
    /\ Len(invoices[i].lines) < MaxLines
    /\ EditDraft(i, Append(invoices[i].lines, price), invoices[i].discount)

RemoveLine(i, k) == EditDraft(i, RemoveAt(invoices[i].lines, k), invoices[i].discount)

\* INVOICE_LIFECYCLE_TRANSITIONS; partially_paid has no row, so that looking
\* it up throws for every other state.
Transitions ==
    [draft |-> {"issued", "void"}, issued |-> {"paid", "void"},
     paid |-> {"issued"}, partially_paid |-> {}, void |-> {}, absent |-> {}]

CanTransition(from, to) == from = to \/ to \in Transitions[from]

IssueInvoice(i) ==
    LET inv == invoices[i] IN
    /\ CanTransition(inv.status, "issued")
    /\ inv.lines # <<>>
    /\ InvoiceCall(i, [inv EXCEPT !.status = "issued", !.due = inv.total],
                   << [type |-> "issued", invoice |-> i, total |-> inv.total] >>)

VoidInvoice(i) ==
    LET inv == invoices[i] IN
    /\ CanTransition(inv.status, "void")
    /\ InvoiceCall(i, [inv EXCEPT !.status = "void", !.due = 0],
                   << [type |-> "voided", invoice |-> i] >>)

(***************************************************************************)
(* PaymentsService                                                         *)
(***************************************************************************)
Outstanding_fault(i) == invoices[i].due      \* mutant: trusts the projection

\* What may still be allocated to an invoice: from the allocations
\* themselves, not from the invoice's due amount, which lags behind.
Outstanding(i) == invoices[i].total - AllocatedTo(allocations, i)

TakesAllocations(i) == invoices[i].status \notin {"absent", "draft", "void"}

\* Each item is checked against the allocations before the request.
ItemsFit(pay, p, items) ==
    /\ items # <<>>
    /\ AllocatedOf(allocations, p) + SumFunction([n \in DOMAIN items |-> items[n].amount]) <= pay.received
    /\ \A n \in DOMAIN items : /\ TakesAllocations(items[n].invoice)
                               /\ items[n].amount <= Outstanding(items[n].invoice)

ToAllocation(p, item) == [payment |-> p, invoice |-> item.invoice, amount |-> item.amount]

\* createAllocation refuses a tuple it already has.
NoDuplicate(p, items) ==
    /\ IsInjective(items)
    /\ \A n \in DOMAIN items : ToAllocation(p, items[n]) \notin allocations

\* The allocations after the request, the payment with
\* refreshPaymentAllocationBalance applied, and the event of the callback.
AllocateItems(pay, p, items) ==
    LET new    == {ToAllocation(p, item) : item \in ToSet(items)}
        allocs == allocations \cup new
        sum    == AllocatedOf(allocs, p)
    IN  /\ ItemsFit(pay, p, items)
        /\ NoDuplicate(p, items)
        /\ PaymentCall([payments EXCEPT ![p] = [pay EXCEPT !.allocated = sum,
                                                          !.unallocated = pay.received - sum]],
                       allocs, <<>>, << [type |-> "allocated", changes |-> new] >>)

CreatePayment(p, received, items) ==
    LET pay == [status |-> "recorded", received |-> received,
                allocated |-> 0, unallocated |-> received]
    IN  /\ payments[p].status = "absent"
        /\ \/ /\ items = <<>>
              /\ PaymentCall([payments EXCEPT ![p] = pay], allocations, <<>>, <<>>)
           \/ AllocateItems(pay, p, items)

AllocatePayment(p, items) ==
    /\ payments[p].status = "recorded"
    /\ AllocateItems(payments[p], p, items)

VoidPayment_fault(p) ==           \* mutant: the event is built after the deletion
    LET pay     == payments[p]
        removed == {a \in allocations : a.payment = p}
    IN  /\ pay.status = "recorded"
        /\ PaymentCall([payments EXCEPT ![p] = [pay EXCEPT !.status = "void", !.allocated = 0,
                                                          !.unallocated = pay.received]],
                       allocations \ removed,
                       << [type |-> "refunded", changes |-> {}] >>, <<>>)

\* The removed allocations leave through the refunded event, logged inside.
VoidPayment(p) ==
    LET pay     == payments[p]
        removed == {a \in allocations : a.payment = p}
    IN  /\ pay.status = "recorded"
        /\ PaymentCall([payments EXCEPT ![p] = [pay EXCEPT !.status = "void", !.allocated = 0,
                                                          !.unallocated = pay.received]],
                       allocations \ removed,
                       << [type |-> "refunded", changes |-> removed] >>, <<>>)

\* The after-commit callback logs the allocated event; with the last callback
\* the lock is released.
LogAllocated ==
    /\ afterCommit # <<>>
    /\ log' = Append(log, Head(afterCommit))
    /\ afterCommit' = Tail(afterCommit)
    /\ UNCHANGED <<books, reconciled, receivables, overAllocated>>

(***************************************************************************)
(* invoice-payment-state-projection                                        *)
(***************************************************************************)
Moves(n) == log[n].type \in {"allocated", "refunded"}

\* What event n adds to invoice i: allocations count up, refunds down.
Delta(n, i) ==
    CASE log[n].type = "allocated" -> AllocatedTo(log[n].changes, i)
      [] log[n].type = "refunded"  -> 0 - AllocatedTo(log[n].changes, i)
      [] OTHER -> 0

\* calculateNetAllocatedMinor: over every event stored, handled or not.
NetAllocated(i) == SumFunction([n \in DOMAIN log |-> Delta(n, i)])

PaidOf_fault(i) == Larger(0, NetAllocated(i))      \* mutant: not clamped

PaidOf(i) == Smaller(Larger(0, NetAllocated(i)), invoices[i].total)

Reconciled(i) ==
    LET paid == PaidOf(i)
        due  == Larger(0, invoices[i].total - paid)
    IN  [invoices[i] EXCEPT !.paid = paid, !.due = due,
            !.status = IF due = 0 THEN "paid" ELSE IF paid > 0 THEN "partially_paid" ELSE "issued"]

\* The event an invoice is announced as paid with has no payment_id, and the
\* validator (the second of the two for billing.invoice.paid.v1, which is the
\* one JavaScript keeps) requires it: logEvent throws.
AnnouncingFails(i) == invoices[i].status # "paid" /\ Reconciled(i).status = "paid"

\* One attempt at handling event n.  It runs outside any transaction, so
\* neither lock nor validator is involved, and what it has written stays when
\* it throws: the invoices ahead of the first one it announces, in the order
\* of the changes, and that one.  The queue then tries again, or gives up.
ReconcilePaymentAllocations(n) ==
    LET touched  == {i \in {a.invoice : a \in log[n].changes} :
                       invoices[i].status \notin {"absent", "draft", "void"}}
        throwing == {i \in touched : AnnouncingFails(i)}
    IN  /\ Moves(n)
        /\ n \notin reconciled
        /\ \E written \in SUBSET touched :
             /\ \/ /\ throwing = {} /\ written = touched
                   /\ reconciled' = reconciled \cup {n}
                \/ /\ Cardinality(written \cap throwing) = 1
                   /\ UNCHANGED reconciled
             /\ invoices' = [i \in Invoice |->
                               IF i \in written THEN Reconciled(i) ELSE invoices[i]]
        /\ UNCHANGED <<payments, allocations, log, afterCommit, receivables, overAllocated>>

(***************************************************************************)
(* ar-receivable projections                                               *)
(***************************************************************************)
Project(n, pos) ==
    /\ n \notin projected
    /\ projected' = projected \cup {n}
    /\ inOrder' = (inOrder /\ 1 .. n - 1 \subseteq projected)
    /\ positions' = pos
    /\ UNCHANGED <<books, log, afterCommit, reconciled, overAllocated>>

ApplyInvoiceIssued_fault(n) ==    \* mutant: a second issue starts afresh
    /\ log[n].type = "issued"
    /\ LET e == log[n]
       IN  Project(n, [positions EXCEPT ![e.invoice] =
                         [total |-> e.total, open |-> e.total,
                          status |-> IF e.total <= 0 THEN "closed" ELSE "open"]])

\* A position that exists keeps what is open.
ApplyInvoiceIssued(n) ==
    /\ log[n].type = "issued"
    /\ LET e    == log[n]
           old  == positions[e.invoice]
           base == IF old.status = "absent" THEN e.total ELSE old.open
       IN  Project(n, [positions EXCEPT ![e.invoice] =
                         [total |-> e.total, open |-> Larger(0, Smaller(e.total, base)),
                          status |-> IF base <= 0 THEN "closed" ELSE "open"]])

ApplyPaymentAllocated_fault(n) ==     \* mutant: open amounts may go below zero
    /\ Moves(n)
    /\ LET touched == {a.invoice : a \in log[n].changes}
           open(i) == Smaller(positions[i].total, positions[i].open - Delta(n, i))
       IN  Project(n, [i \in Invoice |->
                         IF i \in touched /\ positions[i].status \notin {"absent", "void"}
                         THEN [positions[i] EXCEPT !.open = open(i),
                                   !.status = IF open(i) = 0 THEN "closed" ELSE "open"]
                         ELSE positions[i]])

\* The changes are applied one after another, each clamped; those of one
\* event have one sign, so that only their sum per invoice matters.
ApplyPaymentAllocated(n) ==
    /\ Moves(n)
    /\ LET touched == {a.invoice : a \in log[n].changes}
           open(i) == Larger(0, Smaller(positions[i].total, positions[i].open - Delta(n, i)))
       IN  Project(n, [i \in Invoice |->
                         IF i \in touched /\ positions[i].status \notin {"absent", "void"}
                         THEN [positions[i] EXCEPT !.open = open(i),
                                   !.status = IF open(i) = 0 THEN "closed" ELSE "open"]
                         ELSE positions[i]])

ApplyInvoiceVoided(n) ==
    /\ log[n].type = "voided"
    /\ LET i == log[n].invoice
       IN  Project(n, IF positions[i].status = "absent" THEN positions
                      ELSE [positions EXCEPT ![i].open = 0, ![i].status = "void"])

-----------------------------------------------------------------------------
Lines == UNION {[1 .. k -> Price] : k \in 0 .. MaxLines}
Items == UNION {[1 .. k -> Item] : k \in 0 .. MaxItems}

InvoiceRequest(i) ==
    \/ \E lines \in Lines, d \in Discount : CreateInvoice(i, lines, d)
    \/ \E d \in Discount : UpdateInvoice(i, d)
    \/ \E price \in Price : AddLine(i, price)
    \/ \E k \in 1 .. Len(invoices[i].lines) : RemoveLine(i, k)
    \/ IssueInvoice(i)
    \/ VoidInvoice(i)

PaymentRequest(p) ==
    \/ \E received \in Received, items \in Items : CreatePayment(p, received, items)
    \/ \E items \in Items : AllocatePayment(p, items)
    \/ VoidPayment(p)

Delivery(n) ==
    \/ ReconcilePaymentAllocations(n)
    \/ ApplyInvoiceIssued(n)
    \/ ApplyPaymentAllocated(n)
    \/ ApplyInvoiceVoided(n)

Next ==
    \/ \E i \in Invoice : InvoiceRequest(i)
    \/ \E p \in Payment : PaymentRequest(p)
    \/ LogAllocated
    \/ \E n \in DOMAIN log : Delivery(n)

Spec == Init /\ [][Next]_vars

-----------------------------------------------------------------------------
\* The type invariant: every record of the repositories, the log and the
\* projections is one the services can store.
TypeOK ==
    /\ \A i \in Invoice :
         /\ invoices[i].status \in DOMAIN Transitions
         /\ invoices[i].lines \in Seq(Price)
         /\ invoices[i].discount \in Discount \cup {0}
         /\ {invoices[i].total, invoices[i].paid, invoices[i].due} \subseteq Nat
         /\ positions[i].status \in {"absent", "open", "closed", "void"}
         /\ {positions[i].total, positions[i].open} \subseteq Nat
    /\ \A p \in Payment :
         /\ payments[p].status \in {"absent", "recorded", "void"}
         /\ {payments[p].received, payments[p].allocated, payments[p].unallocated} \subseteq Nat
    /\ allocations \subseteq Allocation
    /\ \A n \in DOMAIN log : Moves(n) => log[n].changes \subseteq Allocation
    /\ reconciled \subseteq {n \in DOMAIN log : Moves(n)}
    /\ projected \subseteq DOMAIN log
    /\ {inOrder, overAllocated} \subseteq BOOLEAN

\* The books balance in every state, also in those that the projection writes
\* past the validator: were they ever out of balance, validate() would make
\* every later call of either service fail.
BooksBalance ==
    /\ InvoicesValid(invoices)
    /\ PaymentsValid(payments, allocations)
    /\ \A i \in Invoice : invoices[i].status = "paid" => invoices[i].due = 0

\* getCustomerStatement: the closing balance, from what is invoiced and what
\* is allocated.  A voided payment has no allocations left.
Billed == {i \in Invoice : TakesAllocations(i)}
ClosingBalance ==
    SumFunction([i \in Billed |-> invoices[i].total]) - SumOf(allocations)

\* Once every allocated and refunded event is handled, in whatever order, an
\* invoice's paid amount is what the allocations in the payments repository
\* say, up to its total: no order of events, and no write between them,
\* leaves the invoice behind, nor does an attempt that threw half way.  The
\* customer's statement then closes with what the invoices still ask for,
\* unless more than an invoice's total is allocated to it.
InvoicesFollowAllocations ==
    (afterCommit = <<>> /\ \A n \in DOMAIN log : Moves(n) => n \in reconciled) =>
        /\ \A i \in Invoice :
             invoices[i].paid = Smaller(AllocatedTo(allocations, i), invoices[i].total)
        /\ (\A i \in Billed : Outstanding(i) >= 0) =>
             ClosingBalance = SumFunction([i \in Billed |-> invoices[i].due])

\* Calls of different payments, or several calls of one, never allocate more
\* than an invoice's total between them, although the invoice's due amount
\* may lag behind: only a payment with two allocations on the invoice (one
\* request that names it twice, each item checked alone) can.
OverAllocationNeedsARepeatedInvoice ==
    \A i \in Invoice :
        AllocatedTo(allocations, i) > invoices[i].total =>
            \E a, b \in allocations : /\ a.invoice = i /\ b.invoice = i
                                      /\ a.payment = b.payment /\ a # b

AllProjected == afterCommit = <<>> /\ projected = DOMAIN log

ReceivableIsRight(i) ==
    positions[i].status # "absent" =>
        positions[i].open = invoices[i].total - AllocatedTo(allocations, i)

\* If AR handles the events in the order they were logged, and no invoice was
\* ever over-allocated, its open amounts agree with the allocations once all
\* are handled, although it only ever adds and subtracts.
ReceivableRightInOrder ==
    (AllProjected /\ inOrder /\ ~overAllocated) => \A i \in Invoice : ReceivableIsRight(i)

\* What the documentation of the AR engine promises without that condition:
\* the open exposure of an issued invoice is reduced by the valid allocations.
ReceivableRight ==
    (AllProjected /\ ~overAllocated) => \A i \in Invoice : ReceivableIsRight(i)
=============================================================================
