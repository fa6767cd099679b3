-------------------------- MODULE CustomerBalances --------------------------
(***************************************************************************)
(* CustomerBalanceEventsConsumer, CustomerBalanceService and               *)
(* CustomerBalanceRepository: what a customer owes, as the sum of one      *)
(* delta for each event.  Events are delivered at least once, in any       *)
(* order, and by several handlers that share the repository.               *)
(*                                                                         *)
(* A refund's payload has no customer id, so its event changes no balance; *)
(* were there one, the absolute value taken of every payment would lower   *)
(* the balance once more instead of restoring it.                          *)
(***************************************************************************)
EXTENDS Amounts, Integers, FiniteSets, Functions

CONSTANTS
    BalanceEvent,   \* [id, type, customer, changes] with changes the amounts
    BalanceCustomer,
    Nobody          \* the customer of an event that names none

ASSUME BalancesAssumption ==
    /\ Nobody \notin BalanceCustomer
    /\ \A e \in BalanceEvent :
         /\ e.customer \in BalanceCustomer \cup {Nobody}
         /\ IsFiniteSet(e.changes) /\ \A c \in e.changes : c.amount \in Int
         /\ \A f \in BalanceEvent : f.id = e.id => f = e

VARIABLES
    eventDeltas,  \* [key -> delta], key = <<customer, kind of change, event id>>
    delivered     \* history: the events delivered so far

balanceVars == <<eventDeltas, delivered>>

PaymentTypes == {"billing.payment.allocated.v1", "billing.payment.refunded.v1", "payment.received"}
InvoiceTypes == {"billing.invoice.created.v1", "invoice.created"}

BalancesTypeOK ==
    /\ DOMAIN eventDeltas \subseteq
         BalanceCustomer \X {"invoice.created", "payment.received"} \X {e.id : e \in BalanceEvent}
    /\ \A k \in DOMAIN eventDeltas : eventDeltas[k] \in Int
    /\ delivered \subseteq BalanceEvent

BalancesInit == eventDeltas = <<>> /\ delivered = {}

Net(e) == SumFunction([c \in e.changes |-> c.amount])

\* consumeInvoiceCreated; consumePaymentAllocated and consumeLegacyPaymentReceived,
\* where the sign of a refund is lost in the absolute value.
Delta(e) == IF e.type \in InvoiceTypes THEN Net(e) ELSE -Magnitude(Net(e))

EventDeltaKey(e) ==
    <<e.customer, IF e.type \in InvoiceTypes THEN "invoice.created" ELSE "payment.received", e.id>>

\* applyEventDelta: the first delta under a key stays.
ApplyEventDelta(e) ==
    IF EventDeltaKey(e) \in DOMAIN eventDeltas THEN UNCHANGED eventDeltas
    ELSE eventDeltas' = [k \in DOMAIN eventDeltas \cup {EventDeltaKey(e)} |->
                           IF k \in DOMAIN eventDeltas THEN eventDeltas[k] ELSE Delta(e)]

Deliver(e) ==
    /\ IF e.customer = Nobody THEN UNCHANGED eventDeltas ELSE ApplyEventDelta(e)
    /\ delivered' = delivered \cup {e}

BalancesNext == \E e \in BalanceEvent : Deliver(e)

GetBalance(c) ==
    SumFunction(Restrict(eventDeltas, {k \in DOMAIN eventDeltas : k[1] = c}))

-----------------------------------------------------------------------------
\* However often and in whatever order its events are delivered, a customer
\* owes the totals of its invoices less what was allocated of its payments,
\* each counted once (CustomerBalanceRepository.applyEventDelta).
BalancesCountOnce ==
    \A c \in BalanceCustomer :
      LET mine == {e \in delivered : e.customer = c}
          billed == {e \in mine : e.type \in InvoiceTypes}
      IN  GetBalance(c) = SumFunction([e \in billed |-> Net(e)])
                          - SumFunction([e \in mine \ billed |-> Magnitude(Net(e))])
=============================================================================
