------------------------------ MODULE EventLog ------------------------------
(***************************************************************************)
(* EventsService.logEvent with its validator and EventsRepository, the     *)
(* live projections of receivables and payables that consume the log, and  *)
(* ReplayRebuildToolingService, which rebuilds the same positions from the *)
(* log and compares.                                                       *)
(*                                                                         *)
(* A transaction takes a snapshot of the log, and a rollback restores it.  *)
(* Whether a caller is inside the open transaction is asked of its own     *)
(* async context: what is logged inside is published after the commit,     *)
(* what another caller logs meanwhile at once, although the rollback will  *)
(* take it back with the rest.  A published event travels as a whole: the  *)
(* projections work from what they are sent, the ledger looks it up.       *)
(*                                                                         *)
(* The events fall into one millisecond, unless a service dates one back;  *)
(* within it the replay goes by their random ids.  The subledger events    *)
(* that the projections log in turn, which nothing consumes, are left out. *)
(***************************************************************************)
EXTENDS Amounts, Integers, Sequences, SequencesExt, FiniteSets, FiniteSetsExt, Functions

CONSTANTS
    Tenant,
    Invoice,     \* Document ids are numbers, since replays list them in order.
    PayableBill,
    Input,       \* what the services ask to log
    EventId      \* numbers: the ids in their order; bounds the log

ASSUME EventLogAssumption ==
    Invoice \cup PayableBill \cup EventId \subseteq Nat /\ Invoice \cap PayableBill = {}

Document == Invoice \cup PayableBill

VARIABLES
    log,         \* the stored events, oldest first
    saved,       \* the snapshot of the open transaction: <<>> or <<a log>>
    outbox,      \* events to publish after the commit
    published,   \* events handed to the event queue
    exposed,     \* history: events published from outside a transaction that
                 \* was open and whose rollback takes them back, or took
    live,        \* [Tenant \X Document -> position]: the live projections
    handled,     \* events the projections have handled, in this order
    referenced   \* ids the ledger has posted

logVars == <<log, saved, outbox, published, exposed, live, handled, referenced>>

-----------------------------------------------------------------------------
(* The catalog of events *)

\* payloadValidators of invoices, payments and bills: the fields without which
\* an event is refused.  invoice.paid has two validators, of which the second
\* is the one JavaScript keeps.
Required(type) ==
    LET invoice == {"invoice_id", "customer_id", "total_minor", "currency_code"}
        payment == {"payment_id", "amount_minor", "currency_code"}
        bill    == {"bill_id", "vendor_id", "total_minor", "currency_code"}
    IN  CASE type = "invoice.created"   -> invoice \cup {"invoice_number"}
          [] type = "invoice.issued"    -> invoice \cup {"issue_date"}
          [] type = "invoice.sent"      -> invoice \cup {"to_email", "sent_at"}
          [] type = "invoice.paid"      ->
               {"invoice_id", "paid_at", "amount_paid_minor", "payment_id", "currency_code"}
          [] type = "invoice.voided"    -> {"invoice_id", "voided_at"}
          [] type = "payment.settled"   -> payment \cup {"settled_at"}
          [] type = "payment.recorded"  -> payment \cup {"customer_id"}
          [] type = "payment.allocated" ->
               payment \cup {"customer_id", "allocation_count", "total_allocated_minor", "allocation_changes"}
          [] type = "payment.refunded"  -> payment \cup {"refunded_at", "allocation_changes"}
          [] type = "bill.created"      -> bill \cup {"created_at", "expense_classification"}
          [] type = "bill.approved"     -> bill \cup {"approved_at"}
          [] type = "bill.paid"         -> {"bill_id", "paid_at", "amount_paid_minor", "currency_code"}

EventType ==
    {"invoice.created", "invoice.issued", "invoice.sent", "invoice.paid", "invoice.voided",
     "payment.recorded", "payment.settled", "payment.allocated", "payment.refunded",
     "bill.created", "bill.approved", "bill.paid"}

\* EVENT_TYPE_SET: an event of another type is refused.
ASSUME InputAssumption == \A input \in Input : input.type \in EventType

\* The number fields a projection computes with, and the ids it looks up.
Reads(type) ==
    CASE type = "invoice.issued" -> {"invoice_id", "customer_id", "total_minor"}
      [] type = "invoice.voided" -> {"invoice_id"}
      [] type \in {"payment.allocated", "payment.refunded"} -> {"allocation_changes"}
      [] type \in {"bill.created", "bill.approved"} -> {"bill_id", "vendor_id", "total_minor"}
      [] type = "bill.paid" -> {"bill_id", "amount_paid_minor"}
      [] OTHER -> {}

\* createDomainEvent: an event without a key of its own has the key of its
\* type, aggregate and version.
IdempotencyKey(input) ==
    IF input.key # <<>> THEN input.key ELSE <<input.type, input.doc, input.version>>
NewEvent(input, id) ==
    [id |-> id, tenant |-> input.tenant, type |-> input.type, key |-> IdempotencyKey(input),
     occurred |-> IF input.datedBack THEN "before" ELSE "now",
     lacks |-> input.lacks, doc |-> input.doc, amount |-> input.amount, changes |-> input.changes]

\* validateDomainEvent with validateCreateInput.
Valid(input) == input.version >= 1 /\ input.lacks \cap Required(input.type) = {}

-----------------------------------------------------------------------------
IdsOf(events) == {e.id : e \in events}
Ids == IdsOf(ToSet(log))
Event(id) == log[CHOOSE n \in DOMAIN log : log[n].id = id]

LogInit ==
    /\ log = <<>> /\ saved = <<>> /\ outbox = {} /\ published = {} /\ exposed = {}
    /\ live = [p \in Tenant \X Document |-> <<>>]
    /\ handled = <<>> /\ referenced = {}

\* eventIdempotencyIndex: the event that has the key already.
Existing(input) ==
    {e \in ToSet(log) : e.tenant = input.tenant /\ e.key = IdempotencyKey(input)}

\* publishAfterCommit, for a caller inside or outside the open transaction.
\* An event the queue has had comes to it again, and its consumers skip it.
Announce(e, inside) ==
    \/ /\ inside /\ saved # <<>>
       /\ outbox' = outbox \cup ({e} \ published)
       /\ UNCHANGED <<published, exposed>>
    \/ /\ ~inside
       /\ published' = published \cup {e}
       /\ exposed' = IF saved = <<>> THEN exposed ELSE exposed \cup ({e} \ ToSet(saved[1]))
       /\ UNCHANGED outbox

\* logEvent: the event that has the key is returned and published again.
LogEvent(input, inside) ==
    /\ Valid(input)
    /\ \/ \E e \in Existing(input) : Announce(e, inside) /\ UNCHANGED log
       \/ /\ Existing(input) = {}
          /\ \E id \in EventId \ (Ids \cup IdsOf(published)) :
               /\ log' = Append(log, NewEvent(input, id))
               /\ Announce(NewEvent(input, id), inside)
    /\ UNCHANGED <<saved, live, handled, referenced>>

CreateSnapshot ==
    /\ saved = <<>>
    /\ saved' = <<log>>
    /\ UNCHANGED <<log, outbox, published, exposed, live, handled, referenced>>

Commit ==
    /\ saved # <<>>
    /\ saved' = <<>> /\ published' = published \cup outbox /\ outbox' = {}
    /\ exposed' = exposed \ ToSet(log)
    /\ UNCHANGED <<log, live, handled, referenced>>

RestoreSnapshot_fault ==         \* mutant: what was to be published is kept
    /\ saved # <<>>
    /\ log' = saved[1] /\ saved' = <<>>
    /\ UNCHANGED <<outbox, published, exposed, live, handled, referenced>>
RestoreSnapshot ==
    /\ saved # <<>>
    /\ log' = saved[1] /\ saved' = <<>> /\ outbox' = {}
    /\ UNCHANGED <<published, exposed, live, handled, referenced>>

-----------------------------------------------------------------------------
(* The live projections: ArService and ApService *)
\* applyInvoiceIssued, applyBillApprovedFromEvent.  A position is <<>> or
\* <<[total, open, paid, status]>>.
Opened(old, total) ==
    LET base == IF old = <<>> THEN total ELSE old[1].open
        open == Larger(0, Smaller(total, base))
    IN  << [total |-> total, open |-> open, paid |-> Larger(0, total - open),
            status |-> IF base <= 0 THEN "closed" ELSE "open"] >>

\* applyPaymentAllocated, applyBillPaidFromEvent
Reduced(old, delta) ==
    IF old = <<>> \/ old[1].status = "void" THEN old
    ELSE LET open == Larger(0, Smaller(old[1].total, old[1].open - delta))
         IN  << [old[1] EXCEPT !.open = open, !.paid = Larger(0, old[1].total - open),
                               !.status = IF open = 0 THEN "closed" ELSE "open"] >>

\* applyInvoiceVoided
Voided(old) ==
    IF old = <<>> THEN old ELSE << [old[1] EXCEPT !.open = 0, !.paid = 0, !.status = "void"] >>

Openings == {"invoice.issued", "bill.created", "bill.approved"}
Allocating == {"payment.allocated", "payment.refunded"}
ChangeOf(e, d) == MapThenSumSet(LAMBDA c : c.amount, {c \in e.changes : c.doc = d})

\* What the handlers of an event make of the position of document d.
Applied(old, e, d) ==
    CASE e.type \in Openings /\ e.doc = d -> Opened(old, e.amount)
      [] e.type \in Allocating /\ \E c \in e.changes : c.doc = d -> Reduced(old, ChangeOf(e, d))
      [] e.type = "bill.paid" /\ e.doc = d -> Reduced(old, e.amount)
      [] e.type = "invoice.voided" /\ e.doc = d -> Voided(old)
      [] OTHER -> old

\* A worker delivers a published event to the projections, once.
Project(e) ==
    /\ e \in published \ ToSet(handled)
    /\ handled' = Append(handled, e)
    /\ live' = [p \in Tenant \X Document |->
                  IF p[1] = e.tenant THEN Applied(live[p], e, p[2]) ELSE live[p]]
    /\ UNCHANGED <<log, saved, outbox, published, exposed, referenced>>

\* The ledger posts what it has consumed of the types replays look for; an
\* event it does not find is refused.
Posting == {"invoice.created", "payment.recorded", "bill.created"}
PostReference(e) ==
    /\ e \in published /\ e.id \in Ids \ referenced
    /\ e.type \in Posting
    /\ referenced' = referenced \cup {e.id}
    /\ UNCHANGED <<log, saved, outbox, published, exposed, live, handled>>

LogNext ==
    \/ \E input \in Input, inside \in BOOLEAN : LogEvent(input, inside)
    \/ CreateSnapshot \/ Commit \/ RestoreSnapshot
    \/ \E e \in published : Project(e) \/ PostReference(e)

-----------------------------------------------------------------------------
(* ReplayRebuildToolingService.  It has its own copy of the projections,   *)
(* which takes the absolute part of every amount.                          *)

\* getReplayOrderedEvents, isProjectionRelevant
Relevant == EventType \ {"invoice.sent", "invoice.paid", "payment.settled"}
Before(m, n) ==
    \/ m.occurred = "before" /\ n.occurred = "now"
    \/ m.occurred = n.occurred /\ m.id < n.id
ReplayOrder(t) ==
    LET relevant == {n \in DOMAIN log : log[n].tenant = t /\ log[n].type \in Relevant}
    IN  SetToSortSeq({log[n] : n \in relevant}, Before)

\* toSafeMinor
Safe(n) == Larger(0, n)

\* rebuildProjectionState: the positions after one more event.
Rebuilding(positions, e) ==
    [d \in Document |->
       CASE e.type \in Openings /\ e.doc = d -> Opened(positions[d], Safe(e.amount))
         [] e.type \in Allocating /\ \E c \in e.changes : c.doc = d ->
              Reduced(positions[d],
                      MapThenSumSet(LAMBDA c : Safe(c.amount), {c \in e.changes : c.doc = d}))
         [] e.type = "bill.paid" /\ e.doc = d -> Reduced(positions[d], Safe(e.amount))
         [] e.type = "invoice.voided" /\ e.doc = d -> Voided(positions[d])
         [] OTHER -> positions[d]]
RebuiltFrom(events) == FoldLeft(Rebuilding, [d \in Document |-> <<>>], events)
Rebuilt(t) == RebuiltFrom(ReplayOrder(t))

OpenTotal(positions, docs) ==
    MapThenSumSet(LAMBDA d : positions[d][1].open,
                  {d \in docs : positions[d] # <<>> /\ positions[d][1].status = "open"})
LiveOf(t) == [d \in Document |-> live[<<t, d>>]]

\* verifyLedgerReferenceIntegrity: what the ledger should have posted.
MissingReferences(t) ==
    {e.id : e \in {e \in ToSet(ReplayOrder(t)) : e.type \in Posting}} \ referenced

\* rebuildAndVerifyConsistency: the differences it reports.
Diffs(t) ==
    {kind \in {"receivables", "payables", "references"} :
       CASE kind = "receivables" -> OpenTotal(Rebuilt(t), Invoice) # OpenTotal(LiveOf(t), Invoice)
         [] kind = "payables" -> OpenTotal(Rebuilt(t), PayableBill) # OpenTotal(LiveOf(t), PayableBill)
         [] OTHER -> MissingReferences(t) # {}}

\* The documents of a rebuild in the order of the map: as they were opened.
OpeningOrder(events, docs) ==
    LET opened == SelectSeq(events, LAMBDA e : e.type \in Openings /\ e.doc \in docs)
    IN  FoldLeft(LAMBDA seen, e : IF Contains(seen, e.doc) THEN seen ELSE Append(seen, e.doc),
                 <<>>, opened)

\* simulateMissedEventRecovery: the lists with all events are sorted, those
\* without the missed one are not.
DriftDetected(t, id) ==
    LET some(docs) == LET r == RebuiltFrom(SelectSeq(ReplayOrder(t), LAMBDA e : e.id # id))
                          o == OpeningOrder(SelectSeq(ReplayOrder(t), LAMBDA e : e.id # id), docs)
                      IN  [k \in DOMAIN o |-> <<o[k], r[o[k]]>>]
        all(docs)  == LET o == SetToSortSeq({d \in docs : Rebuilt(t)[d] # <<>>}, <)
                      IN  [k \in DOMAIN o |-> <<o[k], Rebuilt(t)[o[k]]>>]
    IN  \E docs \in {Invoice, PayableBill} : some(docs) # all(docs)

-----------------------------------------------------------------------------
LogTypeOK ==
    /\ Cardinality(Ids) = Len(log) /\ Ids \subseteq EventId
    /\ \A n \in DOMAIN log : log[n].type \in EventType
    /\ outbox \subseteq ToSet(log) /\ exposed \subseteq published
    /\ ToSet(handled) \subseteq published /\ referenced \subseteq IdsOf(published)

\* A tenant has one event for a key, whatever is repeated, undone and logged
\* again.  An event that reaches a consumer is in the log for good, never one
\* that a rollback took back, unless a caller outside the open transaction
\* published it while the rollback was still to come.  And every event has the
\* fields the projections and the replay compute with, so that no position
\* becomes NaN (EventsRepository.create, publishAfterCommit, payloadValidators).
LogIsSound ==
    /\ \A m, n \in DOMAIN log :
         (log[m].tenant = log[n].tenant /\ log[m].key = log[n].key) => m = n
    /\ published \ exposed \subseteq ToSet(IF saved = <<>> THEN log ELSE saved[1])
    /\ \A n \in DOMAIN log : log[n].lacks \cap Reads(log[n].type) = {}

Touches(e, d) ==
    \/ e.doc = d /\ e.type \in Openings \cup {"bill.paid", "invoice.voided"}
    \/ e.type \in Allocating /\ \E c \in e.changes : c.doc = d
Given(e, d) == IF e.type \in Allocating THEN ChangeOf(e, d) ELSE e.amount

\* Events of one document in an order its consumers can expect: opened first,
\* always with one total, never paid beyond it, refunded or touched once void.
Orderly(events, d) ==
    LET mine     == SelectSeq(events, LAMBDA e : Touches(e, d))
        payments == {k \in DOMAIN mine : mine[k].type \in Allocating \cup {"bill.paid"}}
    IN  mine # <<>> =>
        /\ mine[1].type \in Openings
        /\ \A k \in DOMAIN mine : mine[k].type \in Openings => mine[k].amount = mine[1].amount
        /\ \A k \in payments : Given(mine[k], d) >= 0
        /\ MapThenSumSet(LAMBDA k : Given(mine[k], d), payments) <= mine[1].amount
        /\ \A k \in DOMAIN mine : mine[k].type = "invoice.voided" => k = Len(mine)

HandledOf(t) == SelectSeq(handled, LAMBDA e : e.tenant = t /\ e.type \in Relevant)
Settled(t) ==
    /\ saved = <<>>
    /\ ToSet(HandledOf(t)) = ToSet(ReplayOrder(t)) /\ MissingReferences(t) = {}

\* Once every event of a tenant is handled, and no other, a rebuild from the
\* log (which knows nothing of an event a rollback took back) gives the
\* live position of every document, although the replay sorts by the date an
\* event occurred and the consumers take it when it comes: the two orders may
\* differ as long as each is an orderly one.  The report is then empty, a
\* missed event that matters is a drift, and an event that is still on its way
\* to the ledger is reported as missing (ReplayRebuildToolingService).
RebuildsAgree ==
    \A t \in Tenant :
        /\ (Settled(t) /\ \A d \in Document : Orderly(HandledOf(t), d) /\ Orderly(ReplayOrder(t), d))
             => Rebuilt(t) = LiveOf(t) /\ Diffs(t) = {}
        /\ \A id \in Ids \ referenced :
             (Event(id).tenant = t /\ Event(id).type \in Posting) => "references" \in Diffs(t)
        /\ \A id \in Ids : Event(id).tenant = t =>
             LET rest == RebuiltFrom(SelectSeq(ReplayOrder(t), LAMBDA e : e.id # id))
             IN  rest # Rebuilt(t) => DriftDetected(t, id)
=============================================================================
