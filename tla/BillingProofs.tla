--------------------------- MODULE BillingProofs ---------------------------
(***************************************************************************)
(* Proofs about Billing: the books balance, an invoice's paid amount       *)
(* catches up with its allocations, over-allocation needs a request that   *)
(* names an invoice twice, and the receivable position is right whenever   *)
(* the events come in order.                                               *)
(*                                                                         *)
(* Two inductive invariants, one on top of the other.  CoreInv is about    *)
(* what the services write: the log, with the event that is still to be    *)
(* logged after the commit, tells exactly what is allocated (NetInv), so   *)
(* the projection of a payment's events can only be wrong while one of     *)
(* them is not reconciled (PaidInv).  ReceivableInv adds what AR depends   *)
(* on: every log entry that moves money stands behind its invoice's issue  *)
(* (IssuedFirst), no prefix of the log allocates less than nothing or more *)
(* than the invoice (RangeInv), hence the clamps of AR never bite, and a   *)
(* position that has taken a prefix in order is what that prefix says      *)
(* (PositionInv).                                                          *)
(***************************************************************************)
EXTENDS Billing, CollectionLemmas

Changes == {c \in SUBSET Allocation : IsFiniteSet(c)}
IssuedEvent == [type : {"issued"}, invoice : Invoice, total : Nat]
VoidedEvent == [type : {"voided"}, invoice : Invoice]
MoveEvent == [type : {"allocated", "refunded"}, changes : Changes]
Event == IssuedEvent \cup VoidedEvent \cup MoveEvent

InvoiceRecord == [status : DOMAIN Transitions, lines : Seq(Price), discount : Discount \cup {0},
                  total : Nat, paid : Nat, due : Nat]
PaymentRecord == [status : {"absent", "recorded", "void"},
                  received : Nat, allocated : Nat, unallocated : Nat]
(* A payment before the validator has refused a negative rest.             *)
UncheckedPayment == [status : {"absent", "recorded", "void"},
                     received : Nat, allocated : Nat, unallocated : Int]
Position == [status : {"absent", "open", "closed", "void"}, total : Nat, open : Nat]

TypeInv ==
    /\ invoices \in [Invoice -> InvoiceRecord]
    /\ payments \in [Payment -> PaymentRecord]
    /\ allocations \in Changes
    /\ log \in Seq(Event)
    /\ \/ afterCommit = <<>>
       \/ \E c \in Changes : afterCommit = << [type |-> "allocated", changes |-> c] >>
    /\ reconciled \subseteq {n \in DOMAIN log : Moves(n)}
    /\ positions \in [Invoice -> Position]
    /\ projected \subseteq DOMAIN log
    /\ inOrder \in BOOLEAN /\ overAllocated \in BOOLEAN

(* What the validator leaves of the invoices: nothing is paid before the   *)
(* issue, and what is void is worth nothing.                               *)
StatusInv ==
    /\ \A i \in Invoice :
        /\ invoices[i].status \in {"absent", "draft", "issued"} => invoices[i].paid = 0
        /\ invoices[i].status = "void" => invoices[i].total = 0
    /\ IsFiniteSet(Billed)

(* Whatever is allocated, was, or will be announced fits its invoice by    *)
(* itself, and the invoice keeps its total from then on.                   *)
Charged(a) == TakesAllocations(a.invoice) /\ a.amount <= invoices[a.invoice].total

ChargedInv ==
    /\ \A a \in allocations : Charged(a)
    /\ \A n \in DOMAIN log : Moves(n) => \A a \in log[n].changes : Charged(a)
    /\ afterCommit # <<>> => \A a \in Head(afterCommit).changes : Charged(a)

(* Allocations of different payments to one invoice cannot exceed it: each *)
(* was checked against what the others had left.                           *)
OneEach(s) == \A a, b \in s : a.payment = b.payment => a = b

OneEachInv ==
    \A s \in SUBSET allocations, i \in Invoice :
        ((\A a \in s : a.invoice = i) /\ OneEach(s)) => SumOf(s) <= invoices[i].total

(* What an event changes in the amount allocated to an invoice, what the   *)
(* first m events of a log change together, and what the callback waiting  *)
(* after the commit will add.                                              *)
Change(e, i) ==
    CASE e.type = "allocated" -> AllocatedTo(e.changes, i)
      [] e.type = "refunded"  -> 0 - AllocatedTo(e.changes, i)
      [] OTHER -> 0

Net(events, m, i) == SumFunction([n \in 1 .. m |-> Change(events[n], i)])

Pending(i) == IF afterCommit = <<>> THEN 0 ELSE AllocatedTo(Head(afterCommit).changes, i)

(* The log and the pending announcement tell what is allocated.            *)
NetInv == \A i \in Invoice : Net(log, Len(log), i) + Pending(i) = AllocatedTo(allocations, i)

(* A paid amount is what the log says, or an event that concerns the       *)
(* invoice is not reconciled yet.                                          *)
Touches(e, i) == e.type \in {"allocated", "refunded"} /\ \E a \in e.changes : a.invoice = i

PaidInv ==
    \A i \in Billed : \/ invoices[i].paid = PaidOf(i)
                      \/ \E n \in DOMAIN log \ reconciled : Touches(log[n], i)

(* Events tell the truth about the issue and the void, and the issue of an *)
(* invoice is logged before anything that allocates to it.                 *)
Issues(e, i) == e.type = "issued" /\ e.invoice = i

IssuedInv ==
    \A n \in DOMAIN log :
        /\ log[n].type = "issued" =>
             /\ invoices[log[n].invoice].status \notin {"absent", "draft"}
             /\ invoices[log[n].invoice].total = log[n].total
        /\ log[n].type = "voided" => invoices[log[n].invoice].status = "void"

IssuedFirst ==
    /\ \A i \in Billed : \E k \in DOMAIN log : Issues(log[k], i)
    /\ \A n \in DOMAIN log, i \in Invoice :
         Touches(log[n], i) => \E k \in 1 .. n - 1 : Issues(log[k], i)

(* Without over-allocation every prefix of the log stays within the total. *)
RangeInv ==
    ~overAllocated =>
        \A i \in Invoice :
            /\ AllocatedTo(allocations, i) <= invoices[i].total
            /\ \A m \in 0 .. Len(log) : Net(log, m, i) \in 0 .. invoices[i].total

(* The position that has taken the first m events, and no others.          *)
PositionAt(m, i) ==
    IF positions[i].status = "absent" THEN \A k \in 1 .. m : ~Issues(log[k], i)
    ELSE /\ \E k \in 1 .. m : Issues(log[k], i)
         /\ positions[i].total = invoices[i].total
         /\ positions[i].open = invoices[i].total - Net(log, m, i)
         /\ positions[i].status = "void" => invoices[i].status = "void"

PositionInv ==
    (inOrder /\ ~overAllocated) =>
        \E m \in 0 .. Len(log) : projected = 1 .. m /\ \A i \in Invoice : PositionAt(m, i)

-----------------------------------------------------------------------------
(* Sums over sets of allocations.                                          *)
LEMMA SumOfParts ==
    ASSUME NEW c, IsFiniteSet(c), \A a \in c : a.amount \in Nat
    PROVE  SumOf(c) \in Nat
<1>1. [a \in c |-> a.amount] \in [c -> Nat]
  OBVIOUS
<1> QED
  BY <1>1, SumIsNat DEF SumOf

LEMMA SumOfUnion ==
    ASSUME NEW c, IsFiniteSet(c), \A a \in c : a.amount \in Nat,
           NEW d, IsFiniteSet(d), \A a \in d : a.amount \in Nat, c \cap d = {}
    PROVE  SumOf(c \union d) = SumOf(c) + SumOf(d)
<1>1. PICK D : D = c \union d
  OBVIOUS
<1>2. PICK f : f = [a \in D |-> a.amount]
  OBVIOUS
<1>3. f \in [D -> Int] /\ IsFiniteSet(D) /\ c \in SUBSET D /\ d \in SUBSET D
  <2>1. IsFiniteSet(D)
    BY <1>1, FS_Union
  <2>2. \A a \in D : a.amount \in Int
    BY <1>1
  <2> QED
    BY <1>1, <1>2, <2>1, <2>2
<1>4. /\ [a \in c |-> a.amount] = Restrict(f, c)
      /\ [a \in d |-> a.amount] = Restrict(f, d)
      /\ [a \in c \union d |-> a.amount] = Restrict(f, c \union d)
  BY <1>1, <1>2 DEF Restrict
<1>5. SumFunction(Restrict(f, c \union d)) = SumFunction(Restrict(f, c)) + SumFunction(Restrict(f, d))
  BY <1>3, SumSplits
<1> QED
  BY <1>4, <1>5, Zenon DEF SumOf

LEMMA SumOfEmpty == SumOf({}) = 0
<1>1. PICK f : f = [a \in {} |-> a.amount]
  OBVIOUS
<1>2. DOMAIN f = {} /\ f = [x \in {} |-> f[x]]
  BY <1>1
<1>3. SumFunction(f) = 0
  BY <1>2, SumOfNothing
<1> QED
  BY <1>1, <1>3, Zenon DEF SumOf

LEMMA SumOfOne ==
    ASSUME NEW a, a.amount \in Nat PROVE SumOf({a}) = a.amount
<1>1. PICK f : f = [x \in {a} |-> x.amount]
  OBVIOUS
<1>2. f \in [{a} -> Int] /\ f[a] = a.amount /\ IsFiniteSet({a})
  <2>1. IsFiniteSet({a})
    BY FS_Singleton
  <2>2. f \in [{a} -> Int] /\ f[a] = a.amount
    BY <1>1
  <2> QED
    BY <2>1, <2>2
<1>3. Restrict(f, {a}) = f /\ {} \union {a} = {a}
  BY <1>2, SumOfAll
<1>4. SumFunction(Restrict(f, {} \union {a})) = f[a] + SumFunction(Restrict(f, {}))
  BY <1>2, SumExtends
<1>5. SumFunction(f) = f[a] + 0
  BY <1>3, <1>4, SumOfNone
<1>6. SumFunction(f) = a.amount
  BY <1>2, <1>5
<1> QED
  BY <1>1, <1>6, Zenon DEF SumOf

LEMMA Amounts ==
    ASSUME NEW c \in Changes
    PROVE  /\ IsFiniteSet(c)
           /\ \A a \in c : a.amount \in Nat /\ a.amount > 0 /\ a.invoice \in Invoice /\ a.payment \in Payment
           /\ \A d \in SUBSET c : d \in Changes
<1>1. IsFiniteSet(c) /\ c \in SUBSET Allocation
  BY DEF Changes
<1>2. \A d \in SUBSET c : d \in Changes
  <2> SUFFICES ASSUME NEW d \in SUBSET c PROVE d \in Changes
    OBVIOUS
  <2>1. IsFiniteSet(d)
    BY <1>1, FS_Subset
  <2> QED
    BY <1>1, <2>1 DEF Changes
<1>3. \A a \in c : a.amount \in Amount /\ a.invoice \in Invoice /\ a.payment \in Payment
  BY <1>1 DEF Allocation
<1>4. \A x \in Amount : x \in Nat /\ x > 0
  BY AmountsAreMinorUnits
<1> QED
  BY <1>1, <1>2, <1>3, <1>4

LEMMA SumOfSubset ==
    ASSUME NEW c \in Changes, NEW d \in SUBSET c
    PROVE  SumOf(d) \in Nat /\ SumOf(c) \in Nat /\ SumOf(d) <= SumOf(c)
           /\ SumOf(c \ d) = SumOf(c) - SumOf(d)
<1>1. d \in Changes /\ c \ d \in Changes /\ d \cap (c \ d) = {} /\ d \union (c \ d) = c
  BY Amounts
<1>2. SumOf(d) \in Nat /\ SumOf(c \ d) \in Nat
  BY <1>1, Amounts, SumOfParts
<1>3. SumOf(d \union (c \ d)) = SumOf(d) + SumOf(c \ d)
  BY <1>1, Amounts, SumOfUnion
<1>4. SumOf(c) = SumOf(d) + SumOf(c \ d)
  BY <1>1, <1>3, Zenon
<1> QED
  BY <1>2, <1>4

(* What a set of changes allocates to an invoice, or of a payment.         *)
LEMMA AllocatedToIsNat ==
    ASSUME NEW c \in Changes, NEW i PROVE AllocatedTo(c, i) \in Nat
<1>1. {a \in c : a.invoice = i} \in SUBSET c
  OBVIOUS
<1> QED
  BY <1>1, SumOfSubset DEF AllocatedTo

LEMMA AllocatedOfIsNat ==
    ASSUME NEW c \in Changes, NEW p PROVE AllocatedOf(c, p) \in Nat
<1>1. {a \in c : a.payment = p} \in SUBSET c
  OBVIOUS
<1> QED
  BY <1>1, SumOfSubset DEF AllocatedOf

LEMMA AllocatedToNone ==
    ASSUME NEW c, NEW i, \A a \in c : a.invoice # i PROVE AllocatedTo(c, i) = 0
<1>1. {a \in c : a.invoice = i} = {}
  OBVIOUS
<1> QED
  BY <1>1, SumOfEmpty DEF AllocatedTo

LEMMA AllocatedToUnion ==
    ASSUME NEW c \in Changes, NEW d \in Changes, c \cap d = {}, NEW i
    PROVE  c \union d \in Changes /\ AllocatedTo(c \union d, i) = AllocatedTo(c, i) + AllocatedTo(d, i)
<1> DEFINE C == {a \in c : a.invoice = i}
           E == {a \in d : a.invoice = i}
<1>1. C \in Changes /\ E \in Changes /\ C \cap E = {}
  BY Amounts
<1>2. {a \in c \union d : a.invoice = i} = C \union E
  OBVIOUS
<1> HIDE DEF C, E
<1>3. SumOf(C \union E) = SumOf(C) + SumOf(E)
  BY <1>1, Amounts, SumOfUnion
<1>4. AllocatedTo(c \union d, i) = AllocatedTo(c, i) + AllocatedTo(d, i)
  BY <1>2, <1>3, Zenon DEF AllocatedTo, C, E
<1> QED
  BY <1>4, FS_Union DEF Changes

LEMMA AllocatedToRest ==
    ASSUME NEW c \in Changes, NEW d \in SUBSET c, NEW i
    PROVE  /\ c \ d \in Changes /\ d \in Changes
           /\ AllocatedTo(c \ d, i) = AllocatedTo(c, i) - AllocatedTo(d, i)
<1>1. d \in Changes /\ c \ d \in Changes /\ d \cap (c \ d) = {} /\ d \union (c \ d) = c
  BY Amounts
<1>2. AllocatedTo(d \union (c \ d), i) = AllocatedTo(d, i) + AllocatedTo(c \ d, i)
  BY <1>1, AllocatedToUnion
<1>3. AllocatedTo(c, i) = AllocatedTo(d, i) + AllocatedTo(c \ d, i)
  BY <1>1, <1>2, Zenon
<1>4. AllocatedTo(d, i) \in Nat /\ AllocatedTo(c \ d, i) \in Nat
  BY <1>1, AllocatedToIsNat
<1> QED
  BY <1>1, <1>3, <1>4

(* Every allocation is allocated to one invoice: the sum over the invoices *)
(* of what is allocated to each is the sum of the allocations.             *)
LEMMA SumOverInvoices ==
    ASSUME NEW c \in Changes, NEW D, IsFiniteSet(D), \A a \in c : a.invoice \in D
    PROVE  SumFunction([i \in D |-> AllocatedTo(c, i)]) = SumOf(c)
<1>1. PICK f : f = [i \in D |-> AllocatedTo(c, i)]
  OBVIOUS
<1>2. f \in [D -> Int]
  BY <1>1, AllocatedToIsNat
<1> DEFINE to(s) == {a \in c : a.invoice \in s}
           P == {s \in SUBSET D : SumFunction(Restrict(f, s)) = SumOf(to(s))}
<1>3. {} \in P
  <2>1. to({}) = {}
    OBVIOUS
  <2>2. SumOf(to({})) = 0
    BY <2>1, SumOfEmpty
  <2> QED
    BY <2>2, SumOfNone
<1>4. ASSUME NEW s \in P, NEW x \in D \ s PROVE s \union {x} \in P
  <2>1. s \in SUBSET D /\ s \union {x} \in SUBSET D
    OBVIOUS
  <2>2. SumFunction(Restrict(f, s)) = SumOf(to(s))
    OBVIOUS
  <2>3. to(s) \in Changes /\ {a \in c : a.invoice = x} \in Changes
    BY Amounts
  <2>4. to(s) \cap {a \in c : a.invoice = x} = {}
    OBVIOUS
  <2>5. to(s \union {x}) = to(s) \union {a \in c : a.invoice = x}
    OBVIOUS
  <2> HIDE DEF to, P
  <2>6. SumOf(to(s) \union {a \in c : a.invoice = x}) = SumOf(to(s)) + AllocatedTo(c, x)
    <3>1. PICK d : d = {a \in c : a.invoice = x}
      OBVIOUS
    <3>2. SumOf(to(s) \union d) = SumOf(to(s)) + SumOf(d)
      BY <2>3, <2>4, <3>1, Amounts, SumOfUnion
    <3> QED
      BY <3>1, <3>2, Zenon DEF AllocatedTo
  <2>7. SumFunction(Restrict(f, s \union {x})) = f[x] + SumFunction(Restrict(f, s))
    BY <1>2, <2>1, SumExtends
  <2>8. f[x] = AllocatedTo(c, x) /\ f[x] \in Nat /\ SumOf(to(s)) \in Nat
    BY <1>1, <2>3, Amounts, SumOfParts, AllocatedToIsNat
  <2>9. SumFunction(Restrict(f, s \union {x})) = SumOf(to(s)) + AllocatedTo(c, x)
    BY <2>2, <2>7, <2>8
  <2>10. SumFunction(Restrict(f, s \union {x})) = SumOf(to(s \union {x}))
    BY <2>5, <2>6, <2>9, Zenon
  <2> QED
    BY <2>1, <2>10 DEF P
<1>5. D \in P
  <2> HIDE DEF P
  <2>1. P \in SUBSET (SUBSET D)
    BY DEF P
  <2> QED
    BY <1>3, <1>4, <2>1, FiniteInduction
<1>6. Restrict(f, D) = f /\ to(D) = c
  BY <1>2, SumOfAll
<1>7. SumFunction(f) = SumOf(c)
  BY <1>5, <1>6, Zenon
<1> QED
  BY <1>1, <1>7, Zenon

(* The net of the events of a log, event after event.                      *)
LEMMA ChangeIsInt ==
    ASSUME NEW e \in Event, NEW i PROVE Change(e, i) \in Int
<1>1. e.type \in {"allocated", "refunded"} => e.changes \in Changes
  BY DEF Event, IssuedEvent, VoidedEvent, MoveEvent
<1>2. e.type \in {"allocated", "refunded"} => AllocatedTo(e.changes, i) \in Nat
  BY <1>1, AllocatedToIsNat
<1> QED
  BY <1>2 DEF Change

LEMMA UntouchedChange ==
    ASSUME NEW e, NEW i, ~Touches(e, i) PROVE Change(e, i) = 0
<1>1. CASE e.type \in {"allocated", "refunded"}
  <2>1. AllocatedTo(e.changes, i) = 0
    BY <1>1, AllocatedToNone DEF Touches
  <2> QED
    BY <2>1 DEF Change
<1>2. CASE e.type \notin {"allocated", "refunded"}
  BY <1>2 DEF Change
<1> QED
  BY <1>1, <1>2

LEMMA NetStart ==
    ASSUME NEW events, NEW i PROVE Net(events, 0, i) = 0
<1>1. PICK f : f = [n \in 1 .. 0 |-> Change(events[n], i)]
  OBVIOUS
<1>2. 1 .. 0 = {}
  OBVIOUS
<1>3. DOMAIN f = {} /\ f = [x \in {} |-> f[x]]
  BY <1>1, <1>2
<1>4. SumFunction(f) = 0
  BY <1>3, SumOfNothing
<1> QED
  BY <1>1, <1>4, Zenon DEF Net

LEMMA NetStep ==
    ASSUME NEW events \in Seq(Event), NEW m \in 0 .. Len(events) - 1, NEW i
    PROVE  Net(events, m + 1, i) = Change(events[m + 1], i) + Net(events, m, i)
<1>1. PICK f : f = [n \in 1 .. m + 1 |-> Change(events[n], i)]
  OBVIOUS
<1>2. PICK g : g = [n \in 1 .. m |-> Change(events[n], i)]
  OBVIOUS
<1>3. \A n \in 1 .. m + 1 : events[n] \in Event
  OBVIOUS
<1>4. m \in Nat /\ f \in [1 .. m + 1 -> Int] /\ g \in [1 .. m -> Int] /\ \A k \in 1 .. m : g[k] = f[k]
  <2>1. m \in Nat /\ m + 1 \in 1 .. m + 1 /\ \A k \in 1 .. m : k \in 1 .. m + 1
    OBVIOUS
  <2>2. \A n \in 1 .. m + 1 : Change(events[n], i) \in Int
    BY <1>3, ChangeIsInt
  <2> QED
    BY <1>1, <1>2, <2>1, <2>2
<1>5. SumFunction(f) = f[m + 1] + SumFunction(g)
  BY <1>4, SumOfPrefix
<1>6. f[m + 1] = Change(events[m + 1], i)
  BY <1>1, <1>4
<1> QED
  BY <1>1, <1>2, <1>5, <1>6, Zenon DEF Net

LEMMA NetIsInt ==
    ASSUME NEW events \in Seq(Event), NEW m \in 0 .. Len(events), NEW i
    PROVE  Net(events, m, i) \in Int
<1>1. PICK f : f = [n \in 1 .. m |-> Change(events[n], i)]
  OBVIOUS
<1>2. \A n \in 1 .. m : events[n] \in Event
  OBVIOUS
<1>3. f \in [1 .. m -> Int]
  BY <1>1, <1>2, ChangeIsInt
<1>4. IsFiniteSet(1 .. m)
  BY FS_Interval
<1> QED
  BY <1>1, <1>3, <1>4, SumIsInt DEF Net

LEMMA NetOfPrefix ==
    ASSUME NEW events, NEW others, NEW m, NEW i, \A n \in 1 .. m : events[n] = others[n]
    PROVE  Net(events, m, i) = Net(others, m, i)
<1>1. [n \in 1 .. m |-> Change(events[n], i)] = [n \in 1 .. m |-> Change(others[n], i)]
  OBVIOUS
<1> QED
  BY <1>1, Zenon DEF Net

LEMMA NetUntouched ==
    ASSUME NEW events \in Seq(Event), NEW m \in 0 .. Len(events), NEW i,
           \A n \in 1 .. m : ~Touches(events[n], i)
    PROVE  Net(events, m, i) = 0
<1> DEFINE T == {k \in Nat : k <= m => Net(events, k, i) = 0}
<1>1. 0 \in T
  BY NetStart
<1>2. ASSUME NEW k \in Nat, k \in T PROVE k + 1 \in T
  <2> SUFFICES ASSUME k + 1 <= m PROVE Net(events, k + 1, i) = 0
    OBVIOUS
  <2>1. k \in 0 .. Len(events) - 1 /\ k + 1 \in 1 .. m /\ Net(events, k, i) = 0
    BY <1>2
  <2> HIDE DEF T
  <2>2. Net(events, k + 1, i) = Change(events[k + 1], i) + Net(events, k, i)
    BY <2>1, NetStep
  <2>3. Change(events[k + 1], i) = 0
    BY <2>1, UntouchedChange
  <2> QED
    BY <2>1, <2>2, <2>3
<1>3. Nat \subseteq T
  <2> HIDE DEF T
  <2> QED
    BY <1>1, <1>2, SetInduction
<1>4. m \in T /\ m <= m
  BY <1>3
<1> QED
  BY <1>4

(* What the state calls the net of an invoice is that of its whole log.    *)
LEMMA NetOfLog ==
    ASSUME log \in Seq(Event), NEW i PROVE NetAllocated(i) = Net(log, Len(log), i)
<1>1. DOMAIN log = 1 .. Len(log)
  OBVIOUS
<1>2. \A n : Delta(n, i) = Change(log[n], i)
  BY Zenon DEF Delta, Change
<1>3. [n \in DOMAIN log |-> Delta(n, i)] = [n \in 1 .. Len(log) |-> Change(log[n], i)]
  BY <1>1, <1>2, Zenon
<1> QED
  BY <1>3, Zenon DEF NetAllocated, Net

(* What a log is after one more event.                                     *)
LEMMA LogGrows ==
    ASSUME NEW events \in Seq(Event), NEW e \in Event, NEW i
    PROVE  /\ Append(events, e) \in Seq(Event)
           /\ Len(Append(events, e)) = Len(events) + 1
           /\ \A n \in 1 .. Len(events) : Append(events, e)[n] = events[n]
           /\ Append(events, e)[Len(events) + 1] = e
           /\ \A m \in 0 .. Len(events) : Net(Append(events, e), m, i) = Net(events, m, i)
           /\ Net(Append(events, e), Len(events) + 1, i) = Change(e, i) + Net(events, Len(events), i)
<1>1. PICK more : more = Append(events, e)
  OBVIOUS
<1>2. /\ more \in Seq(Event) /\ Len(more) = Len(events) + 1
      /\ \A n \in 1 .. Len(events) : more[n] = events[n]
      /\ more[Len(events) + 1] = e
  BY <1>1
<1>3. ASSUME NEW m \in 0 .. Len(events) PROVE Net(more, m, i) = Net(events, m, i)
  <2>1. \A n \in 1 .. m : more[n] = events[n]
    BY <1>2
  <2> QED
    BY <2>1, NetOfPrefix
<1>4. Len(events) \in 0 .. Len(more) - 1 /\ Len(events) \in 0 .. Len(events)
  BY <1>2
<1>5. Net(more, Len(events) + 1, i) = Change(more[Len(events) + 1], i) + Net(more, Len(events), i)
  BY <1>2, <1>4, NetStep
<1>6. Net(more, Len(events) + 1, i) = Change(e, i) + Net(events, Len(events), i)
  BY <1>2, <1>3, <1>4, <1>5
<1> QED
  BY <1>1, <1>2, <1>3, <1>6, Zenon

-----------------------------------------------------------------------------
(* What the steps do, in the terms of the invariants: each action, with    *)
(* what its guard and the validator's say of the state it starts from.     *)
WritesInvoice(i, inv) ==
    /\ afterCommit = <<>>
    /\ invoices' = [invoices EXCEPT ![i] = inv]
    /\ \A j \in Invoice : /\ invoices'[j].paid <= invoices'[j].total
                          /\ invoices'[j].due = invoices'[j].total - invoices'[j].paid
    /\ UNCHANGED <<payments, allocations, afterCommit, reconciled, receivables, overAllocated>>

Edits(i, inv) ==
    /\ WritesInvoice(i, inv)
    /\ invoices[i].status \in {"absent", "draft"}
    /\ inv.status = "draft" /\ inv.paid = 0
    /\ UNCHANGED log

IssuesOrVoids(i, inv) ==
    /\ WritesInvoice(i, inv)
    /\ inv.total = invoices[i].total /\ inv.paid = 0 /\ invoices[i].paid = 0
    /\ \/ /\ inv.status = "issued" /\ invoices[i].status \in {"draft", "issued", "paid"}
          /\ log' = Append(log, [type |-> "issued", invoice |-> i, total |-> inv.total])
       \/ /\ inv.status = "void" /\ inv.total = 0
          /\ invoices[i].status \in {"draft", "issued", "void"}
          /\ log' = Append(log, [type |-> "voided", invoice |-> i])

PaysWithin(p) ==
    /\ afterCommit = <<>>
    /\ payments' \in [Payment -> PaymentRecord]
    /\ PaymentsValid(payments', allocations')
    /\ overAllocated' = (overAllocated \/ \E i \in Invoice : AllocatedTo(allocations', i) > invoices[i].total)
    /\ UNCHANGED <<invoices, reconciled, receivables>>

Records(p) == PaysWithin(p) /\ UNCHANGED <<allocations, log, afterCommit>>

Allocates(p, new) ==
    /\ PaysWithin(p)
    /\ \A a \in new : /\ a.payment = p /\ TakesAllocations(a.invoice)
                      /\ a.amount <= Outstanding(a.invoice)
    /\ new \cap allocations = {}
    /\ allocations' = allocations \union new
    /\ afterCommit' = << [type |-> "allocated", changes |-> new] >>
    /\ UNCHANGED log

Refunds(p, removed) ==
    /\ PaysWithin(p)
    /\ allocations' = allocations \ removed
    /\ log' = Append(log, [type |-> "refunded", changes |-> removed])
    /\ UNCHANGED afterCommit

Reconciles(n, written) ==
    /\ Moves(n)
    /\ \A i \in written : i \in Invoice /\ TakesAllocations(i)
    /\ \/ /\ \A i \in Billed : Touches(log[n], i) => i \in written
          /\ reconciled' = reconciled \union {n}
       \/ UNCHANGED reconciled
    /\ invoices' = [i \in Invoice |-> IF i \in written THEN Reconciled(i) ELSE invoices[i]]
    /\ UNCHANGED <<payments, allocations, log, afterCommit, receivables, overAllocated>>

LEMMA RecalculatedType ==
    ASSUME NEW inv \in InvoiceRecord, NEW lines \in Seq(Price), NEW d \in Discount \union {0}
    PROVE  /\ Recalculated(inv, lines, d) \in InvoiceRecord
           /\ Recalculated(inv, lines, d).status = inv.status
           /\ Recalculated(inv, lines, d).paid = inv.paid
<1>1. d \in Nat /\ inv.paid \in Nat /\ inv.total \in Nat /\ inv.due \in Nat
  BY AmountsAreMinorUnits DEF InvoiceRecord
<1>2. SumFunction(lines) \in Nat
  <2>1. lines \in [1 .. Len(lines) -> Nat]
    <3>1. lines \in [1 .. Len(lines) -> Price] /\ \A k \in 1 .. Len(lines) : lines[k] \in Price
      OBVIOUS
    <3>2. \A x \in Price : x \in Nat
      BY AmountsAreMinorUnits
    <3> QED
      BY <3>1, <3>2
  <2>2. IsFiniteSet(1 .. Len(lines))
    BY FS_Interval
  <2> QED
    BY <2>1, <2>2, SumIsNat
<1> DEFINE total == Larger(0, SumFunction(lines) - d)
<1>3. total \in Nat
  BY <1>1, <1>2 DEF Larger
<1> HIDE DEF total
<1>4. Larger(0, total - inv.paid) \in Nat
  BY <1>1, <1>3 DEF Larger
<1> DEFINE due == Larger(0, total - inv.paid)
<1>5. Recalculated(inv, lines, d) = [inv EXCEPT !.lines = lines, !.discount = d,
                                          !.total = total, !.due = due]
  BY DEF Recalculated, total
<1>6. due \in Nat
  BY <1>4
<1> HIDE DEF due
<1> QED
  BY <1>3, <1>5, <1>6 DEF InvoiceRecord

LEMMA NoInvoiceType == NoInvoice \in InvoiceRecord /\ NoInvoice.paid = 0
<1>1. <<>> \in Seq(Price)
  OBVIOUS
<1> QED
  BY <1>1 DEF NoInvoice, InvoiceRecord, Transitions

LEMMA LogWithNothing ==
    ASSUME log \in Seq(Event) PROVE log \o <<>> = log
BY ConcatEmptySeq

LEMMA LogWithOne ==
    ASSUME log \in Seq(Event), NEW e \in Event PROVE log \o <<e>> = Append(log, e)
BY AppendIsConcat

(* A call of InvoicesService edits a draft, or issues or voids an invoice. *)
LEMMA DraftStep ==
    ASSUME TypeInv, StatusInv, NEW i \in Invoice, NEW inv \in InvoiceRecord,
           invoices[i].status \in {"absent", "draft"}, inv.status = "draft", inv.paid = 0,
           InvoiceCall(i, inv, <<>>)
    PROVE  Edits(i, inv)
<1>1. log' = log
  BY LogWithNothing DEF TypeInv, InvoiceCall
<1>2. WritesInvoice(i, inv)
  BY DEF InvoiceCall, LockIsFree, InvoicesValid, WritesInvoice
<1> QED
  BY <1>1, <1>2 DEF Edits

LEMMA InvoiceSteps ==
    ASSUME TypeInv, StatusInv, NEW i \in Invoice, InvoiceRequest(i)
    PROVE  \E inv \in InvoiceRecord : Edits(i, inv) \/ IssuesOrVoids(i, inv)
<1>1. /\ invoices[i] \in InvoiceRecord
      /\ invoices[i].lines \in Seq(Price) /\ invoices[i].discount \in Discount \union {0}
      /\ invoices[i].status \in DOMAIN Transitions
      /\ log \in Seq(Event)
      /\ invoices \in [Invoice -> InvoiceRecord]
  BY DEF TypeInv, InvoiceRecord
<1>2. /\ invoices[i].status \in {"absent", "draft", "issued"} => invoices[i].paid = 0
      /\ invoices[i].status = "void" => invoices[i].total = 0
  BY DEF StatusInv
<1>3. ASSUME NEW lines \in Seq(Price), NEW d \in Discount \union {0}, EditDraft(i, lines, d)
      PROVE  \E inv \in InvoiceRecord : Edits(i, inv)
  <2> DEFINE inv == Recalculated(invoices[i], lines, d)
  <2>1. inv \in InvoiceRecord /\ inv.status = "draft" /\ inv.paid = 0
    BY <1>1, <1>2, <1>3, RecalculatedType DEF EditDraft
  <2>2. InvoiceCall(i, inv, <<>>) /\ invoices[i].status = "draft"
    BY <1>3 DEF EditDraft
  <2> HIDE DEF inv
  <2>3. Edits(i, inv)
    BY <2>1, <2>2, DraftStep
  <2> QED
    BY <2>1, <2>3
<1>4. ASSUME NEW lines \in Lines, NEW d \in Discount, CreateInvoice(i, lines, d)
      PROVE  \E inv \in InvoiceRecord : Edits(i, inv)
  <2> DEFINE draft == [NoInvoice EXCEPT !.status = "draft"]
             inv == Recalculated(draft, lines, d)
  <2>1. lines \in Seq(Price)
    <3>1. PICK k \in 0 .. MaxLines : lines \in [1 .. k -> Price]
      BY <1>4 DEF Lines
    <3>2. k \in Nat
      BY <3>1, AmountsAreMinorUnits
    <3> QED
      BY <3>1, <3>2
  <2>2. draft \in InvoiceRecord /\ draft.status = "draft" /\ draft.paid = 0
    BY NoInvoiceType DEF InvoiceRecord, NoInvoice, Transitions
  <2>3. inv \in InvoiceRecord /\ inv.status = "draft" /\ inv.paid = 0
    <3> HIDE DEF draft
    <3> QED
      BY <2>1, <2>2, RecalculatedType
  <2>4. InvoiceCall(i, inv, <<>>) /\ invoices[i].status = "absent"
    BY <1>4 DEF CreateInvoice
  <2> HIDE DEF inv
  <2>5. Edits(i, inv)
    BY <2>3, <2>4, DraftStep
  <2> QED
    BY <2>3, <2>5
<1>5. ASSUME IssueInvoice(i) PROVE \E inv \in InvoiceRecord : IssuesOrVoids(i, inv)
  <2> DEFINE inv == [invoices[i] EXCEPT !.status = "issued", !.due = invoices[i].total]
             e == [type |-> "issued", invoice |-> i, total |-> inv.total]
  <2>1. /\ inv \in InvoiceRecord /\ inv.status = "issued" /\ inv.total = invoices[i].total
        /\ inv.paid = invoices[i].paid /\ inv.due = inv.total /\ inv.total \in Nat /\ inv.paid \in Nat
    BY <1>1 DEF InvoiceRecord, Transitions
  <2>2. e \in Event /\ << [type |-> "issued", invoice |-> i, total |-> invoices[i].total] >> = <<e>>
    BY <2>1 DEF Event, IssuedEvent
  <2>3. InvoiceCall(i, inv, <<e>>)
    BY <1>5, <2>2, Zenon DEF IssueInvoice
  <2>4. invoices[i].status \in {"draft", "issued", "paid"}
    BY <1>1, <1>5 DEF IssueInvoice, CanTransition, Transitions
  <2>5. log' = Append(log, e)
    <3> HIDE DEF e
    <3> QED
      BY <1>1, <2>2, <2>3, LogWithOne DEF InvoiceCall
  <2> HIDE DEF inv
  <2>6. WritesInvoice(i, inv)
    BY <2>3 DEF InvoiceCall, LockIsFree, InvoicesValid, WritesInvoice
  <2>7. inv.paid = 0
    <3>1. invoices'[i] = inv
      BY <1>1, <2>6 DEF WritesInvoice
    <3>2. inv.due = inv.total - inv.paid
      BY <2>6, <3>1 DEF WritesInvoice
    <3> QED
      BY <2>1, <3>2
  <2> QED
    BY <2>1, <2>4, <2>5, <2>6, <2>7 DEF IssuesOrVoids
<1>6. ASSUME VoidInvoice(i) PROVE \E inv \in InvoiceRecord : IssuesOrVoids(i, inv)
  <2> DEFINE inv == [invoices[i] EXCEPT !.status = "void", !.due = 0]
             e == [type |-> "voided", invoice |-> i]
  <2>1. /\ inv \in InvoiceRecord /\ inv.status = "void" /\ inv.total = invoices[i].total
        /\ inv.paid = invoices[i].paid /\ inv.due = 0 /\ inv.total \in Nat /\ inv.paid \in Nat
    BY <1>1 DEF InvoiceRecord, Transitions
  <2>2. e \in Event
    BY DEF Event, VoidedEvent
  <2>3. InvoiceCall(i, inv, <<e>>)
    BY <1>6, Zenon DEF VoidInvoice
  <2>4. invoices[i].status \in {"draft", "issued", "void"}
    BY <1>1, <1>6 DEF VoidInvoice, CanTransition, Transitions
  <2>5. log' = Append(log, e)
    <3> HIDE DEF e
    <3> QED
      BY <1>1, <2>2, <2>3, LogWithOne DEF InvoiceCall
  <2> HIDE DEF inv
  <2>6. WritesInvoice(i, inv)
    BY <2>3 DEF InvoiceCall, LockIsFree, InvoicesValid, WritesInvoice
  <2>7. inv.total = inv.paid
    <3>1. invoices'[i] = inv
      BY <1>1, <2>6 DEF WritesInvoice
    <3>2. inv.due = inv.total - inv.paid
      BY <2>6, <3>1 DEF WritesInvoice
    <3> QED
      BY <2>1, <3>2
  <2>8. inv.total = 0 /\ inv.paid = 0
    BY <1>2, <2>1, <2>4, <2>7
  <2> QED
    BY <2>1, <2>4, <2>5, <2>6, <2>8 DEF IssuesOrVoids
<1>7. ASSUME NEW d \in Discount, UpdateInvoice(i, d)
      PROVE  \E inv \in InvoiceRecord : Edits(i, inv)
  BY <1>1, <1>3, <1>7 DEF UpdateInvoice
<1>8. ASSUME NEW price \in Price, AddLine(i, price)
      PROVE  \E inv \in InvoiceRecord : Edits(i, inv)
  <2>1. Append(invoices[i].lines, price) \in Seq(Price)
    BY <1>1
  <2> QED
    BY <1>1, <1>3, <1>8, <2>1 DEF AddLine
<1>9. ASSUME NEW k \in 1 .. Len(invoices[i].lines), RemoveLine(i, k)
      PROVE  \E inv \in InvoiceRecord : Edits(i, inv)
  <2>1. RemoveAt(invoices[i].lines, k) \in Seq(Price)
    BY <1>1, RemoveAtPlaces
  <2> QED
    BY <1>1, <1>3, <1>9, <2>1 DEF RemoveLine
<1> QED
  BY <1>4, <1>5, <1>6, <1>7, <1>8, <1>9 DEF InvoiceRequest

(* A call of PaymentsService records a payment, allocates of it or voids   *)
(* it; what it allocates is new and fits.                                  *)
LEMMA RequestedAllocations ==
    ASSUME TypeInv, NEW p \in Payment, NEW items \in Items, NoDuplicate(p, items),
           NEW pay, ItemsFit(pay, p, items),
           NEW new, new = {ToAllocation(p, item) : item \in ToSet(items)}
    PROVE  /\ new \in Changes /\ new \cap allocations = {}
           /\ \A a \in new : /\ a.payment = p /\ TakesAllocations(a.invoice)
                             /\ a.amount <= Outstanding(a.invoice)
<1>1. PICK k \in 0 .. MaxItems : items \in [1 .. k -> Item]
  BY DEF Items
<1>2. /\ \A n \in 1 .. k : ToAllocation(p, items[n]) \in new
      /\ \A a \in new : \E n \in 1 .. k : a = ToAllocation(p, items[n])
  BY <1>1 DEF ToSet
<1>3. IsFiniteSet(new)
  <2>1. IsFiniteSet(1 .. k)
    BY FS_Interval
  <2>2. [n \in 1 .. k |-> ToAllocation(p, items[n])] \in Surjection(1 .. k, new)
    BY <1>2 DEF Surjection
  <2> QED
    BY <2>1, <2>2, FS_Surjection
<1>4. \A n \in 1 .. k : /\ ToAllocation(p, items[n]) \in Allocation
                        /\ ToAllocation(p, items[n]).payment = p
                        /\ ToAllocation(p, items[n]).invoice = items[n].invoice
                        /\ ToAllocation(p, items[n]).amount = items[n].amount
  BY <1>1 DEF ToAllocation, Item, Allocation
<1>5. \A n \in 1 .. k : /\ TakesAllocations(items[n].invoice)
                        /\ items[n].amount <= Outstanding(items[n].invoice)
  BY <1>1 DEF ItemsFit
<1>6. \A n \in 1 .. k : ToAllocation(p, items[n]) \notin allocations
  BY <1>1 DEF NoDuplicate
<1>8. new \subseteq Allocation
  BY <1>2, <1>4
<1>9. new \cap allocations = {}
  BY <1>2, <1>6
<1>10. ASSUME NEW a \in new
       PROVE  /\ a.payment = p /\ TakesAllocations(a.invoice)
              /\ a.amount <= Outstanding(a.invoice)
  <2>1. PICK n \in 1 .. k : a = ToAllocation(p, items[n])
    BY <1>2
  <2>2. a.payment = p /\ a.invoice = items[n].invoice /\ a.amount = items[n].amount
    BY <1>4, <2>1
  <2> QED
    BY <1>5, <2>2
<1> QED
  BY <1>3, <1>8, <1>9, <1>10 DEF Changes

LEMMA PaymentFields ==
    ASSUME NEW pay \in PaymentRecord, NEW allocated \in Nat, NEW unallocated \in Int
    PROVE  /\ [pay EXCEPT !.allocated = allocated, !.unallocated = unallocated] \in UncheckedPayment
           /\ [pay EXCEPT !.status = "void", !.allocated = allocated, !.unallocated = unallocated]
                \in UncheckedPayment
BY DEF PaymentRecord, UncheckedPayment

LEMMA BooksOfPayment ==
    ASSUME TypeInv, NEW p \in Payment, NEW allocs \in Changes,
           NEW pay \in UncheckedPayment, NEW events, NEW later,
           PaymentCall([payments EXCEPT ![p] = pay], allocs, events, later)
    PROVE  PaysWithin(p)
<1>1. payments \in [Payment -> PaymentRecord]
  BY DEF TypeInv
<1>2. /\ payments' = [payments EXCEPT ![p] = pay] /\ allocations' = allocs
      /\ PaymentsValid(payments', allocs)
  BY DEF PaymentCall
<1>3. payments'[p] = pay
  BY <1>1, <1>2
<1>4. pay.unallocated >= 0
  BY <1>2, <1>3 DEF PaymentsValid
<1>5. pay \in PaymentRecord
  BY <1>4 DEF PaymentRecord, UncheckedPayment
<1>6. payments' \in [Payment -> PaymentRecord]
  BY <1>1, <1>2, <1>5
<1> QED
  BY <1>2, <1>6, Zenon DEF PaymentCall, PaysWithin, LockIsFree

LEMMA PaymentSteps ==
    ASSUME TypeInv, NEW p \in Payment, PaymentRequest(p)
    PROVE  \/ Records(p)
           \/ \E new \in Changes : Allocates(p, new)
           \/ \E removed \in SUBSET allocations : Refunds(p, removed)
<1>1. /\ payments[p] \in PaymentRecord /\ allocations \in Changes /\ log \in Seq(Event)
      /\ \A x \in Received : x \in Nat
  BY AmountsAreMinorUnits DEF TypeInv
<1>2. ASSUME NEW pay \in PaymentRecord, NEW items \in Items, AllocateItems(pay, p, items)
      PROVE  \E new \in Changes : Allocates(p, new)
  <2>1. PICK new : new = {ToAllocation(p, item) : item \in ToSet(items)}
    OBVIOUS
  <2>2. PICK allocs : allocs = allocations \union new
    OBVIOUS
  <2> DEFINE sum == AllocatedOf(allocs, p)
             paid == [pay EXCEPT !.allocated = sum, !.unallocated = pay.received - sum]
  <2>3. /\ ItemsFit(pay, p, items) /\ NoDuplicate(p, items)
        /\ PaymentCall([payments EXCEPT ![p] = paid], allocs, <<>>,
                       << [type |-> "allocated", changes |-> new] >>)
    BY <1>2, <2>1, <2>2, Zenon DEF AllocateItems
  <2>4. /\ new \in Changes /\ new \cap allocations = {}
        /\ \A a \in new : /\ a.payment = p /\ TakesAllocations(a.invoice)
                          /\ a.amount <= Outstanding(a.invoice)
    BY <2>1, <2>3, RequestedAllocations
  <2>5. allocs \in Changes
    BY <1>1, <2>2, <2>4, FS_Union DEF Changes
  <2>6. sum \in Nat
    BY <2>5, AllocatedOfIsNat
  <2>7. paid \in UncheckedPayment
    <3>1. pay.received \in Int
      BY DEF PaymentRecord
    <3> HIDE DEF sum
    <3>2. pay.received - sum \in Int
      BY <2>6, <3>1
    <3> QED
      BY <2>6, <3>2, PaymentFields
  <2> HIDE DEF paid, sum
  <2>8. PaysWithin(p)
    BY <2>3, <2>5, <2>6, <2>7, BooksOfPayment
  <2>9. log' = log
    BY <1>1, <2>3, LogWithNothing DEF PaymentCall
  <2>10. Allocates(p, new)
    BY <2>2, <2>3, <2>4, <2>8, <2>9, Zenon DEF PaymentCall, Allocates
  <2> QED
    BY <2>4, <2>10
<1>3. ASSUME NEW received \in Received, NEW items \in Items, CreatePayment(p, received, items)
      PROVE  Records(p) \/ \E new \in Changes : Allocates(p, new)
  <2>1. PICK pay : pay = [status |-> "recorded", received |-> received,
                          allocated |-> 0, unallocated |-> received]
    OBVIOUS
  <2>2. pay \in PaymentRecord
    BY <1>1, <2>1 DEF PaymentRecord
  <2>3. CASE AllocateItems(pay, p, items)
    BY <1>2, <2>2, <2>3
  <2>4. CASE PaymentCall([payments EXCEPT ![p] = pay], allocations, <<>>, <<>>)
    <3>1. PaysWithin(p)
      BY <1>1, <2>1, <2>2, <2>4, BooksOfPayment DEF PaymentRecord, UncheckedPayment
    <3>2. log' = log
      BY <1>1, <2>4, LogWithNothing DEF PaymentCall
    <3> QED
      BY <2>4, <3>1, <3>2 DEF PaymentCall, LockIsFree, Records
  <2> QED
    BY <1>3, <2>1, <2>3, <2>4, Zenon DEF CreatePayment
<1>4. ASSUME VoidPayment(p) PROVE \E removed \in SUBSET allocations : Refunds(p, removed)
  <2> DEFINE pay == [payments[p] EXCEPT !.status = "void", !.allocated = 0,
                                        !.unallocated = payments[p].received]
  <2>1. PICK removed : removed = {a \in allocations : a.payment = p}
    OBVIOUS
  <2>2. PICK e : e = [type |-> "refunded", changes |-> removed]
    OBVIOUS
  <2>3. PaymentCall([payments EXCEPT ![p] = pay], allocations \ removed, <<e>>, <<>>)
    BY <1>4, <2>1, <2>2, Zenon DEF VoidPayment
  <2>4. removed \in SUBSET allocations /\ removed \in Changes /\ allocations \ removed \in Changes
    BY <1>1, <2>1, Amounts
  <2>5. e \in Event
    BY <2>2, <2>4 DEF Event, MoveEvent
  <2>6. pay \in UncheckedPayment
    <3>1. payments[p].received \in Int
      BY <1>1 DEF PaymentRecord
    <3> QED
      BY <1>1, <3>1, PaymentFields
  <2> HIDE DEF pay
  <2>7. PaysWithin(p)
    BY <2>3, <2>4, <2>6, BooksOfPayment
  <2>8. log' = Append(log, e)
    BY <1>1, <2>3, <2>5, LogWithOne DEF PaymentCall
  <2>9. allocations' = allocations \ removed /\ UNCHANGED afterCommit
    BY <2>3 DEF PaymentCall, LockIsFree
  <2>10. Refunds(p, removed)
    BY <2>2, <2>7, <2>8, <2>9 DEF Refunds
  <2> QED
    BY <2>4, <2>10
<1>5. ASSUME NEW items \in Items, AllocatePayment(p, items)
      PROVE  \E new \in Changes : Allocates(p, new)
  BY <1>1, <1>2, <1>5 DEF AllocatePayment
<1> QED
  BY <1>3, <1>4, <1>5, Zenon DEF PaymentRequest

(* One attempt of the payment state projection at an event.                *)
LEMMA ReconcileSteps ==
    ASSUME TypeInv, NEW n \in DOMAIN log, ReconcilePaymentAllocations(n)
    PROVE  \E written \in SUBSET Invoice : Reconciles(n, written)
<1> DEFINE touched == {i \in {a.invoice : a \in log[n].changes} :
                         invoices[i].status \notin {"absent", "draft", "void"}}
           throwing == {i \in touched : AnnouncingFails(i)}
<1>1. Moves(n)
  BY DEF ReconcilePaymentAllocations
<1>2. log[n] \in Event /\ log[n].changes \in Changes
  BY <1>1 DEF TypeInv, Event, IssuedEvent, VoidedEvent, MoveEvent, Moves
<1>3. touched \subseteq Invoice /\ \A i \in touched : TakesAllocations(i)
  BY <1>2, Amounts DEF TakesAllocations
<1>4. \A i \in Billed : Touches(log[n], i) => i \in touched
  BY DEF Billed, TakesAllocations, Touches
<1>5. PICK written \in SUBSET touched :
        /\ \/ written = touched /\ reconciled' = reconciled \union {n}
           \/ UNCHANGED reconciled
        /\ invoices' = [i \in Invoice |-> IF i \in written THEN Reconciled(i) ELSE invoices[i]]
        /\ UNCHANGED <<payments, allocations, log, afterCommit, receivables, overAllocated>>
  BY Zenon DEF ReconcilePaymentAllocations
<1> HIDE DEF touched
<1>6. written \in SUBSET Invoice /\ \A i \in written : i \in Invoice /\ TakesAllocations(i)
  BY <1>3, <1>5
<1>7. Reconciles(n, written)
  BY <1>1, <1>4, <1>5, <1>6 DEF Reconciles
<1> QED
  BY <1>6, <1>7

(* What the payment state projection writes to an invoice.                 *)
LEMMA ReconciledType ==
    ASSUME TypeInv, NEW i \in Invoice
    PROVE  /\ Reconciled(i) \in InvoiceRecord
           /\ Reconciled(i).total = invoices[i].total
           /\ Reconciled(i).paid = PaidOf(i)
           /\ Reconciled(i).paid <= Reconciled(i).total
           /\ Reconciled(i).due = Reconciled(i).total - Reconciled(i).paid
           /\ Reconciled(i).status \in {"paid", "partially_paid", "issued"}
           /\ Reconciled(i).status = "issued" => Reconciled(i).paid = 0
           /\ Reconciled(i).status = "paid" => Reconciled(i).due = 0
<1>1. invoices[i] \in InvoiceRecord /\ invoices[i].total \in Nat /\ log \in Seq(Event)
  BY DEF TypeInv, InvoiceRecord
<1>2. NetAllocated(i) \in Int
  <2>1. Len(log) \in 0 .. Len(log)
    BY <1>1
  <2> QED
    BY <1>1, <2>1, NetOfLog, NetIsInt
<1>3. PaidOf(i) \in Nat /\ PaidOf(i) <= invoices[i].total
  BY <1>1, <1>2 DEF PaidOf, Smaller, Larger
<1> DEFINE paid == PaidOf(i)
           due == Larger(0, invoices[i].total - paid)
           status == IF due = 0 THEN "paid" ELSE IF paid > 0 THEN "partially_paid" ELSE "issued"
<1>4. Reconciled(i) = [invoices[i] EXCEPT !.paid = paid, !.due = due, !.status = status]
  BY Zenon DEF Reconciled
<1>5. /\ paid \in Nat /\ paid <= invoices[i].total
      /\ due \in Nat /\ due = invoices[i].total - paid
  BY <1>1, <1>3 DEF Larger
<1> HIDE DEF paid, due
<1>6. /\ status \in {"paid", "partially_paid", "issued"}
      /\ status = "issued" => paid = 0
      /\ status = "paid" => due = 0
  BY <1>5
<1> HIDE DEF status
<1>7. /\ [invoices[i] EXCEPT !.paid = paid, !.due = due, !.status = status] \in InvoiceRecord
      /\ Reconciled(i).paid = paid /\ Reconciled(i).due = due /\ Reconciled(i).status = status
      /\ Reconciled(i).total = invoices[i].total
  BY <1>1, <1>4, <1>5, <1>6 DEF InvoiceRecord, Transitions
<1> QED
  BY <1>4, <1>5, <1>6, <1>7 DEF paid

(* One step of the AR projections.                                         *)
LEMMA ProjectSteps ==
    ASSUME TypeInv, NEW n \in DOMAIN log,
           ApplyInvoiceIssued(n) \/ ApplyPaymentAllocated(n) \/ ApplyInvoiceVoided(n)
    PROVE  /\ positions' \in [Invoice -> Position]
           /\ projected' = projected \union {n}
           /\ inOrder' = (inOrder /\ 1 .. n - 1 \subseteq projected)
           /\ UNCHANGED <<books, log, afterCommit, reconciled, overAllocated>>
<1>1. positions \in [Invoice -> Position] /\ log[n] \in Event
  BY DEF TypeInv
<1>2. \A i \in Invoice : /\ positions[i].status \in {"absent", "open", "closed", "void"}
                         /\ positions[i].total \in Nat /\ positions[i].open \in Nat
                         /\ positions[i] \in Position
  BY <1>1 DEF Position
<1>3. ASSUME ApplyInvoiceIssued(n)
      PROVE  positions' \in [Invoice -> Position] /\ Project(n, positions')
  <2>1. log[n].invoice \in Invoice /\ log[n].total \in Nat
    BY <1>1, <1>3 DEF ApplyInvoiceIssued, Event, IssuedEvent, VoidedEvent, MoveEvent
  <2> DEFINE base == IF positions[log[n].invoice].status = "absent" THEN log[n].total
                     ELSE positions[log[n].invoice].open
             new == [total |-> log[n].total, open |-> Larger(0, Smaller(log[n].total, base)),
                     status |-> IF base <= 0 THEN "closed" ELSE "open"]
  <2>2. Project(n, [positions EXCEPT ![log[n].invoice] = new])
    BY <1>3, Zenon DEF ApplyInvoiceIssued
  <2>3. base \in Nat
    BY <1>2, <2>1
  <2>4. new \in Position
    <3> HIDE DEF base
    <3>1. Larger(0, Smaller(log[n].total, base)) \in Nat
      BY <2>1, <2>3 DEF Larger, Smaller
    <3> QED
      BY <2>1, <3>1 DEF Position
  <2> HIDE DEF new
  <2>5. positions' = [positions EXCEPT ![log[n].invoice] = new]
    BY <2>2 DEF Project
  <2> QED
    BY <1>1, <2>1, <2>2, <2>4, <2>5
<1>4. ASSUME ApplyPaymentAllocated(n)
      PROVE  positions' \in [Invoice -> Position] /\ Project(n, positions')
  <2> DEFINE touched == {a.invoice : a \in log[n].changes}
             open(i) == Larger(0, Smaller(positions[i].total, positions[i].open - Delta(n, i)))
             new(i) == IF i \in touched /\ positions[i].status \notin {"absent", "void"}
                       THEN [positions[i] EXCEPT !.open = open(i),
                                 !.status = IF open(i) = 0 THEN "closed" ELSE "open"]
                       ELSE positions[i]
  <2>1. Project(n, [i \in Invoice |-> new(i)])
    BY <1>4, Zenon DEF ApplyPaymentAllocated
  <2>2. ASSUME NEW i \in Invoice PROVE new(i) \in Position
    <3>1. Delta(n, i) \in Int
      BY <1>1, ChangeIsInt DEF Delta, Change
    <3>2. open(i) \in Nat
      BY <1>2, <3>1 DEF Larger, Smaller
    <3> HIDE DEF open, touched
    <3> QED
      BY <1>2, <3>2 DEF Position
  <2> HIDE DEF new
  <2>3. positions' = [i \in Invoice |-> new(i)]
    BY <2>1 DEF Project
  <2> QED
    BY <2>1, <2>2, <2>3
<1>5. ASSUME ApplyInvoiceVoided(n)
      PROVE  positions' \in [Invoice -> Position] /\ Project(n, positions')
  <2>1. log[n].invoice \in Invoice
    BY <1>1, <1>5 DEF ApplyInvoiceVoided, Event, IssuedEvent, VoidedEvent, MoveEvent
  <2> DEFINE i == log[n].invoice
             pos == IF positions[i].status = "absent" THEN positions
                    ELSE [positions EXCEPT ![i].open = 0, ![i].status = "void"]
  <2>2. Project(n, pos)
    BY <1>5, Zenon DEF ApplyInvoiceVoided
  <2>3. pos \in [Invoice -> Position]
    BY <1>1, <1>2, <2>1 DEF Position
  <2> QED
    BY <2>2, <2>3 DEF Project
<1>6. positions' \in [Invoice -> Position] /\ Project(n, positions')
  BY <1>3, <1>4, <1>5
<1> QED
  BY <1>6 DEF Project

(* Every step is one of these.                                             *)
LEMMA Steps ==
    ASSUME TypeInv, StatusInv, [Next]_vars
    PROVE  \/ UNCHANGED vars
           \/ \E i \in Invoice, inv \in InvoiceRecord : Edits(i, inv)
           \/ \E i \in Invoice, inv \in InvoiceRecord : IssuesOrVoids(i, inv)
           \/ \E p \in Payment : Records(p)
           \/ \E p \in Payment, new \in Changes : Allocates(p, new)
           \/ \E p \in Payment, removed \in SUBSET allocations : Refunds(p, removed)
           \/ LogAllocated
           \/ \E n \in DOMAIN log, written \in SUBSET Invoice : Reconciles(n, written)
           \/ \E n \in DOMAIN log :
                ApplyInvoiceIssued(n) \/ ApplyPaymentAllocated(n) \/ ApplyInvoiceVoided(n)
<1>1. CASE UNCHANGED vars
  BY <1>1
<1>2. ASSUME NEW i \in Invoice, InvoiceRequest(i)
      PROVE  \E inv \in InvoiceRecord : Edits(i, inv) \/ IssuesOrVoids(i, inv)
  BY <1>2, InvoiceSteps
<1>3. ASSUME NEW p \in Payment, PaymentRequest(p)
      PROVE  \/ Records(p)
             \/ \E new \in Changes : Allocates(p, new)
             \/ \E removed \in SUBSET allocations : Refunds(p, removed)
  BY <1>3, PaymentSteps
<1>4. ASSUME NEW n \in DOMAIN log, ReconcilePaymentAllocations(n)
      PROVE  \E written \in SUBSET Invoice : Reconciles(n, written)
  BY <1>4, ReconcileSteps
<1> QED
  BY <1>1, <1>2, <1>3, <1>4, Zenon DEF Next, Delivery

-----------------------------------------------------------------------------
(* The invariant of the services' books and of the payment state           *)
(* projection, kept conjunct by conjunct.                                  *)
CoreInv == TypeInv /\ StatusInv /\ BooksBalance /\ ChargedInv /\ OneEachInv /\ NetInv /\ PaidInv

LEMMA InvoiceFields ==
    ASSUME NEW inv \in InvoiceRecord
    PROVE  inv.total \in Nat /\ inv.paid \in Nat /\ inv.due \in Nat /\ inv.status \in DOMAIN Transitions
BY DEF InvoiceRecord

LEMMA ReceivablesKept ==
    ASSUME UNCHANGED receivables
    PROVE  UNCHANGED positions /\ UNCHANGED projected /\ UNCHANGED inOrder
BY DEF receivables

LEMMA LogKept ==
    ASSUME TypeInv, NEW e \in Event, log' = log \/ log' = Append(log, e)
    PROVE  /\ log' \in Seq(Event)
           /\ \A n \in DOMAIN log : n \in DOMAIN log' /\ log'[n] = log[n]
           /\ reconciled \subseteq {n \in DOMAIN log' : Moves(n)'}
           /\ projected \subseteq DOMAIN log'
<1>1. log \in Seq(Event) /\ reconciled \subseteq {n \in DOMAIN log : Moves(n)} /\ projected \subseteq DOMAIN log
  BY DEF TypeInv
<1>2. log' \in Seq(Event) /\ \A n \in DOMAIN log : n \in DOMAIN log' /\ log'[n] = log[n]
  BY <1>1
<1> QED
  BY <1>1, <1>2 DEF Moves

LEMMA TypeStep ==
    ASSUME TypeInv, StatusInv, [Next]_vars PROVE TypeInv'
<1>1. /\ invoices \in [Invoice -> InvoiceRecord] /\ payments \in [Payment -> PaymentRecord]
      /\ allocations \in Changes /\ log \in Seq(Event)
      /\ positions \in [Invoice -> Position] /\ projected \subseteq DOMAIN log
      /\ inOrder \in BOOLEAN /\ overAllocated \in BOOLEAN
      /\ reconciled \subseteq {n \in DOMAIN log : Moves(n)}
      /\ \/ afterCommit = <<>>
         \/ \E c \in Changes : afterCommit = << [type |-> "allocated", changes |-> c] >>
  BY DEF TypeInv
<1>2. PICK e \in Event : TRUE
  <2>1. [type |-> "allocated", changes |-> allocations] \in Event
    BY <1>1 DEF Event, MoveEvent
  <2> QED
    BY <2>1
<1>3. CASE UNCHANGED vars
  BY <1>1, <1>3 DEF TypeInv, vars, books, receivables, Moves
<1>4. ASSUME NEW i \in Invoice, NEW inv \in InvoiceRecord, Edits(i, inv) PROVE TypeInv'
  <2>1. invoices' = [invoices EXCEPT ![i] = inv] /\ invoices' \in [Invoice -> InvoiceRecord]
    BY <1>1, <1>4 DEF Edits, WritesInvoice
  <2>2. UNCHANGED <<payments, allocations, log, afterCommit, reconciled, positions, projected,
                    inOrder, overAllocated>>
    BY <1>4, ReceivablesKept DEF Edits, WritesInvoice
  <2> QED
    BY <1>1, <2>1, <2>2 DEF TypeInv, Moves
<1>5. ASSUME NEW i \in Invoice, NEW inv \in InvoiceRecord, IssuesOrVoids(i, inv) PROVE TypeInv'
  <2>1. invoices' = [invoices EXCEPT ![i] = inv] /\ invoices' \in [Invoice -> InvoiceRecord]
    BY <1>1, <1>5 DEF IssuesOrVoids, WritesInvoice
  <2>2. UNCHANGED <<payments, allocations, afterCommit, reconciled, positions, projected,
                    inOrder, overAllocated>>
    BY <1>5, ReceivablesKept DEF IssuesOrVoids, WritesInvoice
  <2>3. \E x \in Event : log' = Append(log, x)
    <3>1. [type |-> "issued", invoice |-> i, total |-> inv.total] \in Event
      BY InvoiceFields DEF Event, IssuedEvent
    <3>2. [type |-> "voided", invoice |-> i] \in Event
      BY DEF Event, VoidedEvent
    <3> QED
      BY <1>5, <3>1, <3>2 DEF IssuesOrVoids
  <2>4. /\ log' \in Seq(Event) /\ reconciled \subseteq {n \in DOMAIN log' : Moves(n)'}
        /\ projected \subseteq DOMAIN log'
    BY <2>3, LogKept
  <2> QED
    BY <1>1, <2>1, <2>2, <2>4 DEF TypeInv
<1>6. ASSUME NEW p \in Payment, Records(p) PROVE TypeInv'
  <2>1. payments' \in [Payment -> PaymentRecord] /\ overAllocated' \in BOOLEAN
    BY <1>1, <1>6 DEF Records, PaysWithin
  <2>2. UNCHANGED <<invoices, allocations, log, afterCommit, reconciled, positions, projected, inOrder>>
    BY <1>6, ReceivablesKept DEF Records, PaysWithin
  <2> QED
    BY <1>1, <2>1, <2>2 DEF TypeInv, Moves
<1>7. ASSUME NEW p \in Payment, NEW new \in Changes, Allocates(p, new) PROVE TypeInv'
  <2>1. payments' \in [Payment -> PaymentRecord] /\ overAllocated' \in BOOLEAN
    BY <1>1, <1>7 DEF Allocates, PaysWithin
  <2>2. UNCHANGED <<invoices, log, reconciled, positions, projected, inOrder>>
    BY <1>7, ReceivablesKept DEF Allocates, PaysWithin
  <2>3. allocations' \in Changes /\ afterCommit' = << [type |-> "allocated", changes |-> new] >>
    BY <1>1, <1>7, FS_Union DEF Allocates, Changes
  <2> QED
    BY <1>1, <2>1, <2>2, <2>3 DEF TypeInv, Moves
<1>8. ASSUME NEW p \in Payment, NEW removed \in SUBSET allocations, Refunds(p, removed)
      PROVE  TypeInv'
  <2>1. payments' \in [Payment -> PaymentRecord] /\ overAllocated' \in BOOLEAN
    BY <1>1, <1>8 DEF Refunds, PaysWithin
  <2>2. UNCHANGED <<invoices, afterCommit, reconciled, positions, projected, inOrder>>
    BY <1>8, ReceivablesKept DEF Refunds, PaysWithin
  <2>3. allocations' \in Changes /\ removed \in Changes
    BY <1>1, <1>8, Amounts DEF Refunds
  <2>4. \E x \in Event : log' = Append(log, x)
    <3>1. [type |-> "refunded", changes |-> removed] \in Event
      BY <2>3 DEF Event, MoveEvent
    <3> QED
      BY <1>8, <3>1 DEF Refunds
  <2>5. /\ log' \in Seq(Event) /\ reconciled \subseteq {n \in DOMAIN log' : Moves(n)'}
        /\ projected \subseteq DOMAIN log'
    BY <2>4, LogKept
  <2> QED
    BY <1>1, <2>1, <2>2, <2>3, <2>5 DEF TypeInv
<1>9. CASE LogAllocated
  <2>1. PICK c \in Changes : afterCommit = << [type |-> "allocated", changes |-> c] >>
    BY <1>1, <1>9 DEF LogAllocated
  <2>2. PICK x : x = [type |-> "allocated", changes |-> c]
    OBVIOUS
  <2>3. x \in Event /\ afterCommit = <<x>>
    BY <2>1, <2>2 DEF Event, MoveEvent
  <2>4. log' = Append(log, x) /\ afterCommit' = <<>>
    BY <1>9, <2>3 DEF LogAllocated
  <2>5. /\ log' \in Seq(Event) /\ reconciled \subseteq {n \in DOMAIN log' : Moves(n)'}
        /\ projected \subseteq DOMAIN log'
    BY <2>3, <2>4, LogKept
  <2>6. UNCHANGED <<invoices, payments, allocations, reconciled, positions, projected, inOrder, overAllocated>>
    BY <1>9, ReceivablesKept DEF LogAllocated, books
  <2> QED
    BY <1>1, <2>4, <2>5, <2>6 DEF TypeInv
<1>10. ASSUME NEW n \in DOMAIN log, NEW written \in SUBSET Invoice, Reconciles(n, written)
       PROVE  TypeInv'
  <2>1. \A i \in Invoice : (IF i \in written THEN Reconciled(i) ELSE invoices[i]) \in InvoiceRecord
    BY <1>1, ReconciledType
  <2>2. invoices' \in [Invoice -> InvoiceRecord]
    BY <1>10, <2>1 DEF Reconciles
  <2>3. UNCHANGED <<payments, allocations, log, afterCommit, positions, projected, inOrder, overAllocated>>
    BY <1>10, ReceivablesKept DEF Reconciles
  <2>4. reconciled' \subseteq {k \in DOMAIN log : Moves(k)}
    BY <1>1, <1>10 DEF Reconciles
  <2> QED
    BY <1>1, <2>2, <2>3, <2>4 DEF TypeInv, Moves
<1>11. ASSUME NEW n \in DOMAIN log,
              ApplyInvoiceIssued(n) \/ ApplyPaymentAllocated(n) \/ ApplyInvoiceVoided(n)
       PROVE  TypeInv'
  <2>1. /\ positions' \in [Invoice -> Position]
        /\ projected' = projected \union {n}
        /\ inOrder' = (inOrder /\ 1 .. n - 1 \subseteq projected)
        /\ UNCHANGED <<books, log, afterCommit, reconciled, overAllocated>>
    BY <1>11, ProjectSteps
  <2>2. inOrder' \in BOOLEAN /\ projected' \subseteq DOMAIN log
    BY <1>1, <2>1
  <2>3. UNCHANGED <<invoices, payments, allocations, log, afterCommit, reconciled, overAllocated>>
    BY <2>1 DEF books
  <2> QED
    BY <1>1, <2>1, <2>2, <2>3 DEF TypeInv, Moves
<1> QED
  BY <1>3, <1>4, <1>5, <1>6, <1>7, <1>8, <1>9, <1>10, <1>11, Steps

(* What a step may do to one invoice.                                      *)
LEMMA InvoiceEffect ==
    ASSUME TypeInv, StatusInv, [Next]_vars, NEW i \in Invoice
    PROVE  \/ invoices'[i] = invoices[i]
           \/ /\ \/ /\ invoices[i].status \in {"absent", "draft"}
                    /\ invoices'[i].status = "draft" /\ invoices'[i].paid = 0
                 \/ /\ invoices'[i].total = invoices[i].total /\ invoices'[i].paid = 0
                    /\ \/ /\ invoices[i].status \in {"draft", "issued", "paid"}
                          /\ invoices'[i].status = "issued"
                       \/ /\ invoices[i].status \in {"draft", "issued", "void"}
                          /\ invoices'[i].status = "void" /\ invoices'[i].total = 0
                 \/ TakesAllocations(i) /\ invoices'[i] = Reconciled(i)
              /\ invoices'[i].paid <= invoices'[i].total
              /\ invoices'[i].due = invoices'[i].total - invoices'[i].paid
<1>1. invoices \in [Invoice -> InvoiceRecord]
  BY DEF TypeInv
<1>2. CASE UNCHANGED invoices
  BY <1>2
<1>3. ASSUME NEW j \in Invoice, NEW inv \in InvoiceRecord, WritesInvoice(j, inv)
      PROVE  /\ invoices'[i] = IF i = j THEN inv ELSE invoices[i]
             /\ invoices'[i].paid <= invoices'[i].total
             /\ invoices'[i].due = invoices'[i].total - invoices'[i].paid
  BY <1>1, <1>3 DEF WritesInvoice
<1>4. CASE \E j \in Invoice, inv \in InvoiceRecord : Edits(j, inv)
  BY <1>3, <1>4 DEF Edits
<1>5. CASE \E j \in Invoice, inv \in InvoiceRecord : IssuesOrVoids(j, inv)
  <2>1. PICK j \in Invoice, inv \in InvoiceRecord : IssuesOrVoids(j, inv)
    BY <1>5
  <2>2. /\ WritesInvoice(j, inv) /\ inv.total = invoices[j].total /\ inv.paid = 0
        /\ \/ inv.status = "issued" /\ invoices[j].status \in {"draft", "issued", "paid"}
           \/ inv.status = "void" /\ inv.total = 0 /\ invoices[j].status \in {"draft", "issued", "void"}
    BY <2>1 DEF IssuesOrVoids
  <2>3. /\ invoices'[i] = IF i = j THEN inv ELSE invoices[i]
        /\ invoices'[i].paid <= invoices'[i].total
        /\ invoices'[i].due = invoices'[i].total - invoices'[i].paid
    BY <1>3, <2>2
  <2> QED
    BY <2>2, <2>3
<1>6. CASE \E n \in DOMAIN log, written \in SUBSET Invoice : Reconciles(n, written)
  <2>1. PICK n \in DOMAIN log, written \in SUBSET Invoice : Reconciles(n, written)
    BY <1>6
  <2>2. invoices'[i] = IF i \in written THEN Reconciled(i) ELSE invoices[i]
    BY <2>1 DEF Reconciles
  <2>3. i \in written => TakesAllocations(i)
    BY <2>1 DEF Reconciles
  <2> QED
    BY <2>2, <2>3, ReconciledType
<1>7. CASE \/ UNCHANGED vars
           \/ \E p \in Payment : Records(p)
           \/ \E p \in Payment, new \in Changes : Allocates(p, new)
           \/ \E p \in Payment, removed \in SUBSET allocations : Refunds(p, removed)
           \/ LogAllocated
  BY <1>2, <1>7 DEF vars, books, Records, Allocates, Refunds, PaysWithin, LogAllocated
<1>8. CASE \E n \in DOMAIN log :
             ApplyInvoiceIssued(n) \/ ApplyPaymentAllocated(n) \/ ApplyInvoiceVoided(n)
  BY <1>2, <1>8, ProjectSteps DEF books
<1> QED
  BY <1>4, <1>5, <1>6, <1>7, <1>8, Steps

(* An invoice that takes allocations goes on taking them, with the same    *)
(* total, unless that total is zero.                                       *)
LEMMA BilledStays ==
    ASSUME TypeInv, StatusInv, [Next]_vars, NEW i \in Invoice,
           TakesAllocations(i), invoices[i].total # 0
    PROVE  TakesAllocations(i)' /\ invoices'[i].total = invoices[i].total
<1>1. CASE invoices'[i] = invoices[i]
  BY <1>1 DEF TakesAllocations
<1>2. CASE TakesAllocations(i) /\ invoices'[i] = Reconciled(i)
  BY <1>2, ReconciledType DEF TakesAllocations
<1> QED
  BY <1>1, <1>2, InvoiceEffect DEF TakesAllocations

LEMMA ChargedStays ==
    ASSUME TypeInv, StatusInv, [Next]_vars, NEW a, a.invoice \in Invoice,
           a.amount \in Nat, a.amount > 0, Charged(a)
    PROVE  Charged(a)' /\ invoices'[a.invoice].total = invoices[a.invoice].total
<1>1. invoices[a.invoice] \in InvoiceRecord
  BY DEF TypeInv
<1>2. invoices[a.invoice].total # 0
  BY <1>1, InvoiceFields DEF Charged
<1> QED
  BY <1>2, BilledStays DEF Charged, TakesAllocations

LEMMA StatusStep ==
    ASSUME TypeInv, StatusInv, [Next]_vars PROVE StatusInv'
<1>1. TypeInv' /\ invoices \in [Invoice -> InvoiceRecord]
  BY TypeStep DEF TypeInv
<1>2. ASSUME NEW i \in Invoice
      PROVE  /\ invoices'[i].status \in {"absent", "draft", "issued"} => invoices'[i].paid = 0
             /\ invoices'[i].status = "void" => invoices'[i].total = 0
  <2>1. /\ invoices[i].status \in {"absent", "draft", "issued"} => invoices[i].paid = 0
        /\ invoices[i].status = "void" => invoices[i].total = 0
    BY DEF StatusInv
  <2> QED
    BY <2>1, InvoiceEffect, ReconciledType
<1>3. IsFiniteSet(Billed')
  <2>1. PICK j : \A i \in Invoice : TakesAllocations(i)' => TakesAllocations(i) \/ i = j
    <3>1. ASSUME NEW j \in Invoice, NEW inv \in InvoiceRecord, WritesInvoice(j, inv), NEW i \in Invoice,
                 TakesAllocations(i)'
          PROVE  TakesAllocations(i) \/ i = j
      BY <1>1, <3>1 DEF WritesInvoice, TakesAllocations
    <3>2. CASE \E j \in Invoice, inv \in InvoiceRecord : WritesInvoice(j, inv)
      BY <3>1, <3>2
    <3>3. CASE \A i \in Invoice : TakesAllocations(i)' => TakesAllocations(i)
      BY <3>3
    <3>4. CASE UNCHANGED invoices
      BY <3>3, <3>4 DEF TakesAllocations
    <3>5. CASE \E n \in DOMAIN log, written \in SUBSET Invoice : Reconciles(n, written)
      <4>1. \A i \in Invoice : invoices'[i] = invoices[i] \/ TakesAllocations(i)
        BY <3>5 DEF Reconciles
      <4> QED
        BY <3>3, <4>1 DEF TakesAllocations
    <3>6. CASE \/ UNCHANGED vars
               \/ \E p \in Payment : Records(p)
               \/ \E p \in Payment, new \in Changes : Allocates(p, new)
               \/ \E p \in Payment, removed \in SUBSET allocations : Refunds(p, removed)
               \/ LogAllocated
      BY <3>4, <3>6 DEF vars, books, Records, Allocates, Refunds, PaysWithin, LogAllocated
    <3>7. CASE \E n \in DOMAIN log :
                 ApplyInvoiceIssued(n) \/ ApplyPaymentAllocated(n) \/ ApplyInvoiceVoided(n)
      BY <3>4, <3>7, ProjectSteps DEF books
    <3> QED
      BY <3>2, <3>5, <3>6, <3>7, Steps DEF Edits, IssuesOrVoids
  <2>2. Billed' \subseteq Billed \union {j}
    BY <2>1 DEF Billed
  <2>3. IsFiniteSet(Billed \union {j})
    BY FS_AddElement DEF StatusInv
  <2> QED
    BY <2>2, <2>3, FS_Subset
<1> QED
  BY <1>2, <1>3 DEF StatusInv

LEMMA BooksStep ==
    ASSUME TypeInv, StatusInv, BooksBalance, [Next]_vars PROVE BooksBalance'
<1>1. TypeInv' /\ invoices' \in [Invoice -> InvoiceRecord]
  BY TypeStep DEF TypeInv
<1>2. ASSUME NEW i \in Invoice
      PROVE  /\ invoices'[i].total >= 0 /\ invoices'[i].paid >= 0 /\ invoices'[i].due >= 0
             /\ invoices'[i].paid <= invoices'[i].total
             /\ invoices'[i].due = invoices'[i].total - invoices'[i].paid
             /\ invoices'[i].status = "paid" => invoices'[i].due = 0
  <2>1. invoices'[i].total \in Nat /\ invoices'[i].paid \in Nat /\ invoices'[i].due \in Nat
    BY <1>1, InvoiceFields
  <2>2. /\ invoices[i].paid <= invoices[i].total
        /\ invoices[i].due = invoices[i].total - invoices[i].paid
        /\ invoices[i].status = "paid" => invoices[i].due = 0
    BY DEF BooksBalance, InvoicesValid
  <2> QED
    BY <2>1, <2>2, InvoiceEffect, ReconciledType
<1>3. PaymentsValid(payments', allocations')
  <2>1. PaymentsValid(payments, allocations)
    BY DEF BooksBalance
  <2>2. CASE UNCHANGED <<payments, allocations>>
    BY <2>1, <2>2
  <2>3. CASE \E p \in Payment : PaysWithin(p)
    BY <2>3 DEF PaysWithin
  <2>4. CASE \E n \in DOMAIN log :
               ApplyInvoiceIssued(n) \/ ApplyPaymentAllocated(n) \/ ApplyInvoiceVoided(n)
    BY <2>2, <2>4, ProjectSteps DEF books
  <2>5. CASE \/ UNCHANGED vars \/ LogAllocated
             \/ \E n \in DOMAIN log, written \in SUBSET Invoice : Reconciles(n, written)
             \/ \E i \in Invoice, inv \in InvoiceRecord : WritesInvoice(i, inv)
    BY <2>2, <2>5 DEF vars, books, LogAllocated, Reconciles, WritesInvoice
  <2> QED
    BY <2>3, <2>4, <2>5, Steps DEF Edits, IssuesOrVoids, Records, Allocates, Refunds
<1> QED
  BY <1>2, <1>3 DEF BooksBalance, InvoicesValid

(* What a step may do to the allocations, the log and the callbacks.       *)
Quiet(e) == e.type \notin {"allocated", "refunded"}

LEMMA AllocationEffect ==
    ASSUME TypeInv, StatusInv, [Next]_vars
    PROVE  \/ UNCHANGED <<allocations, log, afterCommit>>
           \/ /\ UNCHANGED <<allocations, afterCommit>>
              /\ \E e \in Event : Quiet(e) /\ log' = Append(log, e)
           \/ \E p \in Payment, new \in Changes : Allocates(p, new)
           \/ \E p \in Payment, removed \in SUBSET allocations : Refunds(p, removed)
           \/ LogAllocated
<1>1. CASE \E i \in Invoice, inv \in InvoiceRecord : IssuesOrVoids(i, inv)
  <2>1. PICK i \in Invoice, inv \in InvoiceRecord : IssuesOrVoids(i, inv)
    BY <1>1
  <2>2. UNCHANGED <<allocations, afterCommit>>
    BY <2>1 DEF IssuesOrVoids, WritesInvoice
  <2>3. /\ [type |-> "issued", invoice |-> i, total |-> inv.total] \in Event
        /\ Quiet([type |-> "issued", invoice |-> i, total |-> inv.total])
    BY InvoiceFields DEF Event, IssuedEvent, Quiet
  <2>4. /\ [type |-> "voided", invoice |-> i] \in Event
        /\ Quiet([type |-> "voided", invoice |-> i])
    BY DEF Event, VoidedEvent, Quiet
  <2> QED
    BY <2>1, <2>2, <2>3, <2>4 DEF IssuesOrVoids
<1>2. CASE \E n \in DOMAIN log :
             ApplyInvoiceIssued(n) \/ ApplyPaymentAllocated(n) \/ ApplyInvoiceVoided(n)
  BY <1>2, ProjectSteps DEF books
<1>3. CASE \/ UNCHANGED vars
           \/ \E n \in DOMAIN log, written \in SUBSET Invoice : Reconciles(n, written)
           \/ \E i \in Invoice, inv \in InvoiceRecord : Edits(i, inv)
           \/ \E p \in Payment : Records(p)
  BY <1>3 DEF vars, books, Reconciles, Edits, WritesInvoice, Records
<1> QED
  BY <1>1, <1>2, <1>3, Steps

LEMMA PendingCallback ==
    ASSUME TypeInv, afterCommit # <<>>
    PROVE  \E c \in Changes : /\ afterCommit = << [type |-> "allocated", changes |-> c] >>
                              /\ Head(afterCommit) = [type |-> "allocated", changes |-> c]
                              /\ Head(afterCommit) \in Event
                              /\ Tail(afterCommit) = <<>>
<1>1. PICK c \in Changes : afterCommit = << [type |-> "allocated", changes |-> c] >>
  BY DEF TypeInv
<1>2. PICK e : e = [type |-> "allocated", changes |-> c]
  OBVIOUS
<1>3. Head(<<e>>) = e /\ Tail(<<e>>) = <<>> /\ e \in Event
  BY <1>2 DEF Event, MoveEvent
<1> QED
  BY <1>1, <1>2, <1>3

LEMMA MovedChanges ==
    ASSUME TypeInv, NEW n \in DOMAIN log, Moves(n) PROVE log[n].changes \in Changes
BY DEF TypeInv, Event, IssuedEvent, VoidedEvent, MoveEvent, Moves

LEMMA ChargedStep ==
    ASSUME TypeInv, StatusInv, ChargedInv, [Next]_vars PROVE ChargedInv'
<1>0. allocations \in Changes /\ log \in Seq(Event)
  BY DEF TypeInv
<1>1. \A a \in allocations : Charged(a)'
  BY <1>0, Amounts, ChargedStays DEF ChargedInv
<1>2. ASSUME NEW n \in DOMAIN log, Moves(n), NEW a \in log[n].changes PROVE Charged(a)'
  <2>1. log[n].changes \in Changes
    BY <1>2, MovedChanges
  <2> QED
    BY <1>2, <2>1, Amounts, ChargedStays DEF ChargedInv
<1>3. ASSUME afterCommit # <<>>, NEW a \in Head(afterCommit).changes PROVE Charged(a)'
  <2>1. Head(afterCommit).changes \in Changes
    BY <1>3, PendingCallback
  <2> QED
    BY <1>3, <2>1, Amounts, ChargedStays DEF ChargedInv
<1>4. ASSUME NEW n \in DOMAIN log, log'[n] = log[n], Moves(n)'
      PROVE  \A a \in log'[n].changes : Charged(a)'
  BY <1>2, <1>4 DEF Moves
<1>5. CASE UNCHANGED <<allocations, log, afterCommit>>
  BY <1>1, <1>3, <1>4, <1>5 DEF ChargedInv
<1>6. CASE /\ UNCHANGED <<allocations, afterCommit>>
           /\ \E e \in Event : Quiet(e) /\ log' = Append(log, e)
  <2>1. PICK e \in Event : Quiet(e) /\ log' = Append(log, e)
    BY <1>6
  <2>2. /\ DOMAIN log' = 1 .. Len(log) + 1 /\ DOMAIN log = 1 .. Len(log)
        /\ \A n \in DOMAIN log : log'[n] = log[n]
        /\ log'[Len(log) + 1] = e /\ Len(log) \in Nat
    BY <1>0, <2>1
  <2>3. \A n \in DOMAIN log' : n \in DOMAIN log \/ ~Moves(n)'
    BY <2>1, <2>2 DEF Moves, Quiet
  <2>4. \A n \in DOMAIN log' : Moves(n)' => \A a \in log'[n].changes : Charged(a)'
    BY <1>4, <2>2, <2>3
  <2> QED
    BY <1>1, <1>3, <1>6, <2>4 DEF ChargedInv
<1>7. ASSUME NEW p \in Payment, NEW new \in Changes, Allocates(p, new) PROVE ChargedInv'
  <2>1. /\ allocations' = allocations \union new /\ UNCHANGED log
        /\ afterCommit' = << [type |-> "allocated", changes |-> new] >> /\ UNCHANGED invoices
    BY <1>7 DEF Allocates, PaysWithin
  <2>2. Head(afterCommit').changes = new
    BY <2>1
  <2>3. ASSUME NEW a \in new PROVE Charged(a)'
    <3>1. TakesAllocations(a.invoice) /\ a.amount <= Outstanding(a.invoice)
      BY <1>7 DEF Allocates
    <3>2. a.amount \in Nat /\ a.invoice \in Invoice
      BY Amounts
    <3>3. AllocatedTo(allocations, a.invoice) \in Nat /\ invoices[a.invoice].total \in Nat
      BY <1>0, <3>2, AllocatedToIsNat, InvoiceFields DEF TypeInv
    <3>4. a.amount <= invoices[a.invoice].total
      BY <3>1, <3>2, <3>3 DEF Outstanding
    <3> QED
      BY <2>1, <3>1, <3>4 DEF Charged, TakesAllocations
  <2> QED
    BY <1>1, <1>4, <2>1, <2>2, <2>3 DEF ChargedInv
<1>8. ASSUME NEW e, NEW c, e.changes = c, \A a \in c : Charged(a)', e \in Event, log' = Append(log, e)
      PROVE  \A n \in DOMAIN log' : Moves(n)' => \A a \in log'[n].changes : Charged(a)'
  <2>1. /\ DOMAIN log' = 1 .. Len(log) + 1 /\ DOMAIN log = 1 .. Len(log)
        /\ \A n \in DOMAIN log : log'[n] = log[n]
        /\ log'[Len(log) + 1] = e /\ Len(log) \in Nat
    BY <1>0, <1>8
  <2> QED
    BY <1>4, <1>8, <2>1
<1>9. ASSUME NEW p \in Payment, NEW removed \in SUBSET allocations, Refunds(p, removed)
      PROVE  ChargedInv'
  <2>1. PICK e : e = [type |-> "refunded", changes |-> removed]
    OBVIOUS
  <2>2. allocations' = allocations \ removed /\ UNCHANGED afterCommit /\ log' = Append(log, e)
    BY <1>9, <2>1 DEF Refunds
  <2>3. removed \in Changes /\ e \in Event /\ e.changes = removed /\ \A a \in removed : Charged(a)'
    BY <1>0, <1>1, <2>1, Amounts DEF Event, MoveEvent
  <2>4. \A n \in DOMAIN log' : Moves(n)' => \A a \in log'[n].changes : Charged(a)'
    BY <1>8, <2>2, <2>3
  <2> QED
    BY <1>1, <1>3, <2>2, <2>4 DEF ChargedInv
<1>10. CASE LogAllocated
  <2>1. PICK e : e = Head(afterCommit)
    OBVIOUS
  <2>2. afterCommit # <<>> /\ log' = Append(log, e) /\ allocations' = allocations
    BY <1>10, <2>1 DEF LogAllocated, books
  <2>3. afterCommit' = <<>> /\ e \in Event
    BY <1>10, <2>1, <2>2, PendingCallback DEF LogAllocated
  <2>4. \A a \in e.changes : Charged(a)'
    BY <1>3, <2>1, <2>2
  <2>5. \A n \in DOMAIN log' : Moves(n)' => \A a \in log'[n].changes : Charged(a)'
    BY <1>8, <2>2, <2>3, <2>4
  <2> QED
    BY <1>1, <2>2, <2>3, <2>5 DEF ChargedInv
<1> QED
  BY <1>5, <1>6, <1>7, <1>9, <1>10, AllocationEffect

(* No selection of an invoice's allocations with at most one of each       *)
(* payment exceeds its total: what a request adds fits what all of them    *)
(* leave, and of one payment the selection has one.                        *)
LEMMA OneEachStep ==
    ASSUME TypeInv, StatusInv, ChargedInv, OneEachInv, [Next]_vars PROVE OneEachInv'
<1>0. allocations \in Changes /\ TypeInv' /\ allocations' \in Changes
  BY TypeStep DEF TypeInv
<1> SUFFICES ASSUME NEW s \in SUBSET allocations', NEW i \in Invoice,
                    \A a \in s : a.invoice = i, OneEach(s)
             PROVE  SumOf(s) <= invoices'[i].total
  BY DEF OneEachInv, OneEach
<1>1. invoices[i].total \in Nat /\ invoices'[i].total \in Nat
  BY <1>0, InvoiceFields DEF TypeInv
<1>2. CASE s = {}
  BY <1>1, <1>2, SumOfEmpty
<1>3. ASSUME s # {}, s \in SUBSET allocations PROVE SumOf(s) <= invoices'[i].total
  <2>1. SumOf(s) <= invoices[i].total
    BY <1>3 DEF OneEachInv
  <2>2. PICK a \in s : TRUE
    BY <1>3
  <2>3. Charged(a) /\ a.invoice = i /\ a.amount \in Nat /\ a.amount > 0
    BY <1>0, <1>3, Amounts DEF ChargedInv
  <2>4. invoices'[i].total = invoices[i].total
    BY <2>3, ChargedStays
  <2> QED
    BY <2>1, <2>4
<1>4. ASSUME NEW p \in Payment, NEW new \in Changes, Allocates(p, new), s \notin SUBSET allocations
      PROVE  SumOf(s) <= invoices'[i].total
  <2>1. PICK a \in s : a \in new
    BY <1>4 DEF Allocates
  <2>2. a.payment = p /\ a.invoice = i /\ a.amount <= invoices[i].total - AllocatedTo(allocations, i)
    BY <1>4, <2>1 DEF Allocates, Outstanding
  <2> DEFINE r == s \ {a}
  <2>3. \A b \in r : b \in allocations /\ b.invoice = i
    <3> SUFFICES ASSUME NEW b \in r PROVE b \notin new
      BY <1>4 DEF Allocates
    <3>1. b.payment # p
      BY <2>1, <2>2 DEF OneEach
    <3> QED
      BY <1>4, <3>1 DEF Allocates
  <2>4. r \in SUBSET {b \in allocations : b.invoice = i} /\ {b \in allocations : b.invoice = i} \in Changes
    BY <1>0, <2>3, Amounts
  <2>5. SumOf(r) \in Nat /\ SumOf(r) <= AllocatedTo(allocations, i) /\ r \in Changes
    <3> HIDE DEF r
    <3>1. PICK all : all = {b \in allocations : b.invoice = i}
      OBVIOUS
    <3>2. SumOf(r) \in Nat /\ SumOf(r) <= SumOf(all) /\ r \in Changes
      BY <2>4, <3>1, SumOfSubset, Amounts
    <3> QED
      BY <3>1, <3>2 DEF AllocatedTo
  <2>6. {a} \cap r = {} /\ {a} \union r = s
    BY <2>1
  <2>7. a.amount \in Nat /\ SumOf({a}) = a.amount /\ IsFiniteSet({a})
    BY <2>1, Amounts, SumOfOne, FS_Singleton
  <2> HIDE DEF r
  <2>8. SumOf({a} \union r) = SumOf({a}) + SumOf(r)
    <3>1. PICK one : one = {a}
      OBVIOUS
    <3>2. IsFiniteSet(one) /\ one \cap r = {} /\ \A b \in one : b.amount \in Nat
      BY <2>6, <2>7, <3>1
    <3>3. SumOf(one \union r) = SumOf(one) + SumOf(r)
      BY <2>5, <3>2, Amounts, SumOfUnion
    <3> QED
      BY <3>1, <3>3
  <2>9. SumOf(s) = a.amount + SumOf(r)
    BY <2>6, <2>7, <2>8, Zenon
  <2>10. AllocatedTo(allocations, i) \in Nat
    BY <1>0, AllocatedToIsNat
  <2>11. SumOf(s) <= invoices[i].total
    BY <1>1, <2>2, <2>5, <2>7, <2>9, <2>10
  <2> QED
    BY <1>4, <2>11 DEF Allocates, PaysWithin
<1>5. \/ s \in SUBSET allocations
      \/ \E p \in Payment, new \in Changes : Allocates(p, new)
  BY AllocationEffect DEF Refunds, LogAllocated, books
<1> QED
  BY <1>2, <1>3, <1>4, <1>5

(* The net of the logged events, with what a callback still has to log, is *)
(* what the repository says.                                               *)
LEMMA NetKept ==
    ASSUME TypeInv, StatusInv, NetInv, [Next]_vars PROVE NetInv'
<1>0. allocations \in Changes /\ log \in Seq(Event) /\ Len(log) \in 0 .. Len(log)
  BY DEF TypeInv
<1> SUFFICES ASSUME NEW i \in Invoice
             PROVE  Net(log', Len(log'), i) + Pending(i)' = AllocatedTo(allocations', i)
  BY DEF NetInv
<1>1. /\ Net(log, Len(log), i) + Pending(i) = AllocatedTo(allocations, i)
      /\ Net(log, Len(log), i) \in Int /\ AllocatedTo(allocations, i) \in Nat
  BY <1>0, NetIsInt, AllocatedToIsNat DEF NetInv
<1>2. ASSUME NEW e \in Event, log' = Append(log, e)
      PROVE  /\ Net(log', Len(log'), i) = Change(e, i) + Net(log, Len(log), i)
             /\ Change(e, i) \in Int
  BY <1>0, <1>2, LogGrows, ChangeIsInt
<1>3. CASE UNCHANGED <<allocations, log, afterCommit>>
  BY <1>1, <1>3 DEF Pending
<1>4. CASE /\ UNCHANGED <<allocations, afterCommit>>
           /\ \E e \in Event : Quiet(e) /\ log' = Append(log, e)
  <2>1. PICK e \in Event : Quiet(e) /\ log' = Append(log, e)
    BY <1>4
  <2>2. Change(e, i) = 0
    BY <2>1, UntouchedChange DEF Quiet, Touches
  <2>3. Pending(i)' = Pending(i) /\ Net(log', Len(log'), i) = Net(log, Len(log), i)
    BY <1>1, <1>2, <1>4, <2>1, <2>2 DEF Pending
  <2> QED
    BY <1>1, <1>4, <2>3
<1>5. ASSUME NEW p \in Payment, NEW new \in Changes, Allocates(p, new)
      PROVE  Net(log', Len(log'), i) + Pending(i)' = AllocatedTo(allocations', i)
  <2>1. /\ afterCommit = <<>> /\ afterCommit' = << [type |-> "allocated", changes |-> new] >>
        /\ allocations' = allocations \union new /\ allocations \cap new = {} /\ UNCHANGED log
    BY <1>5 DEF Allocates, PaysWithin
  <2>2. Pending(i) = 0
    BY <2>1 DEF Pending
  <2>3. Pending(i)' = AllocatedTo(new, i)
    <3>1. Head(afterCommit').changes = new /\ afterCommit' # <<>>
      BY <2>1
    <3> QED
      BY <3>1 DEF Pending
  <2>4. AllocatedTo(allocations \union new, i) = AllocatedTo(allocations, i) + AllocatedTo(new, i)
    <3>1. PICK old \in Changes : old = allocations
      BY <1>0
    <3>2. old \cap new = {}
      BY <2>1, <3>1
    <3>3. AllocatedTo(old \union new, i) = AllocatedTo(old, i) + AllocatedTo(new, i)
      BY <3>2, AllocatedToUnion, ZenonT(40)
    <3> QED
      BY <3>1, <3>3, Zenon
  <2> QED
    BY <1>1, <2>1, <2>2, <2>3, <2>4
<1>6. ASSUME NEW p \in Payment, NEW removed \in SUBSET allocations, Refunds(p, removed)
      PROVE  Net(log', Len(log'), i) + Pending(i)' = AllocatedTo(allocations', i)
  <2>1. PICK e : e = [type |-> "refunded", changes |-> removed]
    OBVIOUS
  <2>2. /\ afterCommit = <<>> /\ UNCHANGED afterCommit /\ allocations' = allocations \ removed
        /\ log' = Append(log, e)
    BY <1>6, <2>1 DEF Refunds, PaysWithin
  <2>3. /\ removed \in Changes
        /\ AllocatedTo(allocations \ removed, i) = AllocatedTo(allocations, i) - AllocatedTo(removed, i)
    BY <1>0, AllocatedToRest
  <2>4. e \in Event /\ Change(e, i) = 0 - AllocatedTo(removed, i) /\ AllocatedTo(removed, i) \in Nat
    BY <2>1, <2>3, AllocatedToIsNat DEF Event, MoveEvent, Change
  <2>5. Pending(i) = 0 /\ Pending(i)' = 0
    BY <2>2 DEF Pending
  <2> QED
    BY <1>1, <1>2, <2>2, <2>3, <2>4, <2>5
<1>7. CASE LogAllocated
  <2>1. PICK e : e = Head(afterCommit)
    OBVIOUS
  <2>2. afterCommit # <<>> /\ log' = Append(log, e) /\ UNCHANGED allocations
    BY <1>7, <2>1 DEF LogAllocated, books
  <2>3. afterCommit' = <<>> /\ e \in Event /\ e.type = "allocated"
    BY <1>7, <2>1, <2>2, PendingCallback DEF LogAllocated
  <2>4. Change(e, i) = Pending(i) /\ Pending(i)' = 0
    BY <2>1, <2>2, <2>3 DEF Change, Pending
  <2> QED
    BY <1>1, <1>2, <2>2, <2>3, <2>4
<1> QED
  BY <1>3, <1>4, <1>5, <1>6, <1>7, AllocationEffect

LEMMA NetOfNextLog ==
    ASSUME log' \in Seq(Event), NEW i PROVE NetAllocated(i)' = Net(log', Len(log'), i)
<1>1. DOMAIN log' = 1 .. Len(log')
  OBVIOUS
<1>2. \A n : Delta(n, i)' = Change(log'[n], i)
  BY Zenon DEF Delta, Change
<1>3. [n \in DOMAIN log' |-> Delta(n, i)'] = [n \in 1 .. Len(log') |-> Change(log'[n], i)]
  BY <1>1, <1>2, Zenon
<1> QED
  BY <1>3, Zenon DEF NetAllocated, Net

(* An invoice that is behind has an event to come that touches it.         *)
LEMMA PaidStep ==
    ASSUME TypeInv, StatusInv, ChargedInv, PaidInv, [Next]_vars PROVE PaidInv'
<1>0. /\ log \in Seq(Event) /\ log' \in Seq(Event) /\ reconciled \subseteq DOMAIN log
      /\ Len(log) \in 0 .. Len(log) /\ invoices \in [Invoice -> InvoiceRecord]
  BY TypeStep DEF TypeInv
<1> SUFFICES ASSUME NEW i \in Invoice, TakesAllocations(i)'
             PROVE  \/ invoices'[i].paid = PaidOf(i)'
                    \/ \E n \in DOMAIN log' \ reconciled' : Touches(log'[n], i)
  BY DEF PaidInv, Billed
<1>1. TakesAllocations(i) => \/ invoices[i].paid = PaidOf(i)
                             \/ \E n \in DOMAIN log \ reconciled : Touches(log[n], i)
  BY DEF PaidInv, Billed
<1>2. ASSUME log' = log PROVE NetAllocated(i)' = NetAllocated(i)
  BY <1>0, <1>2, NetOfLog, NetOfNextLog
<1>3. CASE UNCHANGED <<invoices, log, reconciled>>
  <2>1. PaidOf(i)' = PaidOf(i) /\ TakesAllocations(i)
    BY <1>2, <1>3 DEF PaidOf, TakesAllocations
  <2> QED
    BY <1>1, <1>3, <2>1
<1>4. ASSUME NEW e \in Event, log' = Append(log, e), ~Touches(e, i)
      PROVE  NetAllocated(i)' = NetAllocated(i)
  <2>1. Net(log', Len(log'), i) = Change(e, i) + Net(log, Len(log), i)
    BY <1>0, <1>4, LogGrows
  <2>2. Change(e, i) = 0 /\ Net(log, Len(log), i) \in Int
    BY <1>0, <1>4, UntouchedChange, NetIsInt
  <2> QED
    BY <1>0, <2>1, <2>2, NetOfLog, NetOfNextLog
<1>5. ASSUME NEW e \in Event, log' = Append(log, e), UNCHANGED reconciled,
             invoices'[i] = invoices[i]
      PROVE  \/ invoices'[i].paid = PaidOf(i)'
             \/ \E n \in DOMAIN log' \ reconciled' : Touches(log'[n], i)
  <2>1. /\ DOMAIN log' = 1 .. Len(log) + 1 /\ DOMAIN log = 1 .. Len(log)
        /\ \A n \in DOMAIN log : log'[n] = log[n]
        /\ log'[Len(log) + 1] = e /\ Len(log) \in Nat
    BY <1>0, <1>5
  <2>2. CASE Touches(e, i)
    <3>1. Len(log) + 1 \in DOMAIN log' \ reconciled' /\ Touches(log'[Len(log) + 1], i)
      BY <1>0, <1>5, <2>1, <2>2
    <3> QED
      BY <3>1
  <2>3. CASE ~Touches(e, i)
    <3>1. PaidOf(i)' = PaidOf(i) /\ TakesAllocations(i)
      BY <1>4, <1>5, <2>3 DEF PaidOf, TakesAllocations
    <3> QED
      BY <1>1, <1>5, <2>1, <3>1
  <2> QED
    BY <2>2, <2>3
<1>6. ASSUME NEW j \in Invoice, NEW inv \in InvoiceRecord, Edits(j, inv)
      PROVE  \/ invoices'[i].paid = PaidOf(i)'
             \/ \E n \in DOMAIN log' \ reconciled' : Touches(log'[n], i)
  <2>1. i # j /\ invoices'[i] = invoices[i]
    BY <1>0, <1>6 DEF Edits, WritesInvoice, TakesAllocations
  <2>2. UNCHANGED <<log, reconciled>>
    BY <1>6 DEF Edits, WritesInvoice
  <2>3. PaidOf(i)' = PaidOf(i) /\ TakesAllocations(i)
    BY <1>2, <2>1, <2>2 DEF PaidOf, TakesAllocations
  <2> QED
    BY <1>1, <2>1, <2>2, <2>3
<1>7. ASSUME NEW j \in Invoice, NEW inv \in InvoiceRecord, IssuesOrVoids(j, inv)
      PROVE  \/ invoices'[i].paid = PaidOf(i)'
             \/ \E n \in DOMAIN log' \ reconciled' : Touches(log'[n], i)
  <2>1. PICK e \in Event : log' = Append(log, e) /\ Quiet(e)
    <3>1. [type |-> "issued", invoice |-> j, total |-> inv.total] \in Event
      BY InvoiceFields DEF Event, IssuedEvent
    <3>2. [type |-> "voided", invoice |-> j] \in Event
      BY DEF Event, VoidedEvent
    <3>3. /\ Quiet([type |-> "issued", invoice |-> j, total |-> inv.total])
          /\ Quiet([type |-> "voided", invoice |-> j])
      BY DEF Quiet
    <3> QED
      BY <1>7, <3>1, <3>2, <3>3 DEF IssuesOrVoids
  <2>2. UNCHANGED reconciled /\ invoices'[i] = IF i = j THEN inv ELSE invoices[i]
    BY <1>0, <1>7 DEF IssuesOrVoids, WritesInvoice
  <2>3. CASE i # j
    BY <1>5, <2>1, <2>2, <2>3
  <2>4. CASE i = j
    <3>1. inv.status = "issued"
      BY <1>7, <2>2, <2>4 DEF IssuesOrVoids, TakesAllocations
    <3>2. /\ inv.total = invoices[i].total /\ inv.paid = 0 /\ invoices[i].paid = 0
          /\ invoices[i].status \in {"draft", "issued", "paid"}
      BY <1>7, <2>4, <3>1 DEF IssuesOrVoids
    <3>3. NetAllocated(i)' = NetAllocated(i)
      BY <1>4, <2>1 DEF Quiet, Touches
    <3>4. PaidOf(i)' = PaidOf(i)
      BY <2>2, <2>4, <3>2, <3>3 DEF PaidOf
    <3>5. CASE TakesAllocations(i)
      <4>1. CASE invoices[i].paid = PaidOf(i)
        BY <2>2, <2>4, <3>2, <3>4, <4>1
      <4>2. CASE \E n \in DOMAIN log \ reconciled : Touches(log[n], i)
        <5>1. PICK n \in DOMAIN log \ reconciled : Touches(log[n], i)
          BY <4>2
        <5>2. n \in DOMAIN log' \ reconciled' /\ log'[n] = log[n]
          BY <1>0, <2>1, <2>2
        <5> QED
          BY <5>1, <5>2
      <4> QED
        BY <1>1, <3>5, <4>1, <4>2
    <3>6. CASE ~TakesAllocations(i)
      <4>1. \A n \in 1 .. Len(log) : ~Touches(log[n], i)
        BY <1>0, <3>6 DEF ChargedInv, Charged, Touches, Moves
      <4>2. NetAllocated(i) = 0
        BY <1>0, <4>1, NetUntouched, NetOfLog
      <4>3. PaidOf(i) = 0
        <5>1. invoices[i].total \in Nat
          BY <1>0, InvoiceFields
        <5> QED
          BY <4>2, <5>1 DEF PaidOf, Smaller, Larger
      <4> QED
        BY <2>2, <2>4, <3>2, <3>4, <4>3
    <3> QED
      BY <3>5, <3>6
  <2> QED
    BY <2>3, <2>4
<1>8. CASE \/ \E p \in Payment : Records(p)
           \/ \E p \in Payment, new \in Changes : Allocates(p, new)
           \/ UNCHANGED vars
  BY <1>3, <1>8 DEF Records, Allocates, PaysWithin, vars, books
<1>9. ASSUME NEW p \in Payment, NEW removed \in SUBSET allocations, Refunds(p, removed)
      PROVE  \/ invoices'[i].paid = PaidOf(i)'
             \/ \E n \in DOMAIN log' \ reconciled' : Touches(log'[n], i)
  <2>1. [type |-> "refunded", changes |-> removed] \in Event
    BY Amounts DEF TypeInv, Event, MoveEvent
  <2> QED
    BY <1>5, <1>9, <2>1 DEF Refunds, PaysWithin
<1>10. CASE LogAllocated
  BY <1>5, <1>10, PendingCallback DEF LogAllocated, books
<1>11. ASSUME NEW n \in DOMAIN log, NEW written \in SUBSET Invoice, Reconciles(n, written)
       PROVE  \/ invoices'[i].paid = PaidOf(i)'
              \/ \E k \in DOMAIN log' \ reconciled' : Touches(log'[k], i)
  <2>1. /\ invoices'[i] = IF i \in written THEN Reconciled(i) ELSE invoices[i]
        /\ UNCHANGED log
        /\ \/ reconciled' = reconciled \union {n} /\ \A j \in Billed : Touches(log[n], j) => j \in written
           \/ UNCHANGED reconciled
    BY <1>11 DEF Reconciles
  <2>2. invoices'[i].total = invoices[i].total
    BY <2>1, ReconciledType
  <2>3. PaidOf(i)' = PaidOf(i)
    BY <1>2, <2>1, <2>2 DEF PaidOf
  <2>4. CASE i \in written
    BY <2>1, <2>3, <2>4, ReconciledType
  <2>5. CASE i \notin written
    <3>1. TakesAllocations(i)
      BY <2>1, <2>5 DEF TakesAllocations
    <3>2. \A k \in DOMAIN log \ reconciled : Touches(log[k], i) => k \in DOMAIN log' \ reconciled'
      BY <2>1, <2>5, <3>1 DEF Billed
    <3> QED
      BY <1>1, <2>1, <2>3, <2>5, <3>1, <3>2
  <2> QED
    BY <2>4, <2>5
<1>12. CASE \E n \in DOMAIN log :
              ApplyInvoiceIssued(n) \/ ApplyPaymentAllocated(n) \/ ApplyInvoiceVoided(n)
  BY <1>3, <1>12, ProjectSteps DEF books
<1> QED
  BY <1>6, <1>7, <1>8, <1>9, <1>10, <1>11, <1>12, Steps

-----------------------------------------------------------------------------
LEMMA CoreInit == Init => CoreInv
<1> SUFFICES ASSUME Init PROVE CoreInv
  OBVIOUS
<1>1. /\ invoices = [i \in Invoice |-> NoInvoice] /\ payments = [p \in Payment |-> NoPayment]
      /\ allocations = {} /\ log = <<>> /\ afterCommit = <<>> /\ reconciled = {}
      /\ positions = [i \in Invoice |-> NoPosition] /\ projected = {}
      /\ inOrder = TRUE /\ overAllocated = FALSE
  BY DEF Init
<1>2. /\ NoInvoice \in InvoiceRecord /\ NoInvoice.status = "absent"
      /\ NoInvoice.total = 0 /\ NoInvoice.paid = 0 /\ NoInvoice.due = 0
  BY NoInvoiceType DEF NoInvoice
<1>3. /\ NoPayment \in PaymentRecord
      /\ NoPayment.received = 0 /\ NoPayment.allocated = 0 /\ NoPayment.unallocated = 0
  BY DEF NoPayment, PaymentRecord
<1>4. NoPosition \in Position
  BY DEF NoPosition, Position
<1>5. {} \in Changes
  BY FS_EmptySet DEF Changes
<1>6. TypeInv
  <2>1. /\ invoices \in [Invoice -> InvoiceRecord] /\ payments \in [Payment -> PaymentRecord]
        /\ positions \in [Invoice -> Position]
    BY <1>1, <1>2, <1>3, <1>4
  <2>2. log \in Seq(Event) /\ inOrder \in BOOLEAN /\ overAllocated \in BOOLEAN
    <3>1. <<>> \in Seq(Event)
      OBVIOUS
    <3>2. inOrder \in BOOLEAN /\ overAllocated \in BOOLEAN
      BY <1>1, Zenon
    <3> QED
      BY <1>1, <3>1, <3>2
  <2> QED
    BY <1>1, <1>5, <2>1, <2>2 DEF TypeInv
<1>7. StatusInv
  <2>1. \A i \in Invoice : invoices[i] = NoInvoice
    BY <1>1
  <2>2. Billed = {}
    BY <1>2, <2>1 DEF Billed, TakesAllocations
  <2> QED
    BY <1>2, <2>1, <2>2, FS_EmptySet DEF StatusInv
<1>8. BooksBalance
  <2>1. InvoicesValid(invoices)
    BY <1>1, <1>2 DEF InvoicesValid
  <2>2. PaymentsValid(payments, allocations)
    <3>1. \A p : {a \in {} : a.payment = p} = {}
      OBVIOUS
    <3>2. \A p : AllocatedOf(allocations, p) = 0
      BY <1>1, <3>1, SumOfEmpty DEF AllocatedOf
    <3>3. \A p \in Payment : payments[p] = NoPayment
      BY <1>1
    <3> QED
      BY <1>3, <3>2, <3>3 DEF PaymentsValid
  <2> QED
    BY <1>1, <1>2, <2>1, <2>2 DEF BooksBalance
<1>9. ChargedInv
  BY <1>1 DEF ChargedInv
<1>10. OneEachInv
  <2>1. \A s \in SUBSET allocations : s = {}
    BY <1>1
  <2>2. \A i \in Invoice : SumOf({}) <= invoices[i].total
    BY <1>1, <1>2, SumOfEmpty
  <2> QED
    BY <2>1, <2>2 DEF OneEachInv
<1>11. NetInv
  <2>1. Len(log) = 0 /\ \A i : Net(log, 0, i) = 0 /\ Pending(i) = 0
    BY <1>1, NetStart DEF Pending
  <2>2. \A i : AllocatedTo(allocations, i) = 0
    BY <1>1, AllocatedToNone
  <2> QED
    BY <2>1, <2>2 DEF NetInv
<1>12. PaidInv
  <2>1. Billed = {}
    BY <1>1, <1>2 DEF Billed, TakesAllocations
  <2> QED
    BY <2>1 DEF PaidInv
<1> QED
  BY <1>6, <1>7, <1>8, <1>9, <1>10, <1>11, <1>12 DEF CoreInv

LEMMA CoreStep == CoreInv /\ [Next]_vars => CoreInv'
BY TypeStep, StatusStep, BooksStep, ChargedStep, OneEachStep, NetKept, PaidStep DEF CoreInv

LEMMA CoreHolds == Spec => []CoreInv
BY CoreInit, CoreStep, PTL DEF Spec

(* Every record of the repositories, the log and the projections is always *)
(* one the services can store: the type invariant of Billing, for any      *)
(* number of invoices, payments and events and any amounts.                *)
THEOREM TypeCorrect == Spec => []TypeOK
<1>1. TypeInv => TypeOK
  <2> SUFFICES ASSUME TypeInv PROVE TypeOK
    OBVIOUS
  <2>1. ASSUME NEW i \in Invoice
        PROVE  /\ invoices[i].status \in DOMAIN Transitions
               /\ invoices[i].lines \in Seq(Price)
               /\ invoices[i].discount \in Discount \union {0}
               /\ {invoices[i].total, invoices[i].paid, invoices[i].due} \subseteq Nat
    BY DEF TypeInv, InvoiceRecord
  <2>2. ASSUME NEW i \in Invoice
        PROVE  /\ positions[i].status \in {"absent", "open", "closed", "void"}
               /\ {positions[i].total, positions[i].open} \subseteq Nat
    BY DEF TypeInv, Position
  <2>3. ASSUME NEW p \in Payment
        PROVE  /\ payments[p].status \in {"absent", "recorded", "void"}
               /\ {payments[p].received, payments[p].allocated, payments[p].unallocated} \subseteq Nat
    BY DEF TypeInv, PaymentRecord
  <2>4. \A n \in DOMAIN log : Moves(n) => log[n].changes \subseteq Allocation
    BY MovedChanges DEF Changes
  <2>5. /\ allocations \subseteq Allocation
        /\ reconciled \subseteq {n \in DOMAIN log : Moves(n)}
        /\ projected \subseteq DOMAIN log
        /\ {inOrder, overAllocated} \subseteq BOOLEAN
    BY DEF TypeInv, Changes
  <2> QED
    BY <2>1, <2>2, <2>3, <2>4, <2>5 DEF TypeOK
<1> QED
  BY <1>1, CoreHolds, PTL DEF CoreInv

(* The books balance in every state, also in those the projection writes   *)
(* past the validator, so that no call of either service is ever refused   *)
(* for what another call or the projection left behind.                    *)
THEOREM BooksAlwaysBalance == Spec => []BooksBalance
BY CoreHolds, PTL DEF CoreInv

(* More is allocated to an invoice than its total only where one payment   *)
(* has two allocations on it: the check against what is outstanding covers *)
(* every other sequence of requests, whatever the projection lags behind.  *)
THEOREM OverAllocationIsByOnePayment == Spec => []OverAllocationNeedsARepeatedInvoice
<1>1. CoreInv => OverAllocationNeedsARepeatedInvoice
  <2> SUFFICES ASSUME CoreInv, NEW i \in Invoice,
                      AllocatedTo(allocations, i) > invoices[i].total
               PROVE  \E a, b \in allocations : /\ a.invoice = i /\ b.invoice = i
                                                /\ a.payment = b.payment /\ a # b
    BY DEF OverAllocationNeedsARepeatedInvoice
  <2>1. PICK s : s = {a \in allocations : a.invoice = i}
    OBVIOUS
  <2>2. s \in SUBSET allocations /\ \A a \in s : a \in allocations /\ a.invoice = i
    BY <2>1
  <2>3. SumOf(s) > invoices[i].total
    BY <2>1 DEF AllocatedTo
  <2>4. allocations \in Changes /\ invoices[i].total \in Nat /\ SumOf(s) \in Nat
    BY <2>2, InvoiceFields, SumOfSubset DEF CoreInv, TypeInv
  <2>5. ~(SumOf(s) <= invoices[i].total)
    BY <2>3, <2>4
  <2>6. ~OneEach(s)
    BY <2>2, <2>5 DEF CoreInv, OneEachInv
  <2> QED
    BY <2>2, <2>6 DEF OneEach
<1> QED
  BY <1>1, CoreHolds, PTL

(* Once every event that moves allocations is handled, in whatever order   *)
(* and after however many attempts that threw half way, the invoices show  *)
(* what the payments repository has, and the customer's statement closes   *)
(* with what they still ask for.                                           *)
THEOREM InvoicesCatchUp == Spec => []InvoicesFollowAllocations
<1>1. CoreInv => InvoicesFollowAllocations
  <2> SUFFICES ASSUME CoreInv, afterCommit = <<>>,
                      \A n \in DOMAIN log : Moves(n) => n \in reconciled
               PROVE  /\ \A i \in Invoice :
                           invoices[i].paid = Smaller(AllocatedTo(allocations, i), invoices[i].total)
                      /\ (\A i \in Billed : Outstanding(i) >= 0) =>
                           ClosingBalance = SumFunction([i \in Billed |-> invoices[i].due])
    BY DEF InvoicesFollowAllocations
  <2>1. /\ allocations \in Changes /\ log \in Seq(Event) /\ IsFiniteSet(Billed)
        /\ \A a \in allocations : a.invoice \in Billed
    BY Amounts DEF CoreInv, TypeInv, StatusInv, ChargedInv, Charged, Billed
  <2>2. ASSUME NEW i \in Invoice
        PROVE  /\ AllocatedTo(allocations, i) \in Nat
               /\ invoices[i].total \in Nat /\ invoices[i].paid \in Nat /\ invoices[i].due \in Nat
               /\ invoices[i].paid <= invoices[i].total
               /\ invoices[i].due = invoices[i].total - invoices[i].paid
    BY <2>1, AllocatedToIsNat, InvoiceFields DEF CoreInv, TypeInv, BooksBalance, InvoicesValid
  <2>3. ASSUME NEW i \in Invoice
        PROVE  invoices[i].paid = Smaller(AllocatedTo(allocations, i), invoices[i].total)
    <3>1. CASE i \in Billed
      <4>1. \A n \in DOMAIN log \ reconciled : ~Touches(log[n], i)
        BY DEF Touches, Moves
      <4>2. invoices[i].paid = PaidOf(i)
        BY <3>1, <4>1 DEF CoreInv, PaidInv
      <4>3. NetAllocated(i) = AllocatedTo(allocations, i)
        <5>1. Net(log, Len(log), i) + 0 = AllocatedTo(allocations, i)
          BY DEF CoreInv, NetInv, Pending
        <5>2. Net(log, Len(log), i) \in Int
          <6>1. Len(log) \in 0 .. Len(log)
            BY <2>1
          <6> QED
            BY <2>1, <6>1, NetIsInt
        <5> QED
          BY <2>1, <5>1, <5>2, NetOfLog
      <4> QED
        BY <2>2, <4>2, <4>3 DEF PaidOf, Smaller, Larger
    <3>2. CASE i \notin Billed
      <4>1. AllocatedTo(allocations, i) = 0
        BY <2>1, <3>2, AllocatedToNone
      <4>2. invoices[i].paid = 0
        BY <2>2, <3>2 DEF Billed, TakesAllocations, CoreInv, StatusInv
      <4> QED
        BY <2>2, <4>1, <4>2 DEF Smaller
    <3> QED
      BY <3>1, <3>2
  <2>4. ASSUME \A i \in Billed : Outstanding(i) >= 0
        PROVE  ClosingBalance = SumFunction([i \in Billed |-> invoices[i].due])
    <3>1. PICK f : f = [i \in Billed |-> invoices[i].due]
      OBVIOUS
    <3>2. PICK g : g = [i \in Billed |-> AllocatedTo(allocations, i)]
      OBVIOUS
    <3>3. PICK h : h = [i \in Billed |-> invoices[i].total]
      OBVIOUS
    <3>4. \A i \in Billed : i \in Invoice
      BY DEF Billed
    <3>5. f \in [Billed -> Int] /\ g \in [Billed -> Int] /\ h \in [Billed -> Int]
      BY <2>2, <3>1, <3>2, <3>3, <3>4
    <3>6. ASSUME NEW i \in Billed PROVE h[i] = f[i] + g[i]
      <4>1. AllocatedTo(allocations, i) <= invoices[i].total
        BY <2>2, <2>4, <3>4 DEF Outstanding
      <4>2. invoices[i].paid = AllocatedTo(allocations, i)
        BY <2>2, <2>3, <3>4, <4>1 DEF Smaller
      <4>3. f[i] = invoices[i].due /\ g[i] = AllocatedTo(allocations, i) /\ h[i] = invoices[i].total
        BY <3>1, <3>2, <3>3
      <4> QED
        BY <2>2, <3>4, <4>2, <4>3
    <3>7. SumFunction(h) = SumFunction(f) + SumFunction(g)
      <4>1. PICK D : D = Billed
        OBVIOUS
      <4>2. AddsPointwise(h, f, g, D)
        BY <2>1, <3>5, <3>6, <4>1 DEF AddsPointwise
      <4> QED
        BY <4>2, SumAdds
    <3>8. SumFunction(g) = SumOf(allocations)
      <4>1. SumFunction([i \in Billed |-> AllocatedTo(allocations, i)]) = SumOf(allocations)
        BY <2>1, SumOverInvoices
      <4> QED
        BY <3>2, <4>1, Zenon
    <3>9. SumFunction(f) \in Int /\ SumFunction(g) \in Int
      BY <2>1, <3>5, SumIsInt
    <3>10. ClosingBalance = SumFunction(h) - SumOf(allocations)
      BY <3>3, Zenon DEF ClosingBalance
    <3>11. ClosingBalance = SumFunction(f)
      BY <3>7, <3>8, <3>9, <3>10
    <3> QED
      BY <3>1, <3>11, Zenon
  <2> QED
    BY <2>3, <2>4
<1> QED
  BY <1>1, CoreHolds, PTL

-----------------------------------------------------------------------------
(* The invariant of the AR projections.                                    *)
ReceivableInv == IssuedInv /\ IssuedFirst /\ RangeInv /\ PositionInv

\* An invoice that is charged nothing yet, or one whose total will not change.
LEMMA TotalStays ==
    ASSUME CoreInv, [Next]_vars, NEW i \in Invoice
    PROVE  \/ invoices'[i].total = invoices[i].total
           \/ /\ \A a \in allocations : a.invoice # i
              /\ \A n \in DOMAIN log : ~Touches(log[n], i)
<1>1. CASE invoices[i].status \in {"absent", "draft"}
  BY <1>1 DEF CoreInv, ChargedInv, Charged, TakesAllocations, Touches, Moves
<1>2. CASE invoices[i].status \notin {"absent", "draft"}
  BY <1>2, InvoiceEffect, ReconciledType DEF CoreInv
<1> QED
  BY <1>1, <1>2

\* A step logs nothing, one event that moves allocations, or that an invoice
\* is issued or voided.
LEMMA LogEffect ==
    ASSUME CoreInv, [Next]_vars
    PROVE  \/ log' = log
           \/ /\ afterCommit' = <<>> /\ UNCHANGED <<invoices, positions, projected, inOrder>>
              /\ \E e \in Event : /\ log' = Append(log, e) /\ ~Quiet(e)
                                  /\ \A a \in e.changes : a.invoice \in Invoice /\ Charged(a)
           \/ /\ afterCommit' = <<>> /\ UNCHANGED <<allocations, positions, projected, inOrder>>
              /\ \E i \in Invoice, inv \in InvoiceRecord : IssuesOrVoids(i, inv)
<1>0. TypeInv /\ StatusInv /\ ChargedInv /\ allocations \in Changes
  BY DEF CoreInv, TypeInv
<1>1. ASSUME NEW p \in Payment, NEW removed \in SUBSET allocations, Refunds(p, removed)
      PROVE  /\ afterCommit' = <<>> /\ UNCHANGED <<invoices, positions, projected, inOrder>>
             /\ \E e \in Event : /\ log' = Append(log, e) /\ ~Quiet(e)
                                 /\ \A a \in e.changes : a.invoice \in Invoice /\ Charged(a)
  <2>1. PICK e : e = [type |-> "refunded", changes |-> removed]
    OBVIOUS
  <2>2. e \in Event /\ ~Quiet(e) /\ e.changes = removed
    BY <1>0, <2>1, Amounts DEF Event, MoveEvent, Quiet
  <2>3. \A a \in removed : a.invoice \in Invoice /\ Charged(a)
    BY <1>0, Amounts DEF ChargedInv
  <2>4. log' = Append(log, e) /\ afterCommit' = <<>> /\ UNCHANGED <<invoices, positions, projected, inOrder>>
    BY <1>1, <2>1, ReceivablesKept DEF Refunds, PaysWithin
  <2> QED
    BY <2>2, <2>3, <2>4
<1>2. ASSUME LogAllocated
      PROVE  /\ afterCommit' = <<>> /\ UNCHANGED <<invoices, positions, projected, inOrder>>
             /\ \E e \in Event : /\ log' = Append(log, e) /\ ~Quiet(e)
                                 /\ \A a \in e.changes : a.invoice \in Invoice /\ Charged(a)
  <2>1. PICK e : e = Head(afterCommit)
    OBVIOUS
  <2>2. afterCommit # <<>> /\ log' = Append(log, e)
    BY <1>2, <2>1 DEF LogAllocated
  <2>3. afterCommit' = <<>> /\ e \in Event /\ ~Quiet(e) /\ e.changes \in Changes
    BY <1>0, <1>2, <2>1, <2>2, PendingCallback DEF LogAllocated, Quiet
  <2>4. \A a \in e.changes : a.invoice \in Invoice /\ Charged(a)
    BY <1>0, <2>1, <2>2, <2>3, Amounts DEF ChargedInv
  <2>5. UNCHANGED <<invoices, positions, projected, inOrder>>
    BY <1>2, ReceivablesKept DEF LogAllocated, books
  <2> QED
    BY <2>2, <2>3, <2>4, <2>5
<1>3. ASSUME NEW i \in Invoice, NEW inv \in InvoiceRecord, IssuesOrVoids(i, inv)
      PROVE  afterCommit' = <<>> /\ UNCHANGED <<allocations, positions, projected, inOrder>>
  BY <1>3, ReceivablesKept DEF IssuesOrVoids, WritesInvoice
<1>4. CASE \E n \in DOMAIN log :
             ApplyInvoiceIssued(n) \/ ApplyPaymentAllocated(n) \/ ApplyInvoiceVoided(n)
  BY <1>0, <1>4, ProjectSteps
<1>5. CASE \/ UNCHANGED vars
           \/ \E n \in DOMAIN log, written \in SUBSET Invoice : Reconciles(n, written)
           \/ \E i \in Invoice, inv \in InvoiceRecord : Edits(i, inv)
           \/ \E p \in Payment : Records(p)
           \/ \E p \in Payment, new \in Changes : Allocates(p, new)
  BY <1>5 DEF vars, Reconciles, Edits, Records, Allocates
<1> QED
  BY <1>0, <1>1, <1>2, <1>3, <1>4, <1>5, Steps

LEMMA IssuedStep ==
    ASSUME CoreInv, IssuedInv, [Next]_vars PROVE IssuedInv'
<1>0. TypeInv /\ StatusInv /\ log \in Seq(Event) /\ invoices \in [Invoice -> InvoiceRecord]
  BY DEF CoreInv, TypeInv
<1> DEFINE Right(e) ==
             /\ e.type = "issued" => /\ invoices'[e.invoice].status \notin {"absent", "draft"}
                                     /\ invoices'[e.invoice].total = e.total
             /\ e.type = "voided" => invoices'[e.invoice].status = "void"
<1>1. ASSUME NEW n \in DOMAIN log PROVE Right(log[n])
  <2>1. log[n] \in Event
    BY <1>0
  <2>2. log[n].type \in {"issued", "voided"} => log[n].invoice \in Invoice
    BY <2>1 DEF Event, IssuedEvent, VoidedEvent, MoveEvent
  <2>3. CASE log[n].type = "issued"
    <3>1. /\ log[n].invoice \in Invoice
          /\ invoices[log[n].invoice].status \notin {"absent", "draft"}
          /\ invoices[log[n].invoice].total = log[n].total
      BY <2>2, <2>3 DEF IssuedInv
    <3>2. /\ invoices'[log[n].invoice].status \notin {"absent", "draft"}
          /\ invoices'[log[n].invoice].total = invoices[log[n].invoice].total
      BY <1>0, <3>1, InvoiceEffect, ReconciledType
    <3> QED
      BY <2>3, <3>1, <3>2
  <2>4. CASE log[n].type = "voided"
    <3>1. log[n].invoice \in Invoice /\ invoices[log[n].invoice].status = "void"
      BY <2>2, <2>4 DEF IssuedInv
    <3>2. invoices'[log[n].invoice].status = "void"
      BY <1>0, <3>1, InvoiceEffect DEF TakesAllocations
    <3> QED
      BY <2>4, <3>2
  <2> QED
    BY <2>3, <2>4
<1>2. ASSUME NEW e \in Event, log' = Append(log, e), Right(e) PROVE \A n \in DOMAIN log' : Right(log'[n])
  <2>1. /\ DOMAIN log' = 1 .. Len(log) + 1 /\ DOMAIN log = 1 .. Len(log)
        /\ \A n \in DOMAIN log : log'[n] = log[n]
        /\ log'[Len(log) + 1] = e /\ Len(log) \in Nat
    BY <1>0, <1>2
  <2> HIDE DEF Right
  <2> QED
    BY <1>1, <1>2, <2>1
<1>3. ASSUME NEW i \in Invoice, NEW inv \in InvoiceRecord, IssuesOrVoids(i, inv)
      PROVE  \E e \in Event : log' = Append(log, e) /\ Right(e)
  <2>1. invoices'[i] = inv
    BY <1>0, <1>3 DEF IssuesOrVoids, WritesInvoice
  <2>2. CASE inv.status = "issued" /\ log' = Append(log, [type |-> "issued", invoice |-> i, total |-> inv.total])
    <3>1. PICK e : e = [type |-> "issued", invoice |-> i, total |-> inv.total]
      OBVIOUS
    <3>2. e \in Event /\ e.type = "issued" /\ e.invoice = i /\ e.total = inv.total
      BY <3>1, InvoiceFields DEF Event, IssuedEvent
    <3> QED
      BY <2>1, <2>2, <3>1, <3>2
  <2>3. CASE inv.status = "void" /\ log' = Append(log, [type |-> "voided", invoice |-> i])
    <3>1. PICK e : e = [type |-> "voided", invoice |-> i]
      OBVIOUS
    <3>2. e \in Event /\ e.type = "voided" /\ e.invoice = i
      BY <3>1 DEF Event, VoidedEvent
    <3> QED
      BY <2>1, <2>3, <3>1, <3>2
  <2> QED
    BY <1>3, <2>2, <2>3 DEF IssuesOrVoids
<1>4. \A n \in DOMAIN log' : Right(log'[n])
  <2>1. CASE log' = log
    BY <1>1, <2>1
  <2>2. CASE \E e \in Event : log' = Append(log, e) /\ ~Quiet(e)
    <3>1. PICK e \in Event : log' = Append(log, e) /\ ~Quiet(e)
      BY <2>2
    <3>2. Right(e)
      BY <3>1 DEF Quiet
    <3> HIDE DEF Right
    <3> QED
      BY <1>2, <3>1, <3>2
  <2>3. CASE \E i \in Invoice, inv \in InvoiceRecord : IssuesOrVoids(i, inv)
    <3> HIDE DEF Right
    <3> QED
      BY <1>2, <1>3, <2>3
  <2> QED
    BY <2>1, <2>2, <2>3, LogEffect
<1> QED
  BY <1>4 DEF IssuedInv

(* An invoice is announced as issued before anything is allocated to it.   *)
LEMMA IssuedFirstStep ==
    ASSUME CoreInv, IssuedFirst, [Next]_vars PROVE IssuedFirst'
<1>0. TypeInv /\ StatusInv /\ log \in Seq(Event) /\ invoices \in [Invoice -> InvoiceRecord]
  BY DEF CoreInv, TypeInv
<1>1. ASSUME NEW e \in Event, log' = Append(log, e)
      PROVE  /\ DOMAIN log' = 1 .. Len(log) + 1 /\ DOMAIN log = 1 .. Len(log)
             /\ \A n \in DOMAIN log : log'[n] = log[n]
             /\ log'[Len(log) + 1] = e /\ Len(log) \in Nat
  BY <1>0, <1>1
<1>2. ASSUME NEW e \in Event, log' = Append(log, e),
             \A i \in Invoice : Touches(e, i) => i \in Billed
      PROVE  \A n \in DOMAIN log', i \in Invoice :
               Touches(log'[n], i) => \E k \in 1 .. n - 1 : Issues(log'[k], i)
  <2> SUFFICES ASSUME NEW n \in DOMAIN log', NEW i \in Invoice, Touches(log'[n], i)
               PROVE  \E k \in 1 .. n - 1 : Issues(log'[k], i)
    OBVIOUS
  <2>1. CASE n \in DOMAIN log
    <3>1. PICK k \in 1 .. n - 1 : Issues(log[k], i)
      BY <1>1, <1>2, <2>1 DEF IssuedFirst
    <3>2. k \in DOMAIN log
      BY <1>1, <1>2, <2>1
    <3> QED
      BY <1>1, <1>2, <3>1, <3>2
  <2>2. CASE n = Len(log) + 1
    <3>1. i \in Billed
      BY <1>1, <1>2, <2>2
    <3>2. PICK k \in DOMAIN log : Issues(log[k], i)
      BY <3>1 DEF IssuedFirst
    <3>3. k \in 1 .. n - 1 /\ log'[k] = log[k]
      BY <1>1, <1>2, <2>2
    <3> QED
      BY <3>2, <3>3
  <2> QED
    BY <1>1, <1>2, <2>1, <2>2
<1>3. ASSUME NEW i \in Billed
      PROVE  \E k \in DOMAIN log' : Issues(log'[k], i)
  <2>1. PICK k \in DOMAIN log : Issues(log[k], i)
    BY <1>3 DEF IssuedFirst
  <2>2. k \in DOMAIN log' /\ log'[k] = log[k]
    <3>1. CASE log' = log
      BY <3>1
    <3>2. CASE \E e \in Event : log' = Append(log, e)
      BY <1>1, <3>2
    <3>3. CASE \E j \in Invoice, inv \in InvoiceRecord : IssuesOrVoids(j, inv)
      <4>1. \E e \in Event : log' = Append(log, e)
        <5>1. \A j \in Invoice, inv \in InvoiceRecord :
                [type |-> "issued", invoice |-> j, total |-> inv.total] \in Event
          BY InvoiceFields DEF Event, IssuedEvent
        <5>2. \A j \in Invoice : [type |-> "voided", invoice |-> j] \in Event
          BY DEF Event, VoidedEvent
        <5> QED
          BY <3>3, <5>1, <5>2 DEF IssuesOrVoids
      <4> QED
        BY <3>2, <4>1
    <3> QED
      BY <3>1, <3>2, <3>3, LogEffect
  <2> QED
    BY <2>1, <2>2
<1>4. CASE log' = log
  <2>1. Billed' \subseteq Billed
    <3>1. CASE \E n \in DOMAIN log, written \in SUBSET Invoice : Reconciles(n, written)
      <4>1. \A i \in Invoice : invoices'[i] = invoices[i] \/ TakesAllocations(i)
        BY <3>1 DEF Reconciles
      <4> QED
        BY <4>1 DEF Billed, TakesAllocations
    <3>2. CASE \E i \in Invoice, inv \in InvoiceRecord : Edits(i, inv)
      BY <1>0, <3>2 DEF Edits, WritesInvoice, Billed, TakesAllocations
    <3>3. CASE UNCHANGED invoices
      BY <3>3 DEF Billed, TakesAllocations
    <3>4. CASE \E i \in Invoice, inv \in InvoiceRecord : IssuesOrVoids(i, inv)
      <4>1. \E e : log' = Append(log, e)
        BY <3>4 DEF IssuesOrVoids
      <4>2. Len(log') = Len(log) + 1 /\ Len(log) \in Nat
        BY <1>0, <4>1
      <4> QED
        BY <1>4, <4>2
    <3>5. CASE \/ UNCHANGED vars
               \/ \E p \in Payment : Records(p)
               \/ \E p \in Payment, new \in Changes : Allocates(p, new)
               \/ \E p \in Payment, removed \in SUBSET allocations : Refunds(p, removed)
               \/ LogAllocated
      BY <3>3, <3>5 DEF vars, books, Records, Allocates, Refunds, PaysWithin, LogAllocated
    <3>6. CASE \E n \in DOMAIN log :
                 ApplyInvoiceIssued(n) \/ ApplyPaymentAllocated(n) \/ ApplyInvoiceVoided(n)
      BY <1>0, <3>3, <3>6, ProjectSteps DEF books
    <3> QED
      BY <1>0, <3>1, <3>2, <3>4, <3>5, <3>6, Steps
  <2>2. \A i \in Billed' : \E k \in DOMAIN log' : Issues(log'[k], i)
    BY <1>3, <2>1
  <2>3. \A n \in DOMAIN log, i \in Invoice :
          Touches(log[n], i) => \E k \in 1 .. n - 1 : Issues(log[k], i)
    BY DEF IssuedFirst
  <2> QED
    BY <1>4, <2>2, <2>3 DEF IssuedFirst
<1>5. CASE /\ UNCHANGED invoices
           /\ \E e \in Event : /\ log' = Append(log, e) /\ ~Quiet(e)
                               /\ \A a \in e.changes : a.invoice \in Invoice /\ Charged(a)
  <2>1. PICK e \in Event : /\ log' = Append(log, e)
                           /\ \A a \in e.changes : a.invoice \in Invoice /\ Charged(a)
    BY <1>5
  <2>2. \A i \in Invoice : Touches(e, i) => i \in Billed
    BY <2>1 DEF Touches, Charged, Billed
  <2>3. Billed' = Billed
    BY <1>5 DEF Billed, TakesAllocations
  <2> QED
    BY <1>2, <1>3, <2>1, <2>2, <2>3 DEF IssuedFirst
<1>6. ASSUME NEW i \in Invoice, NEW inv \in InvoiceRecord, IssuesOrVoids(i, inv) PROVE IssuedFirst'
  <2>1. invoices' = [invoices EXCEPT ![i] = inv] /\ invoices'[i] = inv
    BY <1>0, <1>6 DEF IssuesOrVoids, WritesInvoice
  <2>2. CASE inv.status = "issued" /\ log' = Append(log, [type |-> "issued", invoice |-> i, total |-> inv.total])
    <3>1. PICK e : e = [type |-> "issued", invoice |-> i, total |-> inv.total]
      OBVIOUS
    <3>2. e \in Event /\ Issues(e, i) /\ (\A j : ~Touches(e, j)) /\ log' = Append(log, e)
      BY <2>2, <3>1, InvoiceFields DEF Event, IssuedEvent, Issues, Touches
    <3>3. \A j \in Billed' : j \in Billed \/ j = i
      BY <1>0, <2>1 DEF Billed, TakesAllocations
    <3>4. Issues(log'[Len(log) + 1], i) /\ Len(log) + 1 \in DOMAIN log'
      BY <1>1, <3>2
    <3>5. \A j \in Billed' : \E k \in DOMAIN log' : Issues(log'[k], j)
      BY <1>3, <3>3, <3>4
    <3> QED
      BY <1>2, <3>2, <3>5 DEF IssuedFirst
  <2>3. CASE inv.status = "void" /\ log' = Append(log, [type |-> "voided", invoice |-> i])
    <3>1. PICK e : e = [type |-> "voided", invoice |-> i]
      OBVIOUS
    <3>2. e \in Event /\ (\A j : ~Touches(e, j)) /\ log' = Append(log, e)
      BY <2>3, <3>1 DEF Event, VoidedEvent, Touches
    <3>3. \A j \in Billed' : j \in Billed
      BY <1>0, <2>1, <2>3 DEF Billed, TakesAllocations
    <3> QED
      BY <1>2, <1>3, <3>2, <3>3 DEF IssuedFirst
  <2> QED
    BY <1>6, <2>2, <2>3 DEF IssuesOrVoids
<1> QED
  BY <1>4, <1>5, <1>6, LogEffect

(* A log only grows, and what it had nets to what it did.                  *)
LEMMA LogOnlyGrows ==
    ASSUME CoreInv, [Next]_vars
    PROVE  \/ log' = log
           \/ /\ \E e \in Event : log' = Append(log, e)
              /\ afterCommit' = <<>> /\ UNCHANGED <<positions, projected, inOrder>>
<1>1. \A j \in Invoice, inv \in InvoiceRecord :
        [type |-> "issued", invoice |-> j, total |-> inv.total] \in Event
  BY InvoiceFields DEF Event, IssuedEvent
<1>2. \A j \in Invoice : [type |-> "voided", invoice |-> j] \in Event
  BY DEF Event, VoidedEvent
<1> QED
  BY <1>1, <1>2, LogEffect DEF IssuesOrVoids

LEMMA OverAllocatedStays ==
    ASSUME CoreInv, [Next]_vars, ~overAllocated'
    PROVE  /\ ~overAllocated
           /\ \/ UNCHANGED allocations
              \/ /\ UNCHANGED invoices
                 /\ \A i \in Invoice : ~(AllocatedTo(allocations', i) > invoices[i].total)
<1>0. TypeInv /\ StatusInv
  BY DEF CoreInv
<1>1. CASE \E p \in Payment : PaysWithin(p)
  BY <1>1 DEF PaysWithin
<1>2. CASE UNCHANGED <<allocations, overAllocated>>
  BY <1>2
<1>3. CASE \/ UNCHANGED vars \/ LogAllocated
           \/ \E n \in DOMAIN log, written \in SUBSET Invoice : Reconciles(n, written)
           \/ \E i \in Invoice, inv \in InvoiceRecord : WritesInvoice(i, inv)
  BY <1>2, <1>3 DEF vars, books, LogAllocated, Reconciles, WritesInvoice
<1>4. CASE \E n \in DOMAIN log :
             ApplyInvoiceIssued(n) \/ ApplyPaymentAllocated(n) \/ ApplyInvoiceVoided(n)
  BY <1>0, <1>2, <1>4, ProjectSteps DEF books
<1> QED
  BY <1>0, <1>1, <1>3, <1>4, Steps DEF Edits, IssuesOrVoids, Records, Allocates, Refunds

(* While nothing is over-allocated, what the events of any beginning of    *)
(* the log net to is between nothing and the invoice's total.              *)
LEMMA RangeStep ==
    ASSUME CoreInv, RangeInv, [Next]_vars PROVE RangeInv'
<1>0. /\ log \in Seq(Event) /\ Len(log) \in Nat
      /\ allocations \in Changes /\ allocations' \in Changes
      /\ invoices' \in [Invoice -> InvoiceRecord] /\ NetInv' /\ invoices \in [Invoice -> InvoiceRecord]
  BY CoreStep DEF CoreInv, TypeInv
<1> SUFFICES ASSUME ~overAllocated', NEW i \in Invoice
             PROVE  /\ AllocatedTo(allocations', i) <= invoices'[i].total
                    /\ \A m \in 0 .. Len(log') : Net(log', m, i) \in 0 .. invoices'[i].total
  BY DEF RangeInv
<1>1. /\ AllocatedTo(allocations, i) <= invoices[i].total
      /\ \A m \in 0 .. Len(log) : Net(log, m, i) \in 0 .. invoices[i].total
  BY OverAllocatedStays DEF RangeInv
<1>2. /\ invoices'[i].total \in Nat /\ invoices[i].total \in Nat
      /\ AllocatedTo(allocations', i) \in Nat /\ AllocatedTo(allocations, i) \in Nat
  BY <1>0, InvoiceFields, AllocatedToIsNat
<1>3. \/ invoices'[i].total = invoices[i].total
      \/ /\ AllocatedTo(allocations, i) = 0
         /\ \A m \in 0 .. Len(log) : Net(log, m, i) = 0
  <2>1. CASE invoices'[i].total = invoices[i].total
    BY <2>1
  <2>2. CASE /\ \A a \in allocations : a.invoice # i
             /\ \A n \in DOMAIN log : ~Touches(log[n], i)
    <3>1. AllocatedTo(allocations, i) = 0
      BY <2>2, AllocatedToNone
    <3>2. ASSUME NEW m \in 0 .. Len(log) PROVE Net(log, m, i) = 0
      <4>1. \A n \in 1 .. m : n \in DOMAIN log
        BY <1>0
      <4> QED
        BY <1>0, <2>2, <4>1, NetUntouched
    <3> QED
      BY <3>1, <3>2
  <2> QED
    BY <2>1, <2>2, TotalStays
<1>4. AllocatedTo(allocations', i) <= invoices'[i].total
  <2>1. CASE UNCHANGED allocations
    BY <1>1, <1>2, <1>3, <2>1
  <2>2. CASE UNCHANGED invoices /\ ~(AllocatedTo(allocations', i) > invoices[i].total)
    BY <1>2, <2>2
  <2> QED
    BY <2>1, <2>2, OverAllocatedStays
<1>5. \A m \in 0 .. Len(log) : Net(log, m, i) \in 0 .. invoices'[i].total
  BY <1>1, <1>2, <1>3
<1>6. CASE log' = log
  BY <1>4, <1>5, <1>6
<1>7. ASSUME NEW e \in Event, log' = Append(log, e), afterCommit' = <<>>
      PROVE  \A m \in 0 .. Len(log') : Net(log', m, i) \in 0 .. invoices'[i].total
  <2>1. /\ log' \in Seq(Event) /\ Len(log') = Len(log) + 1
        /\ \A m \in 0 .. Len(log) : Net(log', m, i) = Net(log, m, i)
    BY <1>0, <1>7, LogGrows
  <2>2. Net(log', Len(log'), i) = AllocatedTo(allocations', i)
    <3>1. Pending(i)' = 0
      BY <1>7 DEF Pending
    <3>2. Net(log', Len(log'), i) + 0 = AllocatedTo(allocations', i)
      BY <1>0, <3>1 DEF NetInv
    <3>3. Len(log') \in 0 .. Len(log')
      BY <1>0, <2>1
    <3>4. Net(log', Len(log'), i) \in Int
      BY <2>1, <3>3, NetIsInt
    <3> QED
      BY <3>2, <3>4
  <2>3. \A m \in 0 .. Len(log') : m \in 0 .. Len(log) \/ m = Len(log')
    BY <1>0, <2>1
  <2> QED
    BY <1>2, <1>4, <1>5, <2>1, <2>2, <2>3
<1> QED
  BY <1>4, <1>6, <1>7, LogOnlyGrows

(* Positions that are not written stay right: invoices that are announced  *)
(* keep their totals, and the log keeps its beginning.                     *)
LEMMA PositionStays ==
    ASSUME CoreInv, ReceivableInv, [Next]_vars, UNCHANGED positions,
           NEW m \in 0 .. Len(log), NEW i \in Invoice, PositionAt(m, i)
    PROVE  PositionAt(m, i)'
<1>0. /\ TypeInv /\ StatusInv /\ log \in Seq(Event) /\ Len(log) \in Nat
      /\ invoices \in [Invoice -> InvoiceRecord]
  BY DEF CoreInv, TypeInv
<1>1. (\A k \in 1 .. m : k \in DOMAIN log /\ log'[k] = log[k])
  <2>1. \A k \in 1 .. m : k \in DOMAIN log
    BY <1>0
  <2>2. \A k \in DOMAIN log : log'[k] = log[k]
    BY <1>0, LogOnlyGrows
  <2> QED
    BY <2>1, <2>2
<1>2. Net(log', m, i) = Net(log, m, i)
  BY <1>1, NetOfPrefix
<1>3. CASE positions[i].status = "absent"
  BY <1>1, <1>3 DEF PositionAt
<1>4. CASE positions[i].status # "absent"
  <2>1. /\ positions[i].total = invoices[i].total
        /\ positions[i].open = invoices[i].total - Net(log, m, i)
        /\ positions[i].status = "void" => invoices[i].status = "void"
    BY <1>4 DEF PositionAt
  <2>2. PICK k \in 1 .. m : Issues(log[k], i)
    BY <1>4 DEF PositionAt
  <2>3. invoices[i].status \notin {"absent", "draft"}
    BY <1>1, <2>2 DEF Issues, ReceivableInv, IssuedInv
  <2>4. /\ invoices'[i].total = invoices[i].total
        /\ invoices[i].status = "void" => invoices'[i].status = "void"
    BY <1>0, <2>3, InvoiceEffect, ReconciledType DEF TakesAllocations
  <2>5. \E n \in 1 .. m : Issues(log'[n], i)
    BY <1>1, <2>2
  <2> QED
    BY <1>2, <1>4, <2>1, <2>4, <2>5 DEF PositionAt
<1> QED
  BY <1>3, <1>4

(* The event after those handled brings every position up to date.         *)
LEMMA PositionApplied ==
    ASSUME CoreInv, ReceivableInv, ~overAllocated, NEW m \in Nat, m + 1 \in DOMAIN log,
           \A i \in Invoice : PositionAt(m, i),
           \/ ApplyInvoiceIssued(m + 1) \/ ApplyPaymentAllocated(m + 1) \/ ApplyInvoiceVoided(m + 1)
    PROVE  \A i \in Invoice : PositionAt(m + 1, i)'
<1>0. /\ TypeInv /\ log \in Seq(Event) /\ Len(log) \in Nat /\ DOMAIN log = 1 .. Len(log)
      /\ positions \in [Invoice -> Position] /\ invoices \in [Invoice -> InvoiceRecord]
      /\ UNCHANGED <<invoices, log>>
  BY ProjectSteps DEF CoreInv, TypeInv, books
<1>1. PICK e \in Event : e = log[m + 1]
  BY <1>0
<1> SUFFICES ASSUME NEW i \in Invoice PROVE PositionAt(m + 1, i)'
  OBVIOUS
<1>2. /\ PositionAt(m, i)
      /\ m \in 0 .. Len(log) - 1 /\ m \in 0 .. Len(log) /\ m + 1 \in 0 .. Len(log)
  BY <1>0
<1>3. /\ invoices[i].total \in Nat
      /\ positions[i].status \in {"absent", "open", "closed", "void"}
      /\ positions[i].total \in Nat /\ positions[i].open \in Nat
  BY <1>0, InvoiceFields DEF Position
<1>4. /\ Net(log, m + 1, i) = Change(e, i) + Net(log, m, i)
      /\ Net(log, m, i) \in 0 .. invoices[i].total
      /\ Net(log, m + 1, i) \in 0 .. invoices[i].total
      /\ Change(e, i) \in Int
  BY <1>0, <1>1, <1>2, NetStep, ChangeIsInt DEF ReceivableInv, RangeInv
<1>5. ~Touches(e, i) => Net(log, m + 1, i) = Net(log, m, i)
  BY <1>4, UntouchedChange
<1>6. \A k \in 1 .. m : k \in 1 .. m + 1
  OBVIOUS
<1>7. \A k \in 1 .. m + 1 : k \in 1 .. m \/ k = m + 1
  OBVIOUS
<1>8. ASSUME positions'[i] = positions[i], ~Touches(e, i), positions[i].status = "absent" => ~Issues(e, i)
      PROVE  PositionAt(m + 1, i)'
  <2>1. CASE positions[i].status = "absent"
    <3>1. \A k \in 1 .. m : ~Issues(log[k], i)
      BY <1>2, <2>1 DEF PositionAt
    <3>2. \A k \in 1 .. m + 1 : ~Issues(log[k], i)
      BY <1>1, <1>7, <1>8, <2>1, <3>1
    <3> QED
      BY <1>0, <1>8, <2>1, <3>2 DEF PositionAt
  <2>2. CASE positions[i].status # "absent"
    <3>1. /\ \E k \in 1 .. m : Issues(log[k], i)
          /\ positions[i].total = invoices[i].total
          /\ positions[i].open = invoices[i].total - Net(log, m, i)
          /\ positions[i].status = "void" => invoices[i].status = "void"
      BY <1>2, <2>2 DEF PositionAt
    <3>2. \E k \in 1 .. m + 1 : Issues(log[k], i)
      BY <1>6, <3>1
    <3>3. positions[i].open = invoices[i].total - Net(log, m + 1, i)
      BY <1>5, <1>8, <3>1
    <3> QED
      BY <1>0, <1>8, <2>2, <3>1, <3>2, <3>3 DEF PositionAt
  <2> QED
    BY <2>1, <2>2
<1>9. ASSUME NEW new, positions'[i] = new, new.status \in {"open", "closed", "void"},
             new.total = invoices[i].total, new.open = invoices[i].total - Net(log, m + 1, i),
             new.status = "void" => invoices[i].status = "void",
             NEW k \in 1 .. m + 1, Issues(log[k], i)
      PROVE  PositionAt(m + 1, i)'
  BY <1>0, <1>9 DEF PositionAt
<1>10. CASE ApplyInvoiceIssued(m + 1)
  <2>1. e.type = "issued" /\ e.invoice \in Invoice /\ e.total \in Nat
    BY <1>1, <1>10 DEF ApplyInvoiceIssued, Event, IssuedEvent, VoidedEvent, MoveEvent
  <2>2. ~Touches(e, i)
    BY <2>1 DEF Touches
  <2> DEFINE base == IF positions[e.invoice].status = "absent" THEN e.total
                     ELSE positions[e.invoice].open
             new == [total |-> e.total, open |-> Larger(0, Smaller(e.total, base)),
                     status |-> IF base <= 0 THEN "closed" ELSE "open"]
  <2>3. positions' = [positions EXCEPT ![e.invoice] = new]
    BY <1>1, <1>10, Zenon DEF ApplyInvoiceIssued, Project
  <2>4. CASE i # e.invoice
    <3>1. positions'[i] = positions[i] /\ ~Issues(e, i)
      BY <1>0, <2>3, <2>4 DEF Issues
    <3> QED
      BY <1>8, <2>2, <3>1
  <2>5. CASE i = e.invoice
    <3>1. positions'[i] = new
      BY <1>0, <2>3, <2>5
    <3>2. e.total = invoices[i].total
      BY <1>1, <2>1, <2>5 DEF ReceivableInv, IssuedInv
    <3>3. base = invoices[i].total - Net(log, m, i)
      <4>1. CASE positions[i].status = "absent"
        <5>1. \A k \in 1 .. m : ~Issues(log[k], i)
          BY <1>2, <4>1 DEF PositionAt
        <5>2. \A k \in 1 .. m : ~Touches(log[k], i)
          <6> SUFFICES ASSUME NEW k \in 1 .. m, Touches(log[k], i) PROVE FALSE
            OBVIOUS
          <6>1. k \in DOMAIN log
            BY <1>0, <1>2
          <6>2. PICK j \in 1 .. k - 1 : Issues(log[j], i)
            BY <6>1 DEF ReceivableInv, IssuedFirst
          <6>3. j \in 1 .. m
            BY <1>2
          <6> QED
            BY <5>1, <6>2, <6>3
        <5>3. Net(log, m, i) = 0
          BY <1>0, <1>2, <5>2, NetUntouched
        <5> QED
          BY <1>3, <2>5, <3>2, <4>1, <5>3
      <4>2. CASE positions[i].status # "absent"
        BY <1>2, <2>5, <4>2 DEF PositionAt
      <4> QED
        BY <4>1, <4>2
    <3> HIDE DEF base
    <3>4. Larger(0, Smaller(e.total, base)) = invoices[i].total - Net(log, m + 1, i)
      <4>1. Net(log, m + 1, i) = Net(log, m, i)
        BY <1>5, <2>2
      <4> QED
        BY <1>3, <1>4, <3>2, <3>3, <4>1 DEF Larger, Smaller
    <3>5. /\ new.total = invoices[i].total /\ new.status \in {"open", "closed"}
          /\ new.open = invoices[i].total - Net(log, m + 1, i)
      BY <3>2, <3>4
    <3>6. m + 1 \in 1 .. m + 1 /\ Issues(log[m + 1], i)
      BY <1>1, <2>1, <2>5 DEF Issues
    <3> HIDE DEF new
    <3> QED
      BY <1>9, <3>1, <3>5, <3>6
  <2> QED
    BY <2>4, <2>5
<1>11. CASE ApplyPaymentAllocated(m + 1)
  <2>1. e.type \in {"allocated", "refunded"} /\ ~Issues(e, i) /\ Moves(m + 1)
    BY <1>1, <1>11 DEF ApplyPaymentAllocated, Moves, Issues
  <2> DEFINE touched == {a.invoice : a \in log[m + 1].changes}
             open(j) == Larger(0, Smaller(positions[j].total, positions[j].open - Delta(m + 1, j)))
             new(j) == IF j \in touched /\ positions[j].status \notin {"absent", "void"}
                       THEN [positions[j] EXCEPT !.open = open(j),
                                 !.status = IF open(j) = 0 THEN "closed" ELSE "open"]
                       ELSE positions[j]
  <2>2. positions' = [j \in Invoice |-> new(j)]
    BY <1>11, Zenon DEF ApplyPaymentAllocated, Project
  <2>3. positions'[i] = new(i)
    BY <2>2
  <2>4. CASE ~Touches(e, i)
    <3>1. positions'[i] = positions[i]
      BY <1>1, <2>1, <2>3, <2>4 DEF Touches
    <3> QED
      BY <1>8, <2>1, <2>4, <3>1
  <2>5. CASE Touches(e, i)
    <3>1. i \in touched /\ TakesAllocations(i)
      BY <1>0, <1>1, <2>1, <2>5 DEF Touches, CoreInv, ChargedInv, Charged
    <3>2. PICK k \in 1 .. (m + 1) - 1 : Issues(log[k], i)
      BY <1>0, <1>1, <2>5 DEF ReceivableInv, IssuedFirst
    <3>3. k \in 1 .. m /\ k \in 1 .. m + 1
      OBVIOUS
    <3>4. positions[i].status # "absent"
      BY <1>2, <3>2, <3>3 DEF PositionAt
    <3>5. /\ positions[i].total = invoices[i].total
          /\ positions[i].open = invoices[i].total - Net(log, m, i)
          /\ positions[i].status # "void"
      BY <1>2, <3>1, <3>4 DEF PositionAt, TakesAllocations
    <3>6. Delta(m + 1, i) = Change(e, i)
      BY <1>1, Zenon DEF Delta, Change
    <3>7. open(i) = invoices[i].total - Net(log, m + 1, i)
      BY <1>3, <1>4, <3>5, <3>6 DEF Larger, Smaller
    <3>8. positions'[i] = [positions[i] EXCEPT !.open = open(i),
                               !.status = IF open(i) = 0 THEN "closed" ELSE "open"]
      BY <2>3, <3>1, <3>4, <3>5
    <3>9. positions[i] \in Position
      BY <1>0
    <3> HIDE DEF open, new, touched
    <3>10. /\ positions'[i].open = open(i) /\ positions'[i].total = positions[i].total
           /\ positions'[i].status \in {"open", "closed"}
      BY <3>8, <3>9 DEF Position
    <3>11. /\ positions'[i].open = invoices[i].total - Net(log, m + 1, i)
           /\ positions'[i].total = invoices[i].total
      BY <3>5, <3>7, <3>10
    <3> QED
      BY <1>9, <3>2, <3>3, <3>10, <3>11
  <2> QED
    BY <2>4, <2>5
<1>12. CASE ApplyInvoiceVoided(m + 1)
  <2>1. e.type = "voided" /\ e.invoice \in Invoice /\ ~Touches(e, i) /\ ~Issues(e, i)
    BY <1>1, <1>12 DEF ApplyInvoiceVoided, Event, IssuedEvent, VoidedEvent, MoveEvent, Touches, Issues
  <2>2. positions' = IF positions[e.invoice].status = "absent" THEN positions
                     ELSE [positions EXCEPT ![e.invoice].open = 0, ![e.invoice].status = "void"]
    BY <1>1, <1>12, Zenon DEF ApplyInvoiceVoided, Project
  <2>3. CASE i # e.invoice \/ positions[e.invoice].status = "absent"
    <3>1. positions'[i] = positions[i]
      BY <1>0, <2>2, <2>3
    <3> QED
      BY <1>8, <2>1, <3>1
  <2>4. CASE i = e.invoice /\ positions[i].status # "absent"
    <3>1. invoices[i].status = "void"
      BY <1>1, <2>1, <2>4 DEF ReceivableInv, IssuedInv
    <3>2. invoices[i].total = 0
      BY <3>1 DEF CoreInv, StatusInv
    <3>3. Net(log, m + 1, i) = 0
      BY <1>4, <3>2
    <3>4. positions[i] \in Position
      BY <1>0
    <3>5. /\ positions'[i].open = 0 /\ positions'[i].status = "void"
          /\ positions'[i].total = positions[i].total
      BY <1>0, <2>2, <2>4, <3>4 DEF Position
    <3>6. positions[i].total = invoices[i].total /\ \E k \in 1 .. m : Issues(log[k], i)
      BY <1>2, <2>4 DEF PositionAt
    <3>7. PICK k \in 1 .. m + 1 : Issues(log[k], i)
      BY <1>6, <3>6
    <3>8. positions'[i].open = invoices[i].total - Net(log, m + 1, i)
      BY <3>2, <3>3, <3>5
    <3> QED
      BY <1>9, <3>1, <3>5, <3>6, <3>7, <3>8
  <2> QED
    BY <2>3, <2>4
<1> QED
  BY <1>10, <1>11, <1>12

LEMMA PositionStep ==
    ASSUME CoreInv, ReceivableInv, [Next]_vars PROVE PositionInv'
<1>0. /\ TypeInv /\ StatusInv /\ log \in Seq(Event) /\ Len(log) \in Nat /\ DOMAIN log = 1 .. Len(log)
      /\ inOrder \in BOOLEAN /\ log' \in Seq(Event)
  BY CoreStep DEF CoreInv, TypeInv
<1> SUFFICES ASSUME inOrder', ~overAllocated'
             PROVE  \E m \in 0 .. Len(log') : projected' = 1 .. m /\ \A i \in Invoice : PositionAt(m, i)'
  BY DEF PositionInv
<1>1. ~overAllocated
  BY OverAllocatedStays
<1>2. ASSUME UNCHANGED <<positions, projected, inOrder>>
      PROVE  \E m \in 0 .. Len(log') : projected' = 1 .. m /\ \A i \in Invoice : PositionAt(m, i)'
  <2>1. PICK m \in 0 .. Len(log) : projected = 1 .. m /\ \A i \in Invoice : PositionAt(m, i)
    BY <1>1, <1>2 DEF ReceivableInv, PositionInv
  <2>2. \A i \in Invoice : PositionAt(m, i)'
    BY <1>2, <2>1, PositionStays
  <2>3. m \in 0 .. Len(log')
    <3>1. Len(log') = Len(log) \/ Len(log') = Len(log) + 1
      <4>1. CASE log' = log
        BY <4>1
      <4>2. ASSUME NEW e \in Event, log' = Append(log, e) PROVE Len(log') = Len(log) + 1
        BY <1>0, <4>2
      <4> QED
        BY <4>1, <4>2, LogOnlyGrows
    <3> QED
      BY <1>0, <3>1
  <2> QED
    BY <1>2, <2>1, <2>2, <2>3
<1>3. ASSUME NEW n \in DOMAIN log,
             ApplyInvoiceIssued(n) \/ ApplyPaymentAllocated(n) \/ ApplyInvoiceVoided(n)
      PROVE  \E m \in 0 .. Len(log') : projected' = 1 .. m /\ \A i \in Invoice : PositionAt(m, i)'
  <2>1. /\ projected' = projected \union {n} /\ inOrder /\ 1 .. n - 1 \subseteq projected
        /\ UNCHANGED log /\ n \notin projected
    BY <1>0, <1>3, ProjectSteps
      DEF Project, ApplyInvoiceIssued, ApplyPaymentAllocated, ApplyInvoiceVoided
  <2>2. PICK m \in 0 .. Len(log) : projected = 1 .. m /\ \A i \in Invoice : PositionAt(m, i)
    BY <1>1, <2>1 DEF ReceivableInv, PositionInv
  <2>3. n = m + 1 /\ m \in Nat
    <3>1. n \in Nat /\ n > m
      BY <1>0, <1>3, <2>1, <2>2
    <3>2. n - 1 > m => n - 1 \in 1 .. n - 1
      BY <1>0, <2>2, <3>1
    <3> QED
      BY <1>0, <2>1, <2>2, <3>1, <3>2
  <2>4. \A i \in Invoice : PositionAt(m + 1, i)'
    BY <1>1, <1>3, <2>2, <2>3, PositionApplied
  <2>5. projected' = 1 .. m + 1 /\ m + 1 \in 0 .. Len(log')
    BY <1>0, <2>1, <2>2, <2>3
  <2> QED
    BY <2>4, <2>5
<1>4. CASE UNCHANGED receivables
  BY <1>2, <1>4, ReceivablesKept
<1>5. CASE \/ UNCHANGED vars \/ LogAllocated
           \/ \E n \in DOMAIN log, written \in SUBSET Invoice : Reconciles(n, written)
           \/ \E i \in Invoice, inv \in InvoiceRecord : WritesInvoice(i, inv)
           \/ \E p \in Payment : PaysWithin(p)
  BY <1>4, <1>5 DEF vars, receivables, LogAllocated, Reconciles, WritesInvoice, PaysWithin
<1> QED
  BY <1>0, <1>3, <1>5, Steps DEF Edits, IssuesOrVoids, Records, Allocates, Refunds

LEMMA SameEnd ==
    ASSUME NEW m \in Nat, NEW n \in Nat, 1 .. m = 1 .. n PROVE m = n
<1>1. m # 0 => m \in 1 .. n
  <2>1. m # 0 => m \in 1 .. m
    OBVIOUS
  <2> QED
    BY <2>1
<1>2. n # 0 => n \in 1 .. m
  <2>1. n # 0 => n \in 1 .. n
    OBVIOUS
  <2> QED
    BY <2>1
<1> QED
  BY <1>1, <1>2

LEMMA ReceivableInit == Init => ReceivableInv
<1> SUFFICES ASSUME Init PROVE ReceivableInv
  OBVIOUS
<1>1. /\ \A i \in Invoice : invoices[i] = NoInvoice /\ positions[i] = NoPosition
      /\ log = <<>> /\ projected = {} /\ allocations = {}
  BY DEF Init
<1>2. CoreInv /\ Len(log) = 0 /\ DOMAIN log = {}
  BY <1>1, CoreInit
<1>3. IssuedInv
  BY <1>2 DEF IssuedInv
<1>4. IssuedFirst
  <2>1. Billed = {}
    BY <1>1 DEF Billed, TakesAllocations, NoInvoice
  <2> QED
    BY <1>2, <2>1 DEF IssuedFirst
<1>5. RangeInv
  <2>1. \A i \in Invoice : AllocatedTo(allocations, i) = 0 /\ Net(log, 0, i) = 0
    BY <1>1, AllocatedToNone, NetStart
  <2>2. \A i \in Invoice : invoices[i].total = 0
    BY <1>1 DEF NoInvoice
  <2>3. \A m \in 0 .. Len(log) : m = 0
    BY <1>2
  <2> QED
    BY <2>1, <2>2, <2>3 DEF RangeInv
<1>6. PositionInv
  <2>1. \A i \in Invoice : PositionAt(0, i)
    BY <1>1 DEF PositionAt, NoPosition
  <2>2. 0 \in 0 .. Len(log) /\ projected = 1 .. 0
    BY <1>1, <1>2
  <2> QED
    BY <2>1, <2>2 DEF PositionInv
<1> QED
  BY <1>3, <1>4, <1>5, <1>6 DEF ReceivableInv

(* If AR handles the events in the order they were logged, and nothing was *)
(* ever over-allocated, its open amounts are those of the allocations once *)
(* all are handled: adding and subtracting lose nothing, although every    *)
(* step is cut off at zero and at the total.                               *)
THEOREM ReceivableFollowsInOrder == Spec => []ReceivableRightInOrder
<1>1. CoreInv /\ ReceivableInv /\ [Next]_vars => ReceivableInv'
  BY IssuedStep, IssuedFirstStep, RangeStep, PositionStep DEF ReceivableInv
<1>2. CoreInv /\ ReceivableInv => ReceivableRightInOrder
  <2> SUFFICES ASSUME CoreInv, ReceivableInv, AllProjected, inOrder, ~overAllocated,
                      NEW i \in Invoice, positions[i].status # "absent"
               PROVE  positions[i].open = invoices[i].total - AllocatedTo(allocations, i)
    BY DEF ReceivableRightInOrder, ReceivableIsRight
  <2>1. PICK m \in 0 .. Len(log) : projected = 1 .. m /\ PositionAt(m, i)
    BY DEF ReceivableInv, PositionInv
  <2>2. log \in Seq(Event) /\ Len(log) \in Nat /\ DOMAIN log = 1 .. Len(log) /\ afterCommit = <<>>
    BY DEF CoreInv, TypeInv, AllProjected
  <2>3. m = Len(log)
    <3>1. m \in Nat /\ 1 .. m = 1 .. Len(log)
      <4>1. m \in Nat
        BY <2>2
      <4>2. projected = DOMAIN log
        BY DEF AllProjected
      <4> QED
        BY <2>1, <2>2, <4>1, <4>2, Zenon
    <3> QED
      BY <2>2, <3>1, SameEnd
  <2>4. positions[i].open = invoices[i].total - Net(log, m, i)
    BY <2>1 DEF PositionAt
  <2>5. Net(log, Len(log), i) + 0 = AllocatedTo(allocations, i) /\ Net(log, m, i) \in Int
    BY <2>1, <2>2, NetIsInt DEF CoreInv, NetInv, Pending
  <2> QED
    BY <2>3, <2>4, <2>5
<1> QED
  BY <1>1, <1>2, ReceivableInit, CoreInit, CoreStep, PTL DEF Spec
=============================================================================
