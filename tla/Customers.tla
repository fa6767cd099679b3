----------------------------- MODULE Customers -----------------------------
(***************************************************************************)
(* CustomersService and CustomersRepository for one tenant, with a client  *)
(* that walks the list page by page while customers are created, patched   *)
(* and deleted.  The list is sorted by the time of creation, newest first, *)
(* those of one millisecond in the order in which they were created; the   *)
(* cursor of the next page is an offset into the list of that moment.      *)
(*                                                                         *)
(* A patch without legal_name overwrites the name with undefined, and a    *)
(* search that meets such a customer throws.  Display names, emails and    *)
(* addresses are left out, and so are the checks of the shape of requests.  *)
(***************************************************************************)
EXTENDS Integers, Sequences, FiniteSets, SequencesExt

CONSTANTS
    Name,
    Limit,        \* the limit of the client's pages
    MaxCustomers, \* bound on the customers created
    MaxMillis,    \* bound on the clock
    NoName        \* a name that was erased; a walk without a search term

ASSUME CustomersAssumption ==
    /\ Limit \in Nat \ {0} /\ MaxCustomers \in Nat /\ MaxMillis \in Nat /\ NoName \notin Name

VARIABLES
    customers,  \* Seq of [name, created, deleted], as inserted
    millis,     \* the clock
    walk        \* the client's walk

customersVars == <<customers, millis, walk>>

\* search: the term; offset: of the next page; shown: customers seen; expected:
\* those that matched at the start; disturbed: a customer was deleted or, in a
\* search, renamed meanwhile; hasMore: FALSE once the last page was shown.
NoWalk == [search |-> NoName, offset |-> 0, shown |-> {}, expected |-> {},
           disturbed |-> FALSE, hasMore |-> FALSE]

CustomersTypeOK ==
    /\ Len(customers) <= MaxCustomers
    /\ \A i \in 1..Len(customers) :
         /\ customers[i].name \in Name \cup {NoName}
         /\ customers[i].created \in 0..MaxMillis /\ customers[i].deleted \in BOOLEAN
    /\ walk.offset \in Nat /\ walk.hasMore \in BOOLEAN /\ walk.disturbed \in BOOLEAN
    /\ walk.shown \cup walk.expected \subseteq DOMAIN customers

CustomersInit ==
    /\ customers = <<>> /\ millis = 0
    /\ walk = NoWalk

-----------------------------------------------------------------------------
Alive(i) == ~customers[i].deleted
Positions == {i \in 1..Len(customers) : Alive(i)}

CreateCustomer(name) ==
    /\ Len(customers) < MaxCustomers
    /\ customers' = Append(customers, [name |-> name, created |-> millis,
                                       deleted |-> FALSE])
    /\ UNCHANGED <<millis, walk>>

\* updateCustomer, with a patch that may have no legal_name
UpdateCustomer(i, name) ==
    /\ Alive(i)
    /\ customers' = [customers EXCEPT ![i].name = name]
    /\ walk' = IF walk.search = NoName THEN walk ELSE [walk EXCEPT !.disturbed = TRUE]
    /\ UNCHANGED millis

DeleteCustomer(i) ==
    /\ Alive(i)
    /\ customers' = [customers EXCEPT ![i].deleted = TRUE]
    /\ walk' = [walk EXCEPT !.disturbed = TRUE]
    /\ UNCHANGED millis

NextMillisecond ==
    /\ millis < MaxMillis
    /\ millis' = millis + 1
    /\ UNCHANGED <<customers, walk>>

-----------------------------------------------------------------------------
(* listCustomers *)

\* The search throws when it reads a name that was erased.
SearchThrows(search) == search # NoName /\ \E i \in Positions : customers[i].name = NoName

\* The customers that match, and the order of the list.
Matches(search) == {i \in Positions : search \in {NoName, customers[i].name}}

ListedBefore(i, j) == \/ customers[i].created > customers[j].created
                      \/ customers[i].created = customers[j].created /\ i < j

Place(i, search) == 1 + Cardinality({j \in Matches(search) : ListedBefore(j, i)})

Scoped(search) ==
    [k \in 1..Cardinality(Matches(search)) |->
        CHOOSE i \in Matches(search) : Place(i, search) = k]

HasMore(offset, n) == offset + Limit < n

\* One page of the client's walk from the given offset.
ListCustomers(w, offset) ==
    LET scoped == Scoped(w.search)
        rows == SubSeq(scoped, offset + 1, Min({offset + Limit, Len(scoped)}))
    IN  /\ ~SearchThrows(w.search)
        /\ walk' = [w EXCEPT !.shown = @ \cup ToSet(rows),
                             !.hasMore = HasMore(offset, Len(scoped)),
                             !.offset = offset + Limit]
        /\ UNCHANGED <<customers, millis>>

StartWalk(search) ==
    /\ ~walk.hasMore
    /\ ListCustomers([NoWalk EXCEPT !.search = search, !.expected = Matches(search)], 0)

NextPage ==
    /\ walk.hasMore
    /\ ListCustomers(walk, walk.offset)

CustomersNext ==
    \/ \E name \in Name : CreateCustomer(name)
    \/ \E i \in 1..Len(customers) :
         \/ \E name \in Name \cup {NoName} : UpdateCustomer(i, name)
         \/ DeleteCustomer(i)
    \/ NextMillisecond
    \/ \E search \in Name \cup {NoName} : StartWalk(search)
    \/ NextPage

-----------------------------------------------------------------------------
\* A walk through all pages shows everybody who was there when it began, even
\* if customers are created meanwhile, as long as none is deleted and, in a
\* search, none is patched (CustomersService.listCustomers,
\* CustomersRepository.listByTenant).
WalksMissNobody == (~walk.hasMore /\ ~walk.disturbed) => walk.expected \subseteq walk.shown
=============================================================================
