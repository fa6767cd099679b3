------------------------------- MODULE Bills -------------------------------
(***************************************************************************)
(* VendorsService and BillsService with their repositories: records that   *)
(* are created, patched and deleted softly.  Both update operations build  *)
(* the patch with a currency_code of its own, so a patch that names none   *)
(* overwrites the currency with undefined.  The audit entries of bills are *)
(* left out (vendors have none).  So are names and addresses, and the      *)
(* check of the shape of a request, which happens before anything else.    *)
(***************************************************************************)
EXTENDS Integers

CONSTANTS
    BillVendor,   \* ids of vendors
    BillId,       \* ids of bills
    Day,          \* days a bill may be issued or due
    BillAmount,
    Undefined

VARIABLES
    vendors,  \* [BillVendor -> Undefined or record]
    bills     \* [BillId -> Undefined or record]

billsVars == <<vendors, bills>>

BillStatus == {"draft", "approved", "paid"}
Currency == {"USD", Undefined}
OptionalDay == Day \cup {Undefined}

VendorRecord == [status : {"active", "inactive"}, currency : Currency, deleted : BOOLEAN]
BillRecord == [vendor : BillVendor, amount : BillAmount, currency : Currency,
               status : BillStatus, issued : OptionalDay, due : OptionalDay,
               deleted : BOOLEAN]

ASSUME BillsAssumption ==
    /\ Day \subseteq Nat /\ BillAmount \subseteq Nat
    /\ Undefined \notin Day /\ Undefined \notin VendorRecord /\ Undefined \notin BillRecord

BillsTypeOK ==
    /\ vendors \in [BillVendor -> VendorRecord \cup {Undefined}]
    /\ bills \in [BillId -> BillRecord \cup {Undefined}]

BillsInit ==
    /\ vendors = [v \in BillVendor |-> Undefined]
    /\ bills = [b \in BillId |-> Undefined]

-----------------------------------------------------------------------------
\* findById of both repositories hides what is deleted.
VendorFound(v) == vendors[v] # Undefined /\ ~vendors[v].deleted
BillFound(b) == bills[b] # Undefined /\ ~bills[b].deleted

CreateVendor(v, status) ==
    /\ vendors[v] = Undefined
    /\ vendors' = [vendors EXCEPT ![v] =
                     [status |-> status, currency |-> "USD", deleted |-> FALSE]]
    /\ UNCHANGED bills

UpdateVendor(v, status, currency) ==
    /\ VendorFound(v)
    /\ vendors' = [vendors EXCEPT ![v].status = status, ![v].currency = currency]
    /\ UNCHANGED bills

\* VendorsRepository.softDelete leaves deleted_at null: the vendor is only inactive.
SoftDeleteVendor_fault(v) == [vendors EXCEPT ![v].status = "inactive", ![v].deleted = TRUE]
                                        \* mutant: deleted as the bills are
SoftDeleteVendor(v) == [vendors EXCEPT ![v].status = "inactive"]

DeleteVendor(v) ==
    /\ VendorFound(v)
    /\ vendors' = SoftDeleteVendor(v)
    /\ UNCHANGED bills

\* validateDates
DatesOrdered(issued, due) ==
    (issued # Undefined /\ due # Undefined) => issued <= due

CreateBill(b, v, amount, status, issued, due) ==
    /\ bills[b] = Undefined
    /\ DatesOrdered(issued, due)
    /\ VendorFound(v)
    /\ bills' = [bills EXCEPT ![b] =
                   [vendor |-> v, amount |-> amount, currency |-> "USD", status |-> status,
                    issued |-> issued, due |-> due, deleted |-> FALSE]]
    /\ UNCHANGED vendors

\* updateBill.  The patch has some of the fields; the vendor is none of them.
\* The dates checked are the patch's, or the bill's where it has none or
\* clears one.
UpdateBill(b, patch) ==
    LET or(field) == IF field \in DOMAIN patch THEN patch[field] ELSE bills[b][field]
        checked(field) == IF or(field) # Undefined THEN or(field) ELSE bills[b][field]
    IN  /\ BillFound(b)
        /\ DatesOrdered(checked("issued"), checked("due"))
        /\ bills' = [bills EXCEPT ![b] =
                       [@ EXCEPT !.amount = or("amount"), !.status = or("status"),
                                 !.issued = or("issued"), !.due = or("due"),
                                 !.currency = IF "currency" \in DOMAIN patch
                                              THEN patch.currency ELSE Undefined]]
        /\ UNCHANGED vendors

DeleteBill(b) ==
    /\ BillFound(b)
    /\ bills' = [bills EXCEPT ![b].deleted = TRUE]
    /\ UNCHANGED vendors

Patch ==
    UNION {[{"amount"} -> BillAmount], [{"currency"} -> {"USD"}], [{"status"} -> BillStatus],
           [{"issued"} -> OptionalDay], [{"due"} -> OptionalDay],
           [{"issued", "due"} -> OptionalDay]}

BillsNext ==
    \/ \E v \in BillVendor :
         \/ \E status \in {"active", "inactive"} :
              \/ CreateVendor(v, status)
              \/ \E currency \in Currency : UpdateVendor(v, status, currency)
         \/ DeleteVendor(v)
    \/ \E b \in BillId :
         \/ \E v \in BillVendor, amount \in BillAmount, status \in BillStatus,
               issued, due \in OptionalDay : CreateBill(b, v, amount, status, issued, due)
         \/ \E patch \in Patch : UpdateBill(b, patch)
         \/ DeleteBill(b)

-----------------------------------------------------------------------------
\* listBillsByVendor, which answers 404 for a vendor it does not find.
ListBillsByVendor(v) ==
    IF VendorFound(v) THEN {b \in BillId : BillFound(b) /\ bills[b].vendor = v} ELSE {}

\* Whatever is done to vendors and bills, every bill a tenant's list shows is
\* also listed by its vendor, and is due on or after the day it was issued,
\* however the two dates were patched one by one (BillsService.listBills,
\* updateBill; VendorsRepository.softDelete).
BillsStayListed ==
    \A b \in BillId : BillFound(b) =>
        /\ b \in ListBillsByVendor(bills[b].vendor)
        /\ DatesOrdered(bills[b].issued, bills[b].due)
=============================================================================
