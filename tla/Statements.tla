---------------------------- MODULE Statements ----------------------------
(***************************************************************************)
(* The chart of accounts, the posting rules of LedgerService and the       *)
(* statements FinancialStatementsService computes from journal entries, as *)
(* operators on a set of entries.                                          *)
(*                                                                         *)
(* An entry is a record of an id, a period (the month of its date, counted *)
(* from some January) and its lines.  Amounts are minor units.             *)
(***************************************************************************)
EXTENDS Amounts, Integers, Sequences, FiniteSets, FiniteSetsExt, Functions

CONSTANT MonthsPerYear

ASSUME MonthsPerYearAssumption == MonthsPerYear \in Nat \ {0}

-----------------------------------------------------------------------------
\* DEFAULT_CHART_OF_ACCOUNTS: the type of each account.
AccountType ==
    [cash                |-> "asset",
     bank_clearing       |-> "asset",
     accounts_receivable |-> "asset",
     operating_expense   |-> "expense",
     refund_expense      |-> "expense",
     accounts_payable    |-> "liability",
     sales_tax_payable   |-> "liability",
     unallocated_cash    |-> "liability",
     revenue             |-> "revenue"]

Account == DOMAIN AccountType
CashAccounts == {"cash", "bank_clearing"}
OfType(types) == {a \in Account : AccountType[a] \in types}

Line == [account : Account, direction : {"debit", "credit"}, amount : Int]

Debit(a, n)  == [account |-> a, direction |-> "debit", amount |-> n]
Credit(a, n) == [account |-> a, direction |-> "credit", amount |-> n]

Opposite(lines) ==
    [k \in DOMAIN lines |->
       [lines[k] EXCEPT !.direction = IF @ = "debit" THEN "credit" ELSE "debit"]]

-----------------------------------------------------------------------------
\* buildPostingTransaction: the lines of an event.  part is the tax of an
\* invoice or a bill, and what is allocated of a settled payment.
InvoiceLines(total, tax) ==
    LET safeTax == Larger(0, Smaller(total, tax))
        lines   == << Debit("accounts_receivable", total),
                      Credit("revenue", Larger(0, total - safeTax)) >>
    IN  IF safeTax > 0 THEN Append(lines, Credit("sales_tax_payable", safeTax)) ELSE lines

BillLines(total, tax) ==
    LET safeTax == Larger(0, Smaller(total, tax))
        taxLine == IF safeTax > 0 THEN << Debit("sales_tax_payable", safeTax) >> ELSE <<>>
    IN  << Debit("operating_expense", Larger(0, total - safeTax)) >> \o taxLine
          \o << Credit("accounts_payable", total) >>

EventLines(type, total, part) ==
    CASE type \in {"invoice.created", "invoice.issued"} -> InvoiceLines(total, part)
      [] type = "payment.recorded" -> << Debit("cash", total), Credit("unallocated_cash", total) >>
      [] type = "payment.settled"  -> << Debit("cash", part), Credit("accounts_receivable", part) >>
      [] type = "payment.refunded" -> << Debit("refund_expense", total), Credit("cash", total) >>
      [] type = "bill.created"     -> BillLines(total, part)
      [] type = "bill.paid"        -> << Debit("accounts_payable", total), Credit("cash", total) >>

\* What buildPostingTransaction rejects: an approved bill, and a settled
\* payment that allocates nothing or more than it settled.
Buildable(type, total, part) ==
    /\ type # "bill.approved"
    /\ type = "payment.settled" => part > 0 /\ part <= total

SumOf(lines, direction) ==
    SumFunction([k \in DOMAIN lines |->
                   IF lines[k].direction = direction THEN lines[k].amount ELSE 0])

\* validateAndNormalize, as far as the lines go.  The accounts required of an
\* event are those EventLines posts to, and a journal of the user has none.
ValidLines_fault(lines) ==      \* mutant: the balance is not checked
    /\ lines \in Seq(Line) /\ Len(lines) >= 2
    /\ \A k \in DOMAIN lines : lines[k].amount > 0
ValidLines(lines) ==
    /\ lines \in Seq(Line) /\ Len(lines) >= 2
    /\ \A k \in DOMAIN lines : lines[k].amount > 0
    /\ SumOf(lines, "debit") = SumOf(lines, "credit")

-----------------------------------------------------------------------------
\* asSignedBalance
Signed(line) ==
    LET sign == IF AccountType[line.account] \in {"asset", "expense"} THEN 1 ELSE -1
    IN  IF line.direction = "debit" THEN sign * line.amount ELSE (0 - sign) * line.amount

\* computeBalances with sumByType and sumByCodes: the balance of some accounts.
LineBalance(lines, accounts) ==
    SumFunction([k \in DOMAIN lines |->
                   IF lines[k].account \in accounts THEN Signed(lines[k]) ELSE 0])

Balance(entries, accounts) ==
    SumFunction([e \in entries |-> LineBalance(e.lines, accounts)])

\* computeCashflow: an entry moves cash by its net, in one section.
NetCash(e) == LineBalance(e.lines, CashAccounts)
Inflows(entries) == SumFunction([e \in entries |-> Larger(0, NetCash(e))])
Outflows(entries) == SumFunction([e \in entries |-> Larger(0, 0 - NetCash(e))])

Operating == OfType({"revenue", "expense"})
               \cup {"accounts_receivable", "accounts_payable", "unallocated_cash"}

Section(e) ==
    LET others == {e.lines[k].account : k \in DOMAIN e.lines} \ CashAccounts
    IN  IF others = {} \/ others \cap Operating # {} THEN "operating"
        ELSE IF others \cap OfType({"liability"}) # {} THEN "financing"
        ELSE "investing"

FiscalYearStart(period) == period - (period % MonthsPerYear)

\* computeStatementSlice: what lies before the fiscal year of from is not
\* counted anywhere.
Slice(entries, from, to) ==
    LET start  == FiscalYearStart(from)
        within == {e \in entries : from <= e.period /\ e.period <= to}
        toDate == {e \in entries : start <= e.period /\ e.period <= to}
        before == {e \in entries : start <= e.period /\ e.period < from}
        of(section) == {e \in within : NetCash(e) # 0 /\ Section(e) = section}
    IN  [assets      |-> Balance(toDate, OfType({"asset"})),
         liabilities |-> Balance(toDate, OfType({"liability"})),
         equity      |-> Balance(toDate, OfType({"revenue"}))
                           - Balance(toDate, OfType({"expense"})),
         netIncome   |-> Balance(within, OfType({"revenue"}))
                           - Balance(within, OfType({"expense"})),
         openingCash |-> Balance(before, CashAccounts),
         closingCash |-> Balance(toDate, CashAccounts),
         inflows     |-> Inflows(within),
         outflows    |-> Outflows(within),
         sections    |-> [s \in {"operating", "investing", "financing"} |->
                            [inflows |-> Inflows(of(s)), outflows |-> Outflows(of(s))]]]

\* The checks generate reports as qc, and what they leave out: that the
\* statements of consecutive spans of one fiscal year join up.
SliceReconciles(s) ==
    /\ s.assets = s.liabilities + s.equity
    /\ s.inflows - s.outflows = s.closingCash - s.openingCash
    /\ s.inflows = s.sections["operating"].inflows + s.sections["investing"].inflows
                     + s.sections["financing"].inflows
    /\ s.outflows = s.sections["operating"].outflows + s.sections["investing"].outflows
                      + s.sections["financing"].outflows

Reconciles(entries, months) ==
    \A from, to \in months : from <= to =>
        LET s == Slice(entries, from, to)
        IN  /\ SliceReconciles(s)
            /\ \A last \in months :
                 (to < last /\ FiscalYearStart(to + 1) = FiscalYearStart(from)) =>
                    LET next  == Slice(entries, to + 1, last)
                        whole == Slice(entries, from, last)
                    IN  /\ next.openingCash = s.closingCash
                        /\ whole.netIncome = s.netIncome + next.netIncome
                        /\ whole.inflows = s.inflows + next.inflows
=============================================================================
