----------------------------- MODULE MCLedger -----------------------------
(***************************************************************************)
(* Instance of Ledger for TLC: a taxed invoice, the same event under       *)
(* another rule version, a payment in the next fiscal year, an invoice     *)
(* worth nothing (whose lines no posting accepts), a journal that does not *)
(* balance, one that moves cash, and a reversal of the invoice.            *)
(***************************************************************************)
EXTENDS Ledger

MCRequest ==
    [invoice |-> [kind |-> "event", event |-> "e1", type |-> "invoice.created",
                  total |-> 3, part |-> 1, period |-> 1],
     invoice2 |-> [kind |-> "event", event |-> "e1", type |-> "invoice.created",
                  total |-> 3, part |-> 1, period |-> 1],
     empty   |-> [kind |-> "event", event |-> "e2", type |-> "invoice.issued",
                  total |-> 0, part |-> 0, period |-> 1],
     payment |-> [kind |-> "event", event |-> "e3", type |-> "payment.recorded",
                  total |-> 2, part |-> 0, period |-> 2],
     lopsided |-> [kind |-> "adjustment", of |-> None, period |-> 2,
                  lines |-> << Debit("operating_expense", 2), Credit("cash", 1) >>],
     rent    |-> [kind |-> "manual", period |-> 1,
                  lines |-> << Debit("operating_expense", 2), Credit("cash", 2) >>],
     undo    |-> [kind |-> "reversal", of |-> "invoice", period |-> 2]]

MCSource == DOMAIN MCRequest
MCPeriod == 1..2
MCMonth == 1..3
=============================================================================
