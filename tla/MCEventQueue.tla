---------------------------- MODULE MCEventQueue ----------------------------
(***************************************************************************)
(* Instance of EventQueue for TLC: events named 1, 2, ... of which the      *)
(* first NInvoice belong to one aggregate and the others to another.       *)
(***************************************************************************)
EXTENDS EventQueue

CONSTANTS NEvents, NInvoice

MCEvent == 1..NEvents
MCAggregate == {"invoice", "payment"}
MCAggregateOf ==
    [e \in MCEvent |-> IF e <= NInvoice THEN "invoice" ELSE "payment"]
=============================================================================
