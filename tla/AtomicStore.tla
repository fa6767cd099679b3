---------------------------- MODULE AtomicStore ----------------------------
(***************************************************************************)
(* What FinancialTransactionManager promises its callers: every call takes *)
(* effect on the repositories in one indivisible step, or not at all.  The *)
(* repositories are abstracted to one set of writes per participant key;   *)
(* a write is named by the call that made it.                              *)
(***************************************************************************)
CONSTANTS Call, Key

VARIABLES
    store,    \* [Key -> SUBSET Call]: whose writes each repository holds
    outcome   \* [Call -> {"pending", "committed", "failed"}]

vars == <<store, outcome>>

Init == /\ store = [k \in Key |-> {}]
        /\ outcome = [c \in Call |-> "pending"]

(* All the writes of c, over any set of repositories, appear together.     *)
Commit(c, keys) ==
    /\ outcome[c] = "pending"
    /\ outcome' = [outcome EXCEPT ![c] = "committed"]
    /\ store' = [k \in Key |-> IF k \in keys THEN store[k] \union {c}
                                             ELSE store[k]]

(* A failed call leaves the repositories as they were.                     *)
Fail(c) ==
    /\ outcome[c] = "pending"
    /\ outcome' = [outcome EXCEPT ![c] = "failed"]
    /\ UNCHANGED store

Next == \E c \in Call : Fail(c) \/ \E keys \in SUBSET Key : Commit(c, keys)

Spec == Init /\ [][Next]_vars
=============================================================================
