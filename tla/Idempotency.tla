---------------------------- MODULE Idempotency ----------------------------
(***************************************************************************)
(* IdempotencyService and IdempotencyRepository for one (scope, key): the  *)
(* record of the key and the callers that wait for it.  Keys do not        *)
(* interact, so one is enough.  The module has no next-state relation: its *)
(* operators are what the three users of the service are built from, the   *)
(* event consumers, the payment operations and the HTTP middleware.        *)
(*                                                                         *)
(* A response is named by the caller whose handler produced it.  A waiter  *)
(* is a promise; resolving it and running the code behind it are two       *)
(* steps, between which anything else may run.                             *)
(***************************************************************************)
CONSTANTS Caller, NoCaller   \* NoCaller stands for null

ASSUME NoCallerAssumption == NoCaller \notin Caller

VARIABLES
    status,    \* of the key's record; "none" when there is no record
    response,  \* whose response the completed record holds
    waiters,   \* callers whose waitForCompletion promise is pending
    resolved,  \* callers whose promise is resolved and not yet acted upon
    answer     \* [Caller -> ...]: what it was resolved with

keyVars == <<status, response, waiters, resolved, answer>>

KeyTypeOK ==
    /\ status \in {"none", "in_progress", "completed"}
    /\ response \in Caller \union {NoCaller}
    /\ waiters \subseteq Caller
    /\ resolved \subseteq Caller
    /\ answer \in [Caller -> Caller \union {NoCaller}]

KeyInit ==
    /\ status = "none"
    /\ response = NoCaller
    /\ waiters = {}
    /\ resolved = {}
    /\ answer = [c \in Caller |-> NoCaller]

(* begin finds a completed record.                                         *)
BeginCompleted == /\ status = "completed"
                  /\ UNCHANGED keyVars

(* begin finds a pending one, and waitForCompletion, called with no await  *)
(* in between, queues the caller.                                          *)
BeginInProgress(c) ==
    /\ status = "in_progress"
    /\ waiters' = waiters \union {c}
    /\ UNCHANGED <<status, response, resolved, answer>>

(* begin finds none and creates it.                                        *)
BeginStarted ==
    /\ status = "none"
    /\ status' = "in_progress"
    /\ UNCHANGED <<response, waiters, resolved, answer>>

ResolveWaiters_fault(r) ==   \* answers nobody
    UNCHANGED <<waiters, resolved, answer>>
ResolveWaiters(r) ==
    /\ answer' = [c \in Caller |-> IF c \in waiters THEN r ELSE answer[c]]
    /\ resolved' = resolved \union waiters
    /\ waiters' = {}

(* complete: markCompleted overwrites the record, whoever created it.      *)
Complete_fault(c) ==   \* stores the status in the place of the body
    /\ status # "none"
    /\ status' = "completed"
    /\ response' = status
    /\ ResolveWaiters(c)
Complete(c) ==
    /\ status # "none"
    /\ status' = "completed"
    /\ response' = c
    /\ ResolveWaiters(c)

(* complete on a key nobody holds: markCompleted throws a conflict.        *)
CompleteConflicts == status = "none"

(* fail: the record is deleted, whatever its status.                       *)
Fail ==
    /\ status' = "none"
    /\ response' = NoCaller
    /\ ResolveWaiters(NoCaller)

(* The promise of c was resolved with r and the code behind it runs.       *)
Resume(c, r) ==
    /\ c \in resolved
    /\ answer[c] = r
    /\ resolved' = resolved \ {c}
    /\ UNCHANGED <<status, response, waiters, answer>>
=============================================================================
