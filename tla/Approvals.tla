----------------------------- MODULE Approvals -----------------------------
(***************************************************************************)
(* ApprovalService with its repository: requests, thresholds and the gate  *)
(* that sensitive actions call first.  The gate spends the request at      *)
(* once, whatever becomes of the action behind it, and it compares only    *)
(* the kind of action and the status of the request.                       *)
(*                                                                         *)
(* Audit events go to the event log, which takes part in transactions      *)
(* while the approvals do not: a payment or a posting refused after the    *)
(* gate leaves the request spent and no trace of it in the log.  A call    *)
(* the gate stops is no step: the audit event it leaves is left out, as is *)
(* the kind large_bill_exception, which no service asks the gate about.    *)
(***************************************************************************)
EXTENDS Integers, FiniteSets

CONSTANTS
    ApprovalId,
    Threshold,     \* values of requires_approval_over_minor
    GatedAmount,   \* amounts of the actions, and of the requests
    NoId           \* no request, no threshold

VARIABLES
    requests,   \* [ApprovalId -> request or NoId]
    threshold,  \* of large payments; NoId while none is configured
    audit,      \* the approval events in the log, as <<request, action>>
    executed    \* history: the actions that passed the gate and took effect

approvalVars == <<requests, threshold, audit, executed>>

SensitiveAction == {"manual_journal_entry", "reconciliation_override",
                    "period_reopen", "large_payment_exception"}
AlwaysRequired == SensitiveAction \ {"large_payment_exception"}

Request == [action : SensitiveAction, status : {"pending", "approved", "rejected", "consumed"}]

ASSUME ApprovalsAssumption ==
    /\ Threshold \subseteq Nat /\ GatedAmount \subseteq Nat
    /\ NoId \notin ApprovalId /\ NoId \notin Threshold /\ NoId \notin Request

\* The actions whose gate is called inside a transaction of the wrapper.
InTransaction == {"large_payment_exception", "manual_journal_entry"}

ApprovalsTypeOK ==
    /\ requests \in [ApprovalId -> Request \cup {NoId}]
    /\ threshold \in Threshold \cup {NoId}
    /\ \A e \in executed : e.action \in SensitiveAction /\ e.request \in ApprovalId \cup {NoId}

ApprovalsInit ==
    /\ requests = [a \in ApprovalId |-> NoId]
    /\ threshold = NoId
    /\ audit = {} /\ executed = {}

ApprovalStatus(a) == IF a = NoId \/ requests[a] = NoId THEN "absent" ELSE requests[a].status

-----------------------------------------------------------------------------
ConfigureThreshold(n) ==
    /\ threshold' = n
    /\ UNCHANGED <<requests, audit, executed>>

RequestApproval(a, action) ==
    /\ ApprovalStatus(a) = "absent"
    /\ requests' = [requests EXCEPT ![a] = [action |-> action, status |-> "pending"]]
    /\ audit' = audit \cup {<<a, "requested">>}
    /\ UNCHANGED <<threshold, executed>>

\* transition, for approve and reject
Transition(a, target) ==
    /\ ApprovalStatus(a) = "pending"
    /\ requests' = [requests EXCEPT ![a].status = target]
    /\ audit' = audit \cup {<<a, target>>}
    /\ UNCHANGED <<threshold, executed>>

-----------------------------------------------------------------------------
(* enforceApprovalGate *)

Requires(action, amount) ==
    \/ action \in AlwaysRequired
    \/ threshold # NoId /\ amount >= threshold

Opens(a, action) == ApprovalStatus(a) = "approved" /\ requests[a].action = action

\* The requests once the gate has let the action through.
Spent_fault(a) == requests     \* mutant: the spent request is not saved
Spent(a) == [requests EXCEPT ![a].status = "consumed"]

\* An action behind the gate that then takes effect, or is refused for
\* reasons of its own.
Execute(action, amount, a, takesEffect) ==
    LET gated == Requires(action, amount)
    IN  /\ gated => Opens(a, action)
        /\ requests' = IF gated THEN Spent(a) ELSE requests
        /\ audit' = IF gated /\ (takesEffect \/ action \notin InTransaction)
                    THEN audit \cup {<<a, "consumed">>} ELSE audit
        /\ executed' = IF gated /\ takesEffect
                       THEN executed \cup {[action |-> action, request |-> a,
                                            nth |-> Cardinality(executed) + 1]}
                       ELSE executed
        /\ UNCHANGED threshold

ApprovalsNext ==
    \/ \E n \in Threshold : ConfigureThreshold(n)
    \/ \E a \in ApprovalId :
         \/ \E action \in SensitiveAction : RequestApproval(a, action)
         \/ \E target \in {"approved", "rejected"} : Transition(a, target)
    \/ \E action \in SensitiveAction, a \in ApprovalId \cup {NoId}, amount \in GatedAmount :
         \E takesEffect \in BOOLEAN : Execute(action, amount, a, takesEffect)

-----------------------------------------------------------------------------
\* Whatever sensitive action took effect had an approved request for its kind
\* of action, and a request of its own: no request lets two actions through,
\* and a request that is spent was asked for and approved before, which the
\* log still says.
ApprovalsAreSpentOnce ==
    /\ \A e \in executed :
         /\ requests[e.request].action = e.action
         /\ requests[e.request].status = "consumed"
         /\ {<<e.request, "requested">>, <<e.request, "approved">>, <<e.request, "consumed">>}
              \subseteq audit
         /\ \A f \in executed : f.request = e.request => f = e
    /\ \A a \in ApprovalId : <<a, "rejected">> \in audit => <<a, "approved">> \notin audit
=============================================================================
