-------------------------- MODULE PaymentRequests --------------------------
(***************************************************************************)
(* The POST requests with one idempotency key on one payment endpoint,     *)
(* from IdempotencyMiddleware through PaymentsController to                *)
(* PaymentsService.runIdempotentPaymentOperation.  The client's key is     *)
(* kept twice: by the middleware, for the path, and by the service, for    *)
(* the operation.                                                          *)
(*                                                                         *)
(* The controller puts the promise of the operation into the response body *)
(* and returns, so a request is answered 201 as soon as its operation is   *)
(* launched.  The operation settles in its own time, before or after the   *)
(* response's finish event, on which the middleware settles its key.  A    *)
(* request the guards turn away is answered 4xx, one that breaks before    *)
(* the service is called 5xx; neither launches anything.                   *)
(***************************************************************************)
EXTENDS Naturals

CONSTANTS
    Caller,         \* the requests
    NoCaller,       \* stands for null
    MaxFailures,    \* bound on the operations that fail
    MayDisconnect   \* whether a client may go away before the finish event

ASSUME PaymentRequestsAssumption ==
    NoCaller \notin Caller /\ MaxFailures \in Nat /\ MayDisconnect \in BOOLEAN

VARIABLES
    mwStatus, mwResponse, mwWaiters, mwResolved, mwAnswer,  \* the path's key
    opStatus, opResponse, opWaiters, opResolved, opAnswer,  \* the operation's
    pc,       \* [Caller -> Location]: the HTTP request
    owns,     \* requests that began the path's key and listen for finish
    sent,     \* [Caller -> Kind or "nothing"]: what the controller answered
    reply,    \* [Caller -> ...]: whose answer the client was sent
    op,       \* [Caller -> OpLocation]: the launched operation
    result,   \* [Caller -> ...]: whose result the operation returned
    effects,  \* requests whose transaction committed
    failures  \* how many transactions failed

Middleware == INSTANCE Idempotency WITH
    status <- mwStatus, response <- mwResponse, waiters <- mwWaiters,
    resolved <- mwResolved, answer <- mwAnswer
Operation == INSTANCE Idempotency WITH
    status <- opStatus, response <- opResponse, waiters <- opWaiters,
    resolved <- opResolved, answer <- opAnswer

mwVars == <<mwStatus, mwResponse, mwWaiters, mwResolved, mwAnswer>>
opKeyVars == <<opStatus, opResponse, opWaiters, opResolved, opAnswer>>
opVars == <<opKeyVars, op, result, effects, failures>>
httpVars == <<mwVars, pc, owns, sent, reply>>
vars == <<httpVars, opVars>>

Location == {"idle", "waiting", "dispatched", "responding", "answered", "gone"}
Kind == {"accepted", "client_error", "server_error"}
OpLocation == {"none", "waiting", "handling", "handled", "returned", "threw"}
Settled == {"none", "returned", "threw"}

Init ==
    /\ Middleware!KeyInit
    /\ Operation!KeyInit
    /\ pc = [c \in Caller |-> "idle"]
    /\ owns = {}
    /\ sent = [c \in Caller |-> "nothing"]
    /\ reply = [c \in Caller |-> NoCaller]
    /\ op = [c \in Caller |-> "none"]
    /\ result = [c \in Caller |-> NoCaller]
    /\ effects = {}
    /\ failures = 0

-----------------------------------------------------------------------------
(* IdempotencyMiddleware.use                                               *)

Goto(c, l) == pc' = [pc EXCEPT ![c] = l]
Answer(c, r) == reply' = [reply EXCEPT ![c] = r]

Replay(c) ==
    /\ pc[c] = "idle"
    /\ Middleware!BeginCompleted
    /\ Answer(c, mwResponse)
    /\ Goto(c, "answered")
    /\ UNCHANGED <<owns, sent, opVars>>

Wait(c) ==
    /\ pc[c] = "idle"
    /\ Middleware!BeginInProgress(c)
    /\ Goto(c, "waiting")
    /\ UNCHANGED <<owns, sent, reply, opVars>>

ReplayAwaited(c) ==
    /\ pc[c] = "waiting"
    /\ \E r \in Caller : Middleware!Resume(c, r) /\ Answer(c, r)
    /\ Goto(c, "answered")
    /\ UNCHANGED <<owns, sent, opVars>>

(* The awaited request failed: next() without a begin or a finish listener.*)
GoOn(c) ==
    /\ pc[c] = "waiting"
    /\ Middleware!Resume(c, NoCaller)
    /\ Goto(c, "dispatched")
    /\ UNCHANGED <<owns, sent, reply, opVars>>

Start(c) ==
    /\ pc[c] = "idle"
    /\ Middleware!BeginStarted
    /\ owns' = owns \union {c}
    /\ Goto(c, "dispatched")
    /\ UNCHANGED <<sent, reply, opVars>>

(* The response's finish event.                                            *)
FinishSettles_fault(c) == Middleware!Complete(c)   \* keeps a server error, too
FinishSettles(c) ==
    IF sent[c] = "server_error" THEN Middleware!Fail ELSE Middleware!Complete(c)

Finish(c) ==
    /\ pc[c] = "responding"
    /\ IF c \in owns THEN FinishSettles(c) ELSE UNCHANGED mwVars
    /\ Goto(c, "answered")
    /\ UNCHANGED <<owns, sent, reply, opVars>>

(* The connection closes before the response went out: no finish event.    *)
Disconnect(c) ==
    /\ MayDisconnect
    /\ pc[c] = "responding"
    /\ Goto(c, "gone")
    /\ UNCHANGED <<mwVars, owns, sent, reply, opVars>>

-----------------------------------------------------------------------------
(* The controller and runIdempotentPaymentOperation                        *)

Respond(c, kind) ==
    /\ pc[c] = "dispatched"
    /\ sent' = [sent EXCEPT ![c] = kind]
    /\ Answer(c, c)
    /\ Goto(c, "responding")

TurnAway(c, kind) ==
    /\ Respond(c, kind)
    /\ UNCHANGED <<mwVars, owns, opVars>>

OpGoto(c, l) == op' = [op EXCEPT ![c] = l]
OpReturn(c, r) == OpGoto(c, "returned") /\ result' = [result EXCEPT ![c] = r]

(* The operation's begin runs before the controller returns.               *)
Launch_fault(c) ==   \* does not look for a stored response
    /\ op' = [op EXCEPT ![c] = "handling"]
    /\ Operation!BeginStarted \/ (opStatus # "none" /\ UNCHANGED opKeyVars)
    /\ UNCHANGED result
Launch(c) ==
    \/ Operation!BeginCompleted /\ OpReturn(c, opResponse)
    \/ Operation!BeginInProgress(c) /\ OpGoto(c, "waiting") /\ UNCHANGED result
    \/ Operation!BeginStarted /\ OpGoto(c, "handling") /\ UNCHANGED result

Accept(c) ==
    /\ Respond(c, "accepted")
    /\ Launch(c)
    /\ UNCHANGED <<mwVars, owns, effects, failures>>

OpReturnAwaited(c) ==
    /\ op[c] = "waiting"
    /\ \E r \in Caller : Operation!Resume(c, r) /\ OpReturn(c, r)
    /\ UNCHANGED <<httpVars, effects, failures>>

(* The awaited operation failed: every waiter runs the handler.            *)
OpTakeOver(c) ==
    /\ op[c] = "waiting"
    /\ Operation!Resume(c, NoCaller)
    /\ OpGoto(c, "handling")
    /\ UNCHANGED <<httpVars, result, effects, failures>>

(* The handler is a whole transaction of the FinancialTransactionManager.  *)
HandlerCommits(c) ==
    /\ op[c] = "handling"
    /\ effects' = effects \union {c}
    /\ OpGoto(c, "handled")
    /\ UNCHANGED <<httpVars, opKeyVars, result, failures>>

HandlerFails_fault(c) ==   \* forgets to give the key back
    /\ op[c] = "handling"
    /\ failures < MaxFailures
    /\ failures' = failures + 1
    /\ OpGoto(c, "threw")
    /\ UNCHANGED <<httpVars, opKeyVars, result, effects>>
HandlerFails_keeps(c) ==   \* completes the key with the error
    /\ op[c] = "handling"
    /\ failures < MaxFailures
    /\ failures' = failures + 1
    /\ IF opStatus = "none" THEN Operation!Fail ELSE Operation!Complete(c)
    /\ OpGoto(c, "threw")
    /\ UNCHANGED <<httpVars, result, effects>>
HandlerFails(c) ==
    /\ op[c] = "handling"
    /\ failures < MaxFailures
    /\ failures' = failures + 1
    /\ Operation!Fail
    /\ OpGoto(c, "threw")
    /\ UNCHANGED <<httpVars, result, effects>>

OpReturnOwn(c) ==
    /\ op[c] = "handled"
    /\ Operation!Complete(c)
    /\ OpReturn(c, c)
    /\ UNCHANGED <<httpVars, effects, failures>>

(* One that took over may find no record to complete: the committed        *)
(* operation is reported as a conflict.                                    *)
OpCompletionFails(c) ==
    /\ op[c] = "handled"
    /\ Operation!CompleteConflicts
    /\ Operation!Fail
    /\ OpGoto(c, "threw")
    /\ UNCHANGED <<httpVars, result, effects, failures>>

-----------------------------------------------------------------------------
(* Everything is settled; behind a client that went away requests may wait *)
(* for ever.                                                               *)
Quiet == /\ \A c \in Caller :
              /\ op[c] \in Settled
              /\ pc[c] \in {"answered", "gone"} \/ c \in mwWaiters
         /\ mwWaiters # {} => \E c \in Caller : pc[c] = "gone"
         /\ UNCHANGED vars

Serve(c) ==
    \/ ReplayAwaited(c)
    \/ GoOn(c)
    \/ Accept(c)
    \/ \E kind \in {"client_error", "server_error"} : TurnAway(c, kind)
    \/ Finish(c)
    \/ Disconnect(c)

Operate(c) ==
    \/ OpReturnAwaited(c) \/ OpTakeOver(c)
    \/ HandlerCommits(c) \/ HandlerFails(c)
    \/ OpReturnOwn(c) \/ OpCompletionFails(c)

Next == \/ \E c \in Caller : \/ Replay(c) \/ Wait(c) \/ Start(c)
                             \/ Serve(c) \/ Operate(c)
        \/ Quiet

Spec == Init /\ [][Next]_vars

(* Requests in the server are carried on and the transaction manager       *)
(* returns (EveryCallReturns of TransactionManager); nobody has to send a  *)
(* request.                                                                *)
FairSpec == Spec /\ \A c \in Caller : WF_vars(Serve(c)) /\ WF_vars(Operate(c))

-----------------------------------------------------------------------------
TypeOK == /\ Middleware!KeyTypeOK
          /\ Operation!KeyTypeOK
          /\ pc \in [Caller -> Location]
          /\ owns \subseteq Caller
          /\ sent \in [Caller -> Kind \union {"nothing"}]
          /\ reply \in [Caller -> Caller \union {NoCaller}]
          /\ op \in [Caller -> OpLocation]
          /\ result \in [Caller -> Caller \union {NoCaller}]
          /\ effects \subseteq Caller
          /\ failures \in 0..MaxFailures

(* A replayed answer is one the server really gave to the request it       *)
(* stands for, and never a server error, which would make a passing        *)
(* failure permanent.                                                      *)
ReplaysAreGenuine ==
    \A c \in Caller : reply[c] \in Caller \ {c} =>
        sent[reply[c]] \in {"accepted", "client_error"}

(* As long as no transaction has failed one payment at most is made for    *)
(* the key, although requests that waited for one that broke are all let   *)
(* through by the middleware: the operation's own key stops them.          *)
DuplicatesNeedAFailure == failures = 0 => \A c, d \in effects : c = d

(* Whatever an operation returns, its own result or another's, was         *)
(* committed.                                                              *)
ResultIsCommitted ==
    \A c \in Caller : op[c] = "returned" => result[c] \in effects

(* Every launched operation settles, those that wait for another included, *)
(* and a request that waits at the middleware is sent on or answered unless*)
(* the client it waits for has gone away.                                  *)
EveryRequestSettles ==
    \A c \in Caller :
        /\ op[c] = "waiting" ~> op[c] \in Settled
        /\ pc[c] = "waiting" ~> (pc[c] # "waiting" \/ \E d \in owns : pc[d] = "gone")

(* The payment is made at most once for the key.                           *)
EffectAtMostOnce == \A c, d \in effects : c = d
=============================================================================
