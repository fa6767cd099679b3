------------------------ MODULE PaymentRequestsProofs ------------------------
(***************************************************************************)
(* Theorems about the requests with one idempotency key, for any number of *)
(* requests, failures and disconnects.  The invariants follow the three    *)
(* ways an answer travels: from the request or operation that produced it, *)
(* through the record of a key or a resolved promise, to the one answered. *)
(***************************************************************************)
EXTENDS PaymentRequests, TLAPS

-----------------------------------------------------------------------------
(* What the middleware replays.  A request is answered by its controller   *)
(* once; whatever the path's key or one of its promises holds was answered *)
(* so, and not with a server error.                                        *)
Genuine(r) == sent[r] \in {"accepted", "client_error"}

AnsweredOnce ==
    \A c \in Caller :
        /\ sent[c] # "nothing" => pc[c] \in {"responding", "answered", "gone"}
        /\ pc[c] = "responding" => sent[c] # "nothing"

KeyHoldsGenuine ==
    /\ mwStatus = "completed" => mwResponse \in Caller /\ Genuine(mwResponse)
    /\ \A c \in mwResolved : mwAnswer[c] \in Caller => Genuine(mwAnswer[c])

ReplayInv == AnsweredOnce /\ KeyHoldsGenuine /\ ReplaysAreGenuine

(* What the operation returns.  A handler that is done committed, and so   *)
(* did whatever the operation's key or one of its promises holds.          *)
CommittedInv ==
    /\ \A c \in Caller : op[c] = "handled" => c \in effects
    /\ opStatus = "completed" => opResponse \in effects
    /\ \A c \in opResolved : opAnswer[c] \in Caller => opAnswer[c] \in effects
    /\ ResultIsCommitted

(* An operation is launched once, by the request's answer.                 *)
LaunchedOnce ==
    \A c \in Caller : op[c] # "none" => pc[c] \in {"responding", "answered", "gone"}

(* Why no payment is doubled before a first failure: until then whoever is *)
(* in the handler holds the key alone, the work done is its own or that of *)
(* the completed key, and nobody is told of a failure.                     *)
InHandler(c) == op[c] \in {"handling", "handled"}

AloneInv ==
    failures = 0 =>
        /\ \A c \in Caller : InHandler(c) =>
              /\ opStatus = "in_progress"
              /\ \A d \in Caller : InHandler(d) => d = c
        /\ \A c \in effects : \/ op[c] = "handled"
                              \/ opStatus = "completed" /\ opResponse = c
        /\ \A c \in opResolved : opAnswer[c] # NoCaller
-----------------------------------------------------------------------------
LEMMA InitInvs ==
    Init => TypeOK /\ ReplayInv /\ CommittedInv /\ LaunchedOnce /\ AloneInv
<1> SUFFICES ASSUME Init
             PROVE  TypeOK /\ ReplayInv /\ CommittedInv /\ LaunchedOnce /\ AloneInv
  OBVIOUS
<1> USE PaymentRequestsAssumption
        DEF Init, Middleware!KeyInit, Operation!KeyInit
<1>1. TypeOK
  BY DEF TypeOK, Middleware!KeyTypeOK, Operation!KeyTypeOK, Location, Kind,
         OpLocation
<1>2. ReplayInv
  BY DEF ReplayInv, AnsweredOnce, KeyHoldsGenuine, ReplaysAreGenuine
<1>3. CommittedInv
  BY DEF CommittedInv, ResultIsCommitted
<1>4. AloneInv
  BY DEF AloneInv, InHandler
<1>5. LaunchedOnce
  BY DEF LaunchedOnce
<1> QED
  BY <1>1, <1>2, <1>3, <1>4, <1>5

(* A step concerns the HTTP side or the operations, and only the answer to *)
(* an accepted request, which launches one, both.                          *)
LEMMA NextSides ==
    ASSUME [Next]_vars
    PROVE  \/ UNCHANGED vars
           \/ \E c \in Caller :
                \/ Replay(c) \/ Wait(c) \/ Start(c) \/ ReplayAwaited(c)
                \/ GoOn(c) \/ Finish(c) \/ Disconnect(c)
                \/ \E kind \in {"client_error", "server_error"} : TurnAway(c, kind)
           \/ \E c \in Caller : Accept(c)
           \/ \E c \in Caller :
                \/ OpReturnAwaited(c) \/ OpTakeOver(c) \/ HandlerCommits(c)
                \/ HandlerFails(c) \/ OpReturnOwn(c) \/ OpCompletionFails(c)
  BY DEF Next, Serve, Operate, Quiet

LEMMA NextTypeOK == TypeOK /\ [Next]_vars => TypeOK'
<1> SUFFICES ASSUME TypeOK, [Next]_vars PROVE TypeOK'
  OBVIOUS
<1> USE PaymentRequestsAssumption
        DEF TypeOK, Middleware!KeyTypeOK, Operation!KeyTypeOK, Location, Kind,
            OpLocation, Goto, Answer, OpGoto, OpReturn, mwVars, opKeyVars,
            opVars, httpVars
<1>1. ASSUME UNCHANGED vars PROVE TypeOK'
  BY <1>1 DEF vars
<1>2. ASSUME NEW c \in Caller, Replay(c) PROVE TypeOK'
  BY <1>2 DEF Replay, Middleware!BeginCompleted, Middleware!keyVars
<1>3. ASSUME NEW c \in Caller, Wait(c) PROVE TypeOK'
  BY <1>3 DEF Wait, Middleware!BeginInProgress
<1>4. ASSUME NEW c \in Caller, Start(c) PROVE TypeOK'
  BY <1>4 DEF Start, Middleware!BeginStarted
<1>5. ASSUME NEW c \in Caller, ReplayAwaited(c) PROVE TypeOK'
  BY <1>5 DEF ReplayAwaited, Middleware!Resume
<1>6. ASSUME NEW c \in Caller, GoOn(c) PROVE TypeOK'
  BY <1>6 DEF GoOn, Middleware!Resume
<1>7. ASSUME NEW c \in Caller, Finish(c) PROVE TypeOK'
  BY <1>7 DEF Finish, FinishSettles, Middleware!Fail, Middleware!Complete,
     Middleware!ResolveWaiters
<1>8. ASSUME NEW c \in Caller, Disconnect(c) PROVE TypeOK'
  BY <1>8 DEF Disconnect
<1>9. ASSUME NEW c \in Caller,
             NEW kind \in {"client_error", "server_error"}, TurnAway(c, kind)
      PROVE  TypeOK'
  BY <1>9 DEF TurnAway, Respond
<1>10. ASSUME NEW c \in Caller, Accept(c) PROVE TypeOK'
  <2>1. CASE Operation!BeginCompleted /\ OpReturn(c, opResponse)
    BY <1>10, <2>1 DEF Accept, Respond, Operation!BeginCompleted, Operation!keyVars
  <2>2. CASE Operation!BeginInProgress(c) /\ OpGoto(c, "waiting") /\ UNCHANGED result
    BY <1>10, <2>2 DEF Accept, Respond, Operation!BeginInProgress
  <2>3. CASE Operation!BeginStarted /\ OpGoto(c, "handling") /\ UNCHANGED result
    BY <1>10, <2>3 DEF Accept, Respond, Operation!BeginStarted
  <2> QED
    BY <1>10, <2>1, <2>2, <2>3 DEF Accept, Launch
<1>11. ASSUME NEW c \in Caller, OpReturnAwaited(c) PROVE TypeOK'
  BY <1>11 DEF OpReturnAwaited, Operation!Resume
<1>12. ASSUME NEW c \in Caller, OpTakeOver(c) PROVE TypeOK'
  BY <1>12 DEF OpTakeOver, Operation!Resume
<1>13. ASSUME NEW c \in Caller, HandlerCommits(c) PROVE TypeOK'
  BY <1>13 DEF HandlerCommits
<1>14. ASSUME NEW c \in Caller, HandlerFails(c) PROVE TypeOK'
  BY <1>14 DEF HandlerFails, Operation!Fail, Operation!ResolveWaiters
<1>15. ASSUME NEW c \in Caller, OpReturnOwn(c) PROVE TypeOK'
  BY <1>15 DEF OpReturnOwn, Operation!Complete, Operation!ResolveWaiters
<1>16. ASSUME NEW c \in Caller, OpCompletionFails(c) PROVE TypeOK'
  BY <1>16 DEF OpCompletionFails, Operation!Fail, Operation!ResolveWaiters
<1> QED
  BY <1>1, <1>2, <1>3, <1>4, <1>5, <1>6, <1>7, <1>8, <1>9, <1>10, <1>11,
     <1>12, <1>13, <1>14, <1>15, <1>16, NextSides

(* An answer given stays: the controller answers a request once.           *)
LEMMA NextReplayInv == TypeOK /\ ReplayInv /\ [Next]_vars => ReplayInv'
<1> SUFFICES ASSUME TypeOK, ReplayInv, [Next]_vars PROVE ReplayInv'
  OBVIOUS
<1> USE PaymentRequestsAssumption
        DEF TypeOK, Middleware!KeyTypeOK, ReplayInv, AnsweredOnce,
            KeyHoldsGenuine, ReplaysAreGenuine, Genuine, Goto, Answer, mwVars
<1>1. ASSUME UNCHANGED httpVars PROVE ReplayInv'
  BY <1>1 DEF httpVars
<1>2. ASSUME NEW c \in Caller, Replay(c) PROVE ReplayInv'
  BY <1>2 DEF Replay, Middleware!BeginCompleted, Middleware!keyVars
<1>3. ASSUME NEW c \in Caller, Wait(c) PROVE ReplayInv'
  BY <1>3 DEF Wait, Middleware!BeginInProgress
<1>4. ASSUME NEW c \in Caller, Start(c) PROVE ReplayInv'
  BY <1>4 DEF Start, Middleware!BeginStarted
<1>5. ASSUME NEW c \in Caller, ReplayAwaited(c) PROVE ReplayInv'
  BY <1>5 DEF ReplayAwaited, Middleware!Resume
<1>6. ASSUME NEW c \in Caller, GoOn(c) PROVE ReplayInv'
  BY <1>6 DEF GoOn, Middleware!Resume
<1>7. ASSUME NEW c \in Caller, Finish(c) PROVE ReplayInv'
  <2>1. CASE c \in owns /\ sent[c] = "server_error"
    BY <1>7, <2>1 DEF Finish, FinishSettles, Middleware!Fail,
       Middleware!ResolveWaiters
  <2>2. CASE c \in owns /\ sent[c] # "server_error"
    <3>1. Genuine(c)
      BY <1>7, <2>2 DEF Finish, Kind
    <3> QED
      BY <1>7, <2>2, <3>1 DEF Finish, FinishSettles, Middleware!Complete,
         Middleware!ResolveWaiters
  <2>3. CASE c \notin owns
    BY <1>7, <2>3 DEF Finish
  <2> QED
    BY <2>1, <2>2, <2>3
<1>8. ASSUME NEW c \in Caller, Disconnect(c) PROVE ReplayInv'
  BY <1>8 DEF Disconnect
<1>9. ASSUME NEW c \in Caller, NEW kind \in Kind, Respond(c, kind),
             UNCHANGED mwVars
      PROVE  ReplayInv'
  BY <1>9 DEF Respond, Kind
<1>10. \A c \in Caller, kind \in {"client_error", "server_error"} :
         TurnAway(c, kind) => Respond(c, kind) /\ UNCHANGED mwVars /\ kind \in Kind
  BY DEF TurnAway, Kind
<1>11. \A c \in Caller : Accept(c) =>
         Respond(c, "accepted") /\ UNCHANGED mwVars /\ "accepted" \in Kind
  BY DEF Accept, Kind
<1>12. \/ UNCHANGED httpVars
       \/ \E c \in Caller :
            \/ Replay(c) \/ Wait(c) \/ Start(c) \/ ReplayAwaited(c)
            \/ GoOn(c) \/ Finish(c) \/ Disconnect(c)
            \/ \E kind \in Kind : Respond(c, kind) /\ UNCHANGED mwVars
  BY <1>10, <1>11, NextSides
     DEF vars, httpVars, OpReturnAwaited, OpTakeOver, HandlerCommits,
         HandlerFails, OpReturnOwn, OpCompletionFails
<1> QED
  BY <1>1, <1>2, <1>3, <1>4, <1>5, <1>6, <1>7, <1>8, <1>9, <1>12

(* The steps that change an operation or its key.                          *)
LEMMA OperationSteps ==
    ASSUME [Next]_vars
    PROVE  \/ UNCHANGED opVars
           \/ \E c \in Caller :
                \/ Accept(c)
                \/ OpReturnAwaited(c) \/ OpTakeOver(c) \/ HandlerCommits(c)
                \/ HandlerFails(c) \/ OpReturnOwn(c) \/ OpCompletionFails(c)
  BY NextSides
     DEF vars, Replay, Wait, Start, ReplayAwaited, GoOn, Finish, Disconnect,
         TurnAway

LEMMA NextLaunchedOnce ==
    TypeOK /\ LaunchedOnce /\ [Next]_vars => LaunchedOnce'
<1> SUFFICES ASSUME TypeOK, LaunchedOnce, [Next]_vars, NEW c \in Caller
             PROVE  op'[c] # "none" => pc'[c] \in {"responding", "answered", "gone"}
  BY DEF LaunchedOnce
<1> USE DEF TypeOK, LaunchedOnce, Goto, OpGoto
<1>1. CASE UNCHANGED vars
  BY <1>1 DEF vars, httpVars, opVars
<1>2. CASE UNCHANGED opVars
  BY <1>2, NextSides
     DEF vars, httpVars, opVars, Replay, Wait, Start, ReplayAwaited, GoOn,
         Finish, Disconnect, TurnAway, Accept, Respond, OpReturnAwaited,
         OpTakeOver, HandlerCommits, HandlerFails, OpReturnOwn,
         OpCompletionFails
<1>3. ASSUME NEW d \in Caller, Accept(d)
      PROVE  op'[c] # "none" => pc'[c] \in {"responding", "answered", "gone"}
  BY <1>3 DEF Accept, Respond, Launch, OpReturn
<1>4. ASSUME NEW d \in Caller, op[d] # "none", UNCHANGED httpVars,
             NEW l, OpGoto(d, l)
      PROVE  op'[c] # "none" => pc'[c] \in {"responding", "answered", "gone"}
  BY <1>4 DEF httpVars
<1> QED
  BY <1>1, <1>2, <1>3, <1>4, OperationSteps
     DEF OpReturnAwaited, OpTakeOver, HandlerCommits, HandlerFails,
         OpReturnOwn, OpCompletionFails, OpReturn

LEMMA NextCommittedInv == TypeOK /\ CommittedInv /\ [Next]_vars => CommittedInv'
<1> SUFFICES ASSUME TypeOK, CommittedInv, [Next]_vars PROVE CommittedInv'
  OBVIOUS
<1> USE PaymentRequestsAssumption
        DEF TypeOK, Operation!KeyTypeOK, CommittedInv, ResultIsCommitted,
            OpGoto, OpReturn, opKeyVars
<1>1. ASSUME UNCHANGED opVars PROVE CommittedInv'
  BY <1>1 DEF opVars
<1>2. ASSUME NEW c \in Caller, Accept(c) PROVE CommittedInv'
  BY <1>2 DEF Accept, Launch, Operation!BeginCompleted, Operation!BeginInProgress,
     Operation!BeginStarted, Operation!keyVars
<1>3. ASSUME NEW c \in Caller, OpReturnAwaited(c) PROVE CommittedInv'
  BY <1>3 DEF OpReturnAwaited, Operation!Resume
<1>4. ASSUME NEW c \in Caller, OpTakeOver(c) PROVE CommittedInv'
  BY <1>4 DEF OpTakeOver, Operation!Resume
<1>5. ASSUME NEW c \in Caller, HandlerCommits(c) PROVE CommittedInv'
  BY <1>5 DEF HandlerCommits
<1>6. ASSUME NEW c \in Caller, HandlerFails(c) PROVE CommittedInv'
  BY <1>6 DEF HandlerFails, Operation!Fail, Operation!ResolveWaiters
<1>7. ASSUME NEW c \in Caller, OpReturnOwn(c) PROVE CommittedInv'
  BY <1>7 DEF OpReturnOwn, Operation!Complete, Operation!ResolveWaiters
<1>8. ASSUME NEW c \in Caller, OpCompletionFails(c) PROVE CommittedInv'
  BY <1>8 DEF OpCompletionFails, Operation!Fail, Operation!ResolveWaiters
<1> QED
  BY <1>1, <1>2, <1>3, <1>4, <1>5, <1>6, <1>7, <1>8, OperationSteps

(* With no failure so far nobody takes over and no completion finds the    *)
(* key gone.                                                               *)
LEMMA NextAloneInv ==
    TypeOK /\ LaunchedOnce /\ AloneInv /\ [Next]_vars => AloneInv'
<1> SUFFICES ASSUME TypeOK, LaunchedOnce, AloneInv, [Next]_vars, failures' = 0
             PROVE  AloneInv'
  BY DEF AloneInv
<1> USE PaymentRequestsAssumption
        DEF TypeOK, Operation!KeyTypeOK, AloneInv, InHandler, OpGoto, OpReturn,
            opKeyVars
<1>1. ASSUME UNCHANGED opVars PROVE AloneInv'
  BY <1>1 DEF opVars
<1>2. ASSUME NEW c \in Caller, Accept(c) PROVE AloneInv'
  <2>1. op[c] = "none" /\ UNCHANGED <<effects, failures>>
    BY <1>2 DEF Accept, Respond, LaunchedOnce
  <2>2. CASE Operation!BeginCompleted /\ OpReturn(c, opResponse)
    BY <2>1, <2>2 DEF Operation!BeginCompleted, Operation!keyVars
  <2>3. CASE Operation!BeginInProgress(c) /\ OpGoto(c, "waiting") /\ UNCHANGED result
    BY <2>1, <2>3 DEF Operation!BeginInProgress
  <2>4. CASE Operation!BeginStarted /\ OpGoto(c, "handling") /\ UNCHANGED result
    BY <2>1, <2>4 DEF Operation!BeginStarted
  <2> QED
    BY <1>2, <2>2, <2>3, <2>4 DEF Accept, Launch
<1>3. ASSUME NEW c \in Caller, OpReturnAwaited(c) PROVE AloneInv'
  BY <1>3 DEF OpReturnAwaited, Operation!Resume
<1>4. ASSUME NEW c \in Caller, OpTakeOver(c) PROVE FALSE
  BY <1>4 DEF OpTakeOver, Operation!Resume
<1>5. ASSUME NEW c \in Caller, HandlerCommits(c) PROVE AloneInv'
  BY <1>5 DEF HandlerCommits
<1>6. ASSUME NEW c \in Caller, HandlerFails(c) PROVE FALSE
  BY <1>6 DEF HandlerFails
<1>7. ASSUME NEW c \in Caller, OpReturnOwn(c) PROVE AloneInv'
  <2>1. opStatus = "in_progress" /\ \A d \in effects : d = c
    BY <1>7 DEF OpReturnOwn
  <2> QED
    BY <1>7, <2>1 DEF OpReturnOwn, Operation!Complete, Operation!ResolveWaiters
<1>8. ASSUME NEW c \in Caller, OpCompletionFails(c) PROVE FALSE
  BY <1>8 DEF OpCompletionFails, Operation!CompleteConflicts
<1> QED
  BY <1>1, <1>2, <1>3, <1>4, <1>5, <1>6, <1>7, <1>8, OperationSteps

-----------------------------------------------------------------------------
(* The two keys, the requests and the operations keep their types.         *)
THEOREM TypeCorrect == Spec => []TypeOK
  BY InitInvs, NextTypeOK, PTL DEF Spec

(* IdempotencyMiddleware replays only what the controller really answered  *)
(* to the request whose answer it stands for, and never a server error.    *)
THEOREM GenuineReplays == Spec => []ReplaysAreGenuine
<1>1. ReplayInv => ReplaysAreGenuine
  BY DEF ReplayInv
<1> QED
  BY <1>1, InitInvs, NextTypeOK, NextReplayInv, PTL DEF Spec

(* runIdempotentPaymentOperation returns only results of transactions that *)
(* committed, its own or another request's, whatever failed before.        *)
THEOREM CommittedResults == Spec => []ResultIsCommitted
<1>1. CommittedInv => ResultIsCommitted
  BY DEF CommittedInv
<1> QED
  BY <1>1, InitInvs, NextTypeOK, NextCommittedInv, PTL DEF Spec

(* Until a transaction fails, one payment at most is made for a key,       *)
(* whatever the middleware lets through, loses or answers with an error.   *)
THEOREM NoDuplicateWithoutFailure == Spec => []DuplicatesNeedAFailure
<1>1. TypeOK /\ AloneInv => DuplicatesNeedAFailure
  BY DEF TypeOK, AloneInv, InHandler, DuplicatesNeedAFailure
<1> QED
  BY <1>1, InitInvs, NextTypeOK, NextLaunchedOnce, NextAloneInv, PTL
     DEF Spec
=============================================================================
