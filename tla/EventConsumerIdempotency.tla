---------------------- MODULE EventConsumerIdempotency ----------------------
(***************************************************************************)
(* EventConsumerIdempotencyService.execute: what EventProcessingWorker,    *)
(* EventBusService and LedgerService run a handler through.  A caller is   *)
(* one delivery of the same event to the same consumer.                    *)
(***************************************************************************)
EXTENDS Idempotency

VARIABLES
    pc,       \* [Caller -> Location]
    effects,  \* deliveries whose handler did its work
    reply     \* [Caller -> ...]: whose result execute returned (or null)

vars == <<keyVars, pc, effects, reply>>

Location == {"idle", "waiting", "handling", "handled", "returned", "threw"}
Returned == {"returned", "threw"}

Init ==
    /\ KeyInit
    /\ pc = [c \in Caller |-> "idle"]
    /\ effects = {}
    /\ reply = [c \in Caller |-> NoCaller]

Goto(c, l) == pc' = [pc EXCEPT ![c] = l]

ReturnStored(c) ==
    /\ pc[c] = "idle"
    /\ BeginCompleted
    /\ reply' = [reply EXCEPT ![c] = response]
    /\ Goto(c, "returned")
    /\ UNCHANGED effects

Wait(c) ==
    /\ pc[c] = "idle"
    /\ BeginInProgress(c)
    /\ Goto(c, "waiting")
    /\ UNCHANGED <<effects, reply>>

(* The other delivery's body is returned; null when the other one failed.  *)
ReturnAwaited_fault(c) ==   \* runs the handler of the failed delivery again
    /\ pc[c] = "waiting"
    /\ \E r \in Caller \union {NoCaller} :
         /\ Resume(c, r)
         /\ Goto(c, IF r = NoCaller THEN "handling" ELSE "returned")
         /\ reply' = [reply EXCEPT ![c] = r]
    /\ UNCHANGED effects
ReturnAwaited(c) ==
    /\ pc[c] = "waiting"
    /\ \E r \in Caller \union {NoCaller} :
         /\ Resume(c, r)
         /\ reply' = [reply EXCEPT ![c] = r]
    /\ Goto(c, "returned")
    /\ UNCHANGED effects

Start(c) ==
    /\ pc[c] = "idle"
    /\ BeginStarted
    /\ Goto(c, "handling")
    /\ UNCHANGED <<effects, reply>>

HandlerSucceeds(c) ==
    /\ pc[c] = "handling"
    /\ effects' = effects \union {c}
    /\ Goto(c, "handled")
    /\ UNCHANGED <<keyVars, reply>>

(* complete runs behind the await of the handler.                          *)
ReturnOwn_fault(c) ==   \* completes nothing
    /\ pc[c] = "handled"
    /\ UNCHANGED keyVars
    /\ reply' = [reply EXCEPT ![c] = c]
    /\ Goto(c, "returned")
    /\ UNCHANGED effects
ReturnOwn(c) ==
    /\ pc[c] = "handled"
    /\ Complete(c)
    /\ reply' = [reply EXCEPT ![c] = c]
    /\ Goto(c, "returned")
    /\ UNCHANGED effects

HandlerFails(c) ==
    /\ pc[c] = "handling"
    /\ Fail
    /\ Goto(c, "threw")
    /\ UNCHANGED <<effects, reply>>

AllReturned == /\ \A c \in Caller : pc[c] \in Returned
               /\ UNCHANGED vars

Proceed(c) == \/ ReturnAwaited(c) \/ HandlerSucceeds(c)
              \/ ReturnOwn(c) \/ HandlerFails(c)

Next == \/ \E c \in Caller : ReturnStored(c) \/ Wait(c) \/ Start(c) \/ Proceed(c)
        \/ AllReturned

Spec == Init /\ [][Next]_vars

(* Handlers finish and resolved promises are acted upon.                   *)
FairSpec == Spec /\ \A c \in Caller : WF_vars(Proceed(c))

-----------------------------------------------------------------------------
TypeOK == /\ KeyTypeOK
          /\ pc \in [Caller -> Location]
          /\ effects \subseteq Caller
          /\ reply \in [Caller -> Caller \union {NoCaller}]

(* However many times and however concurrently an event is delivered to a  *)
(* consumer, and however often its handler fails first, the handler does   *)
(* its work at most once.                                                  *)
EffectAtMostOnce == \A c, d \in effects : c = d

(* A body execute returns is that of work that was done and is on record:  *)
(* a later delivery would be answered the same.                            *)
BodyIsOfRecordedEffect ==
    \A c \in Caller : reply[c] # NoCaller =>
        reply[c] \in effects /\ status = "completed" /\ response = reply[c]

(* Every delivery is answered.                                             *)
EveryDeliveryReturns ==
    \A c \in Caller : pc[c] = "waiting" ~> pc[c] = "returned"
=============================================================================
