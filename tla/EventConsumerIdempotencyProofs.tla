------------------- MODULE EventConsumerIdempotencyProofs -------------------
(***************************************************************************)
(* Proof that an event's handler does its work at most once per consumer.  *)
(* The key is what keeps two deliveries out of the handler, so the         *)
(* invariant says who may be in it for every status of the key, and when   *)
(* work has been done.                                                     *)
(***************************************************************************)
EXTENDS EventConsumerIdempotency, TLAPS

InHandler == {"handling", "handled"}

(* Whoever is in the handler holds a pending key, alone.                   *)
OneInHandler ==
    \A c \in Caller : pc[c] \in InHandler =>
        /\ status = "in_progress"
        /\ \A d \in Caller : pc[d] \in InHandler => d = c

(* Work was done by the delivery that is about to complete the key, or by  *)
(* the one whose response the completed key holds.                         *)
EffectIsSettled ==
    \A c \in effects :
        \/ pc[c] = "handled"
        \/ status = "completed" /\ response = c

(* A handler that returned did its work, and a completed key holds the     *)
(* response of a delivery that did.                                        *)
WorkIsRecorded ==
    /\ \A c \in Caller : pc[c] = "handled" => c \in effects
    /\ status = "completed" => response \in effects

IInv == /\ TypeOK
        /\ OneInHandler
        /\ EffectIsSettled
        /\ WorkIsRecorded

LEMMA InitIInv == Init => IInv
BY NoCallerAssumption DEF Init, KeyInit, IInv, TypeOK, KeyTypeOK, Location,
   OneInHandler, InHandler, EffectIsSettled, WorkIsRecorded

LEMMA NextIInv == IInv /\ [Next]_vars => IInv'
<1> SUFFICES ASSUME IInv, [Next]_vars PROVE IInv'
  OBVIOUS
<1> USE NoCallerAssumption
        DEF IInv, TypeOK, KeyTypeOK, Location, OneInHandler, InHandler,
            EffectIsSettled, WorkIsRecorded, Goto, keyVars
<1>1. ASSUME NEW c \in Caller, ReturnStored(c) PROVE IInv'
  BY <1>1 DEF ReturnStored, BeginCompleted
<1>2. ASSUME NEW c \in Caller, Wait(c) PROVE IInv'
  BY <1>2 DEF Wait, BeginInProgress
<1>3. ASSUME NEW c \in Caller, Start(c) PROVE IInv'
  <2>1. \A d \in Caller : pc[d] \notin InHandler
    BY <1>3 DEF Start, BeginStarted
  <2> QED
    BY <1>3, <2>1 DEF Start, BeginStarted
<1>4. ASSUME NEW c \in Caller, ReturnAwaited(c) PROVE IInv'
  BY <1>4 DEF ReturnAwaited, Resume
<1>5. ASSUME NEW c \in Caller, HandlerSucceeds(c) PROVE IInv'
  BY <1>5 DEF HandlerSucceeds
<1>6. ASSUME NEW c \in Caller, ReturnOwn(c) PROVE IInv'
  \* the other deliveries are not in the handler, so theirs is no effect
  <2>1. \A d \in effects : d = c
    BY <1>6 DEF ReturnOwn
  <2>2. c \in effects
    BY <1>6 DEF ReturnOwn
  <2> QED
    BY <1>6, <2>1, <2>2 DEF ReturnOwn, Complete, ResolveWaiters
<1>7. ASSUME NEW c \in Caller, HandlerFails(c) PROVE IInv'
  <2>1. effects = {}
    BY <1>7 DEF HandlerFails
  <2> QED
    BY <1>7, <2>1 DEF HandlerFails, Fail, ResolveWaiters
<1>8. CASE UNCHANGED vars
  BY <1>8 DEF vars
<1> QED
  BY <1>1, <1>2, <1>3, <1>4, <1>5, <1>6, <1>7, <1>8
     DEF Next, Proceed, AllReturned

(* Every delivery of an event finds the service in a state of its types.   *)
THEOREM TypeCorrect == Spec => []TypeOK
<1>1. IInv => TypeOK
  BY DEF IInv
<1> QED
  BY InitIInv, NextIInv, <1>1, PTL DEF Spec

(* execute, of EventConsumerIdempotencyService: for any set of deliveries  *)
(* of an event, however they interleave and fail, the consumer's handler   *)
(* does its work at most once.                                             *)
THEOREM HandledAtMostOnce == Spec => []EffectAtMostOnce
<1>1. IInv => EffectAtMostOnce
  BY DEF IInv, TypeOK, OneInHandler, InHandler, EffectIsSettled,
         EffectAtMostOnce
<1> QED
  BY InitIInv, NextIInv, <1>1, PTL DEF Spec

-----------------------------------------------------------------------------
(* A body on its way to a delivery, in a resolved promise or already       *)
(* returned, is the response the completed key holds: a key that answered  *)
(* anybody is never failed or completed again.                             *)
Recorded(r) == status = "completed" /\ response = r

AnswersAreRecorded ==
    \A c \in Caller :
        /\ c \in resolved /\ answer[c] # NoCaller => Recorded(answer[c])
        /\ reply[c] # NoCaller => Recorded(reply[c])

LEMMA InitAnswersAreRecorded == Init => AnswersAreRecorded
  BY DEF Init, KeyInit, AnswersAreRecorded

LEMMA NextAnswersAreRecorded ==
    IInv /\ AnswersAreRecorded /\ [Next]_vars => AnswersAreRecorded'
<1> SUFFICES ASSUME IInv, AnswersAreRecorded, [Next]_vars
             PROVE  AnswersAreRecorded'
  OBVIOUS
<1> USE DEF AnswersAreRecorded, Recorded, keyVars
<1>1. ASSUME NEW c \in Caller, ReturnStored(c) PROVE AnswersAreRecorded'
  BY <1>1 DEF ReturnStored, BeginCompleted, IInv, TypeOK
<1>2. ASSUME NEW c \in Caller, Wait(c) PROVE AnswersAreRecorded'
  BY <1>2 DEF Wait, BeginInProgress
<1>3. ASSUME NEW c \in Caller, Start(c) PROVE AnswersAreRecorded'
  BY <1>3 DEF Start, BeginStarted
<1>4. ASSUME NEW c \in Caller, ReturnAwaited(c) PROVE AnswersAreRecorded'
  BY <1>4 DEF ReturnAwaited, Resume, IInv, TypeOK
<1>5. ASSUME NEW c \in Caller, HandlerSucceeds(c) PROVE AnswersAreRecorded'
  BY <1>5 DEF HandlerSucceeds
<1>6. ASSUME NEW c \in Caller, ReturnOwn(c) PROVE AnswersAreRecorded'
  \* the key was pending until now, so nobody was answered before
  <2>1. status = "in_progress"
    BY <1>6 DEF ReturnOwn, IInv, OneInHandler, InHandler
  <2>2. /\ \A d \in Caller : reply[d] = NoCaller
        /\ \A d \in resolved : answer[d] = NoCaller
    BY <2>1 DEF IInv, TypeOK, KeyTypeOK
  <2> QED
    BY <1>6, <2>2
       DEF ReturnOwn, Complete, ResolveWaiters, IInv, TypeOK, KeyTypeOK
<1>7. ASSUME NEW c \in Caller, HandlerFails(c) PROVE AnswersAreRecorded'
  <2>1. status = "in_progress"
    BY <1>7 DEF HandlerFails, IInv, OneInHandler, InHandler
  <2>2. /\ \A d \in Caller : reply[d] = NoCaller
        /\ \A d \in resolved : answer[d] = NoCaller
    BY <2>1 DEF IInv, TypeOK, KeyTypeOK
  <2> QED
    BY <1>7, <2>2
       DEF HandlerFails, Fail, ResolveWaiters, IInv, TypeOK, KeyTypeOK
<1>8. CASE UNCHANGED vars
  BY <1>8 DEF vars
<1> QED
  BY <1>1, <1>2, <1>3, <1>4, <1>5, <1>6, <1>7, <1>8
     DEF Next, Proceed, AllReturned

(* Whatever body execute returns to a delivery, its own or another's, is   *)
(* of work that was done and is what any later delivery will be answered.  *)
THEOREM RecordedBodies == Spec => []BodyIsOfRecordedEffect
<1>1. IInv /\ AnswersAreRecorded => BodyIsOfRecordedEffect
  BY DEF IInv, WorkIsRecorded, AnswersAreRecorded, Recorded,
         BodyIsOfRecordedEffect
<1> QED
  BY InitIInv, NextIInv, InitAnswersAreRecorded, NextAnswersAreRecorded, <1>1,
     PTL DEF Spec
=============================================================================
