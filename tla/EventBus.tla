------------------------------ MODULE EventBus ------------------------------
(***************************************************************************)
(* EventBusService: subscriptions with a queue each, drained one event at  *)
(* a time.  Between the start of a handler and its end anything else may   *)
(* happen: another publish, a failure and its retry timer, the end of the  *)
(* subscription.                                                           *)
(***************************************************************************)
EXTENDS Integers, Sequences, SequencesExt, FiniteSets, Functions

CONSTANTS
    Subscriber,
    BusEvent,       \* numbers: ids of the stored events, in the order they are recorded
    EventTypeOf,    \* [Subscriber \cup BusEvent -> type]
    MaxFailures     \* bound: failures of handlers in all

ASSUME EventBusAssumption ==
    BusEvent \subseteq Nat \ {0} /\ IsFiniteSet(BusEvent) /\ MaxFailures \in Nat

VARIABLES
    stored,         \* the events in the event log
    busSubscriptions,  \* [Subscriber -> SubscriptionRecord]
    completed,      \* [Subscriber -> the events whose idempotency record is completed]
    failures,
    handledBy,      \* history: [Subscriber -> the events its handler has done, in order]
    arrived,        \* history: [Subscriber -> the events queued for it, in order]
    asked,          \* history: [Subscriber -> the events published to it]
    returned        \* history: events whose publish has resolved

busVars == <<stored, busSubscriptions, completed, failures, handledBy, arrived, asked, returned>>

SubscriptionRecord ==
    [status : {"new", "active", "gone"}, queue : Seq(BusEvent), draining : BOOLEAN,
     current : SUBSET BusEvent,            \* the event the handler is busy with
     retryTimer : {"null", "set", "cleared"},
     waiting : SUBSET (BusEvent \cup {0})] \* publishers, by their event, and 0 for a caller of waitForIdle

BusInit ==
    /\ stored = {} /\ failures = 0 /\ returned = {}
    /\ completed = [s \in Subscriber |-> {}]
    /\ busSubscriptions = [s \in Subscriber |->
         [status |-> "new", queue |-> <<>>, draining |-> FALSE, current |-> {},
          retryTimer |-> "null", waiting |-> {}]]
    /\ handledBy = [s \in Subscriber |-> <<>>] /\ arrived = [s \in Subscriber |-> <<>>]
    /\ asked = [s \in Subscriber |-> {}]

-----------------------------------------------------------------------------
(* Synchronous steps of a subscription record *)

\* resolveIdle
ResolveIdle(r) == [r EXCEPT !.waiting = {}]

\* drain, up to its next await or its end.
Drained_fault(r) ==              \* mutant: the end of the queue wakes nobody
    IF r.queue # <<>> THEN [r EXCEPT !.draining = TRUE, !.current = {Head(r.queue)}]
    ELSE [r EXCEPT !.draining = FALSE, !.current = {}]
Drained(r) ==
    IF r.queue # <<>> THEN [r EXCEPT !.draining = TRUE, !.current = {Head(r.queue)}]
    ELSE LET ended == [r EXCEPT !.draining = FALSE, !.current = {}]
         IN  IF r.retryTimer = "null" THEN ResolveIdle(ended) ELSE ended

\* scheduleDrain
Scheduled(r) == IF r.draining \/ r.retryTimer # "null" THEN r ELSE Drained(r)

\* waitForIdle
Waiting(r, who) ==
    IF ~r.draining /\ r.queue = <<>> /\ r.retryTimer = "null" THEN r
    ELSE [r EXCEPT !.waiting = @ \cup {who}]

\* Publishers nobody makes wait any more have returned.
Return(after, others) ==
    returned' = returned \cup
        {e \in others : \A s \in Subscriber : e \notin after[s].waiting}
Publishers == (UNION {busSubscriptions[s].waiting : s \in Subscriber}) \ {0}

-----------------------------------------------------------------------------
\* EventsRepository.create, events being recorded in the order of their ids.
Store(e) ==
    /\ e \notin stored /\ \A f \in BusEvent : f < e => f \in stored
    /\ stored' = stored \cup {e}
    /\ UNCHANGED <<busSubscriptions, completed, failures, handledBy, arrived, asked, returned>>

Matching(e) ==
    {s \in Subscriber : busSubscriptions[s].status = "active" /\ EventTypeOf[s] = EventTypeOf[e]}

PublishToBus(e) ==
    /\ e \in stored /\ e \notin Publishers \cup returned
    /\ LET after == [s \in Subscriber |->
                       IF s \in Matching(e)
                       THEN Waiting(Scheduled([busSubscriptions[s] EXCEPT !.queue = Append(@, e)]), e)
                       ELSE busSubscriptions[s]]
       IN  busSubscriptions' = after /\ Return(after, {e})
    /\ arrived' = [s \in Subscriber |-> IF s \in Matching(e) THEN Append(arrived[s], e) ELSE arrived[s]]
    /\ asked' = [s \in Subscriber |-> IF s \in Matching(e) THEN asked[s] \cup {e} ELSE asked[s]]
    /\ UNCHANGED <<stored, completed, failures, handledBy>>

\* subscribe: the backlog of the type, oldest first.
Backlog(s) ==
    LET backlog == {e \in stored : EventTypeOf[e] = EventTypeOf[s]}
    IN  CHOOSE events \in [1..Cardinality(backlog) -> backlog] :
          \A m, n \in DOMAIN events : m < n => events[m] < events[n]
Subscribe(s) ==
    /\ busSubscriptions[s].status = "new"
    /\ busSubscriptions' = [busSubscriptions EXCEPT ![s] =
                           Scheduled([@ EXCEPT !.status = "active", !.queue = Backlog(s)])]
    /\ arrived' = [arrived EXCEPT ![s] = Backlog(s)]
    /\ UNCHANGED <<stored, completed, failures, handledBy, asked, returned>>

\* unsubscribe: the timer is cleared, not forgotten, and a handler goes on.
Unsubscribe(s) ==
    /\ busSubscriptions[s].status = "active"
    /\ LET r     == busSubscriptions[s]
           after == [busSubscriptions EXCEPT ![s] =
                       ResolveIdle([r EXCEPT !.status = "gone", !.queue = <<>>, !.draining = FALSE,
                                      !.retryTimer = IF @ = "null" THEN "null" ELSE "cleared"])]
       IN  busSubscriptions' = after /\ Return(after, Publishers)
    /\ UNCHANGED <<stored, completed, failures, handledBy, arrived, asked>>

WaitForIdle(s) ==
    /\ busSubscriptions[s].status # "new"
    /\ busSubscriptions' = [busSubscriptions EXCEPT ![s] = Waiting(@, 0)]
    /\ UNCHANGED <<stored, completed, failures, handledBy, arrived, asked, returned>>

\* The handler has done its event, or the consumer had done it before; the
\* head of the queue goes, and the loop takes the next.
HandlerReturns(s) ==
    \E e \in busSubscriptions[s].current :
        LET r     == busSubscriptions[s]
            rest  == IF r.queue = <<>> THEN <<>> ELSE Tail(r.queue)
            after == [busSubscriptions EXCEPT ![s] = Drained([r EXCEPT !.queue = rest])]
        IN  /\ busSubscriptions' = after /\ Return(after, Publishers)
            /\ handledBy' = [handledBy EXCEPT ![s] = IF e \in completed[s] THEN @ ELSE Append(@, e)]
            /\ completed' = [completed EXCEPT ![s] = @ \cup {e}]
            /\ UNCHANGED <<stored, failures, arrived, asked>>

\* The event stays at the head until the timer fires.
HandlerFails_fault(s) ==         \* mutant: the failed event goes to the end
    \E e \in busSubscriptions[s].current \ completed[s] :
        /\ failures < MaxFailures /\ failures' = failures + 1
        /\ busSubscriptions' = [busSubscriptions EXCEPT
             ![s].queue = IF @ = <<>> THEN @ ELSE Append(Tail(@), e),
             ![s].retryTimer = "set", ![s].draining = FALSE, ![s].current = {}]
        /\ UNCHANGED <<stored, completed, handledBy, arrived, asked, returned>>
HandlerFails(s) ==
    /\ busSubscriptions[s].current \ completed[s] # {}
    /\ failures < MaxFailures /\ failures' = failures + 1
    /\ busSubscriptions' = [busSubscriptions EXCEPT
         ![s].retryTimer = "set", ![s].draining = FALSE, ![s].current = {}]
    /\ UNCHANGED <<stored, completed, handledBy, arrived, asked, returned>>

RetryTimer(s) ==
    /\ busSubscriptions[s].retryTimer = "set"
    /\ LET after == [busSubscriptions EXCEPT ![s] = Drained([@ EXCEPT !.retryTimer = "null"])]
       IN  busSubscriptions' = after /\ Return(after, Publishers)
    /\ UNCHANGED <<stored, completed, failures, handledBy, arrived, asked>>

BusNext ==
    \/ \E e \in BusEvent : Store(e) \/ PublishToBus(e)
    \/ \E s \in Subscriber :
         \/ Subscribe(s) \/ Unsubscribe(s) \/ WaitForIdle(s)
         \/ HandlerReturns(s) \/ HandlerFails(s) \/ RetryTimer(s)

-----------------------------------------------------------------------------
BusTypeOK ==
    /\ busSubscriptions \in [Subscriber -> SubscriptionRecord]
    /\ \A s \in Subscriber : Cardinality(busSubscriptions[s].current) <= 1

\* The distinct members of a sequence, each where it is first.
Distinct(events) ==
    FoldLeft(LAMBDA seen, e : IF Contains(seen, e) THEN seen ELSE Append(seen, e), <<>>, events)

\* A subscription does its events one by one in the order they came to it,
\* each once: a failure holds up what is behind it, and an event that comes
\* both with the backlog and from its publisher has one effect
\* (EventBusService.drain, subscribe).
HandledInOrder ==
    \A s \in Subscriber : IsPrefix(handledBy[s], Distinct(arrived[s]))

\* A publisher that waits has a handler or a timer to wait for, so that no
\* wakeup is lost between a retry, a new event and an unsubscribe; and when
\* its publish resolves, every subscription it waited for has done the event
\* or is gone (EventBusService.publish, waitForIdle, drain).
PublishersAreAnswered ==
    /\ \A s \in Subscriber :
         LET r == busSubscriptions[s]
         IN  r.waiting \ {0} # {} => r.current # {} \/ r.retryTimer = "set"
    /\ \A s \in Subscriber :
         busSubscriptions[s].status = "active" => returned \cap asked[s] \subseteq ToSet(handledBy[s])
=============================================================================
