----------------------------- MODULE EventQueue -----------------------------
(***************************************************************************)
(* InMemoryQueueDriver, EventQueuePublisher and EventProcessingWorker: how *)
(* a logged event reaches its handlers.  A job is named by its event; its  *)
(* timers are setTimeout calls, its place in the chain of its aggregate is *)
(* a promise chained behind the one before it.                             *)
(*                                                                         *)
(* Node fires timers of the same delay in the order they were set, and one *)
(* set earlier with a shorter delay before one set later; beyond that any  *)
(* timer may be late.  Jobs of one aggregate run one after another, so a   *)
(* handler never meets a pending key of EventConsumerIdempotency: the key  *)
(* is either absent or completed, which is all that is kept of it here.    *)
(***************************************************************************)
EXTENDS Naturals, SequencesExt

CONSTANTS
    Event,      \* logged events, which are the job ids
    Aggregate,
    AggregateOf,  \* [Event -> Aggregate]
    NHandlers,  \* handlers registered for an event, tried in this order
    Attempts,   \* maxAttempts
    Backoff,    \* backoffDelayMs
    MaxAdds,    \* bound: how often one event is published
    MayClose    \* whether the application may shut down

ASSUME EventQueueAssumption ==
    /\ AggregateOf \in [Event -> Aggregate]
    /\ NHandlers \in Nat /\ Attempts \in Nat \ {0} /\ Backoff \in Nat
    /\ MaxAdds \in Nat /\ MayClose \in BOOLEAN

VARIABLES
    registered,  \* whether the worker registered its processor
    closing,     \* "open", "closing" (isClosed, chains awaited) or "closed"
    jobs,        \* the keys of the jobs Map, in insertion order
    attempts,    \* [Event -> Nat]: attemptsMade
    timers,      \* pending setTimeouts, in the order they were set
    chains,      \* [Aggregate -> Seq(Event)]: chained and not yet settled
    running,     \* [Aggregate -> Nat]: handler the head is in, 0 for none
    handled,     \* [Event -> SUBSET handlers]: completed idempotency keys
    dead,        \* deadLetterJobs
    adds,        \* [Event -> Nat]: how often each was published
    done,        \* history: events that left the queue as processed
    effects,     \* history: [Event -> [handler -> Nat]], work done
    order,       \* history: first adds while the processor is registered
    started      \* history: events whose first attempt has begun

queueVars == <<jobs, attempts, timers>>
workVars  == <<running, handled, dead, done, effects, started>>
vars == <<registered, closing, queueVars, chains, workVars, adds, order>>

Handler == 1..NHandlers

Init ==
    /\ registered = FALSE
    /\ closing = "open"
    /\ jobs = <<>>
    /\ attempts = [e \in Event |-> 0]
    /\ timers = <<>>
    /\ chains = [a \in Aggregate |-> <<>>]
    /\ running = [a \in Aggregate |-> 0]
    /\ handled = [e \in Event |-> {}]
    /\ dead = {}
    /\ adds = [e \in Event |-> 0]
    /\ done = {}
    /\ effects = [e \in Event |-> [h \in Handler |-> 0]]
    /\ order = <<>>
    /\ started = {}

Timer(e, delay) == [job |-> e, delay |-> delay]
Queued(e) == Contains(jobs, e)

(* publish: the first time from logEvent, again when a later logEvent with *)
(* the same idempotency key is answered with the stored event.             *)
Add(e) ==
    /\ adds[e] < MaxAdds
    /\ adds' = [adds EXCEPT ![e] = @ + 1]
    /\ IF closing # "open" \/ Queued(e)
       THEN UNCHANGED queueVars
       ELSE /\ jobs' = Append(jobs, e)
            /\ attempts' = [attempts EXCEPT ![e] = 0]
            /\ timers' = Append(timers, Timer(e, 0))
    /\ order' = IF registered /\ adds[e] = 0 THEN Append(order, e) ELSE order
    /\ UNCHANGED <<registered, closing, chains, workVars>>

(* Every waiting job is scheduled, those that have a timer once more.      *)
Register ==
    /\ ~registered
    /\ registered' = TRUE
    /\ timers' = timers \o [i \in 1..Len(jobs) |-> Timer(jobs[i], 0)]
    /\ UNCHANGED <<closing, jobs, attempts, chains, workVars, adds, order>>

MayFire(i) == \A k \in 1..(i - 1) : timers[k].delay > timers[i].delay

NoProcessorDelay == 10

(* process(jobId): nothing for a job that is gone, a new timer while there *)
(* is no processor, and else a place behind the chain of the aggregate.    *)
Process_front(e, rest) ==   \* waits for the running job, not for the chained
    /\ timers' = rest
    /\ LET a == AggregateOf[e]
           n == IF running[a] = 0 THEN 0 ELSE 1
       IN  chains' = IF Queued(e) /\ closing = "open" /\ registered
                     THEN [chains EXCEPT ![a] = InsertAt(@, n + 1, e)]
                     ELSE chains
Process(e, rest) ==
    IF ~Queued(e) \/ closing # "open"
    THEN timers' = rest /\ UNCHANGED chains
    ELSE IF ~registered
    THEN timers' = Append(rest, Timer(e, NoProcessorDelay)) /\ UNCHANGED chains
    ELSE /\ timers' = rest
         /\ chains' = [chains EXCEPT ![AggregateOf[e]] = Append(@, e)]

Fire(e) ==
    /\ \E i \in 1..Len(timers) :
         /\ timers[i].job = e
         /\ MayFire(i)
         /\ Process(e, RemoveAt(timers, i))
    /\ UNCHANGED <<registered, closing, jobs, attempts, workVars, adds, order>>

-----------------------------------------------------------------------------
Idle(a) == chains[a] # <<>> /\ running[a] = 0

(* The chained function of a job that was removed in the meantime, or that *)
(* comes after the shutdown has begun.                                     *)
SkipAttempt_fault(a) ==   \* stays in the chain when the shutdown has begun
    /\ Idle(a)
    /\ ~Queued(Head(chains[a]))
    /\ chains' = [chains EXCEPT ![a] = Tail(@)]
    /\ UNCHANGED <<registered, closing, queueVars, workVars, adds, order>>
SkipAttempt(a) ==
    /\ Idle(a)
    /\ ~Queued(Head(chains[a])) \/ closing # "open"
    /\ chains' = [chains EXCEPT ![a] = Tail(@)]
    /\ UNCHANGED <<registered, closing, queueVars, workVars, adds, order>>

StartAttempt(a) ==
    /\ Idle(a)
    /\ closing = "open"
    /\ LET e == Head(chains[a]) IN
         /\ Queued(e)
         /\ attempts' = [attempts EXCEPT ![e] = @ + 1]
         /\ started' = started \union {e}
         /\ running' = [running EXCEPT ![a] = 1]
    /\ UNCHANGED <<registered, closing, jobs, timers, chains, handled, dead,
                   done, effects, adds, order>>

(* The worker's loop has reached handler h of event e.                     *)
At(a, e, h) == /\ running[a] \in Handler
               /\ e = Head(chains[a])
               /\ h = running[a]

(* The consumer's key of this event is completed: the handler is not run.  *)
SkipHandler(a) ==
    /\ \E e \in Event, h \in Handler : At(a, e, h) /\ h \in handled[e]
    /\ running' = [running EXCEPT ![a] = @ + 1]
    /\ UNCHANGED <<registered, closing, queueVars, chains, handled, dead,
                   done, effects, started, adds, order>>

MayHandle_fault(e, h) == TRUE   \* the keys are not consulted
MayHandle(e, h) == h \notin handled[e]

HandlerSucceeds(a) ==
    /\ \E e \in Event, h \in Handler :
         /\ At(a, e, h)
         /\ MayHandle(e, h)
         /\ effects' = [effects EXCEPT ![e][h] = @ + 1]
         /\ handled' = [handled EXCEPT ![e] = @ \union {h}]
    /\ running' = [running EXCEPT ![a] = @ + 1]
    /\ UNCHANGED <<registered, closing, queueVars, chains, dead, done,
                   started, adds, order>>

RetryDelay(n) == Backoff * n

(* After the last attempt the job is dead, before it a timer is set.       *)
Rejected_early(e) ==   \* off by one
    IF attempts[e] + 1 >= Attempts
    THEN /\ dead' = dead \union {e}
         /\ jobs' = RemoveFirst(jobs, e)
         /\ UNCHANGED <<attempts, timers>>
    ELSE /\ timers' = Append(timers, Timer(e, RetryDelay(attempts[e])))
         /\ UNCHANGED <<jobs, attempts, dead>>
Rejected_fault(e) ==   \* keeps the dead job
    IF attempts[e] >= Attempts
    THEN /\ dead' = dead \union {e}
         /\ UNCHANGED queueVars
    ELSE /\ timers' = Append(timers, Timer(e, RetryDelay(attempts[e])))
         /\ UNCHANGED <<jobs, attempts, dead>>
Rejected(e) ==
    IF attempts[e] >= Attempts
    THEN /\ dead' = dead \union {e}
         /\ jobs' = RemoveFirst(jobs, e)
         /\ UNCHANGED <<attempts, timers>>
    ELSE /\ timers' = Append(timers, Timer(e, RetryDelay(attempts[e])))
         /\ UNCHANGED <<jobs, attempts, dead>>

HandlerFails_fault(a) ==   \* the worker goes on to the next handler
    /\ \E e \in Event, h \in Handler : At(a, e, h) /\ MayHandle(e, h)
    /\ running' = [running EXCEPT ![a] = @ + 1]
    /\ UNCHANGED <<registered, closing, queueVars, chains, handled, dead,
                   done, effects, started, adds, order>>
HandlerFails(a) ==
    /\ \E e \in Event, h \in Handler :
         At(a, e, h) /\ MayHandle(e, h) /\ Rejected(e)
    /\ running' = [running EXCEPT ![a] = 0]
    /\ chains' = [chains EXCEPT ![a] = Tail(@)]
    /\ UNCHANGED <<registered, closing, handled, done, effects, started,
                   adds, order>>

(* Every handler has returned: the job is deleted, the chain moves on.     *)
FinishJob(a) ==
    /\ running[a] = NHandlers + 1
    /\ LET e == Head(chains[a]) IN
         /\ jobs' = RemoveFirst(jobs, e)
         /\ done' = done \union {e}
    /\ running' = [running EXCEPT ![a] = 0]
    /\ chains' = [chains EXCEPT ![a] = Tail(@)]
    /\ UNCHANGED <<registered, closing, attempts, timers, handled, dead,
                   effects, started, adds, order>>

-----------------------------------------------------------------------------
(* close: jobs are refused and skipped from here on.                       *)
Close ==
    /\ MayClose
    /\ closing = "open"
    /\ closing' = "closing"
    /\ UNCHANGED <<registered, queueVars, chains, workVars, adds, order>>

(* The awaited chains have settled: what is still queued is dropped.       *)
Clear ==
    /\ closing = "closing"
    /\ \A a \in Aggregate : chains[a] = <<>>
    /\ closing' = "closed"
    /\ jobs' = <<>>
    /\ UNCHANGED <<registered, attempts, timers, chains, workVars, adds, order>>

(* Nothing left to do: the queue may rest.                                 *)
Rest == /\ \A e \in Event : adds[e] = MaxAdds
        /\ registered /\ jobs = <<>> /\ timers = <<>>
        /\ closing = (IF MayClose THEN "closed" ELSE "open")
        /\ \A a \in Aggregate : chains[a] = <<>>
        /\ UNCHANGED vars

Work(a) == \/ SkipAttempt(a) \/ StartAttempt(a) \/ SkipHandler(a)
           \/ HandlerSucceeds(a) \/ HandlerFails(a) \/ FinishJob(a)

Next == \/ \E e \in Event : Add(e) \/ Fire(e)
        \/ Register
        \/ \E a \in Aggregate : Work(a)
        \/ Close
        \/ Clear
        \/ Rest

Spec == Init /\ [][Next]_vars

(* The application boots, timers fire, promises are acted upon.            *)
FairSpec == /\ Spec
            /\ WF_vars(Register)
            /\ WF_vars(Clear)
            /\ \A e \in Event : WF_vars(Fire(e))
            /\ \A a \in Aggregate : WF_vars(Work(a))

-----------------------------------------------------------------------------
TypeOK ==
    /\ registered \in BOOLEAN
    /\ closing \in {"open", "closing", "closed"}
    /\ jobs \in Seq(Event) /\ IsInjective(jobs)
    /\ attempts \in [Event -> 0..Attempts]
    /\ timers \in Seq([job : Event, delay : Nat])
    /\ chains \in [Aggregate -> Seq(Event)]
    /\ running \in [Aggregate -> 0..(NHandlers + 1)]
    /\ handled \in [Event -> SUBSET Handler]
    /\ dead \subseteq Event /\ done \subseteq Event /\ started \subseteq Event
    /\ adds \in [Event -> 0..MaxAdds]
    /\ effects \in [Event -> [Handler -> Nat]]
    /\ order \in Seq(Event)

(* A handler does its work for an event at most once, however often the    *)
(* job is retried for the sake of a later handler, scheduled twice by      *)
(* registerProcessor or published again after it was processed.            *)
EffectAtMostOnce == \A e \in Event, h \in Handler : effects[e][h] <= 1

(* An event that left the queue as processed was handled by every handler. *)
ProcessedMeansHandled == \A e \in done : handled[e] = Handler

(* Events of one aggregate published while the worker is up are first      *)
(* attempted in the order they were published.                             *)
FirstAttemptsInOrder ==
    \A i, j \in 1..Len(order) :
        (i < j /\ AggregateOf[order[i]] = AggregateOf[order[j]])
            => (order[j] \in started => order[i] \in started)

(* A job is dead only after all its attempts, and never once every handler *)
(* of its event has done its work.                                         *)
OnlyPoisonDies ==
    [][\A e \in dead' \ dead : handled[e] # Handler /\ attempts[e] = Attempts]_vars

(* A published event leaves the queue: as processed, as dead letter or     *)
(* with the shutdown, which never waits for ever for the running jobs.     *)
EveryJobSettles == \A e \in Event : Queued(e) ~> ~Queued(e)

(* Events of one aggregate are handled in the order of their publication:  *)
(* none is handled while an earlier one still waits for its handlers.      *)
HandledInOrder ==
    \A i, j \in 1..Len(order) :
        (i < j /\ AggregateOf[order[i]] = AggregateOf[order[j]]
               /\ Queued(order[i]))
            => handled[order[j]] \subseteq handled[order[i]]
=============================================================================
