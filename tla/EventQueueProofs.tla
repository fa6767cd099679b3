-------------------------- MODULE EventQueueProofs --------------------------
(***************************************************************************)
(* Theorems about the in-memory event queue and its worker, for any number *)
(* of events, aggregates, handlers, attempts and repeated publications.    *)
(***************************************************************************)
EXTENDS EventQueue, CollectionLemmas

(* A job that is being attempted is at the head of the chain of its        *)
(* aggregate and in the jobs Map; of the handlers before the one it is in  *)
(* each has done its work.                                                 *)
RunningInv ==
    \A a \in Aggregate : running[a] > 0 =>
        /\ chains[a] # <<>>
        /\ Queued(Head(chains[a]))
        /\ closing # "closed"
        /\ 1..(running[a] - 1) \subseteq handled[Head(chains[a])]

ChainInv ==
    \A a \in Aggregate : \A i \in DOMAIN chains[a] : AggregateOf[chains[a][i]] = a

(* A queued job has an attempt left, unless its last one is under way.     *)
AttemptsInv ==
    \A e \in Event : Queued(e) =>
        \/ attempts[e] < Attempts
        \/ /\ running[AggregateOf[e]] > 0
           /\ e = Head(chains[AggregateOf[e]])

(* Work done is on the key's record, and an event that was processed has   *)
(* nothing left to do.                                                     *)
EffectInv ==
    \A e \in Event, h \in Handler : effects[e][h] = IF h \in handled[e] THEN 1 ELSE 0

IInv == /\ TypeOK /\ RunningInv /\ ChainInv /\ AttemptsInv
        /\ EffectInv /\ ProcessedMeansHandled

-----------------------------------------------------------------------------
(* Why first attempts keep the order of publication.  An event published   *)
(* while the worker is up has one timer with no delay, or one place in the *)
(* chain, until its first attempt begins; and of two such events of one    *)
(* aggregate the later is behind the earlier in the timers, as Node fires  *)
(* them in order, and behind it in the chain.                              *)
Early(e) == e \in ToSet(order) /\ e \notin started

Chained(e) == e \in ToSet(chains[AggregateOf[e]])

Behind(e, f) ==
    /\ f \notin started
    /\ \A q \in DOMAIN chains[AggregateOf[e]] :
         chains[AggregateOf[e]][q] = f =>
           \E p \in 1..(q - 1) : chains[AggregateOf[e]][p] = e
    /\ \A q \in DOMAIN timers : timers[q].job = f =>
           Chained(e) \/ \E p \in 1..(q - 1) : timers[p] = Timer(e, 0)

OrderInv ==
    closing = "open" =>
        /\ \A e \in Event : Early(e) =>
             /\ Queued(e)
             /\ \A q \in DOMAIN timers : timers[q].job = e => timers[q].delay = 0
             /\ Chained(e) \/ \E q \in DOMAIN timers : timers[q] = Timer(e, 0)
        /\ \A i, j \in DOMAIN order :
             /\ i < j
             /\ AggregateOf[order[i]] = AggregateOf[order[j]]
             /\ Early(order[i])
             => Behind(order[i], order[j])

(* An event that was never published is nowhere.                           *)
Nowhere(e) ==
    /\ ~Queued(e)
    /\ e \notin ToSet(order)
    /\ e \notin started
    /\ \A q \in DOMAIN timers : timers[q].job # e
    /\ ~Chained(e)

FreshInv == \A e \in Event : adds[e] = 0 => Nowhere(e)

(* A job that is being attempted has begun its first attempt.              *)
StartedInv ==
    \A a \in Aggregate : running[a] > 0 => Head(chains[a]) \in started

OInv == /\ IInv
        /\ order # <<>> => registered
        /\ FreshInv /\ StartedInv /\ OrderInv
        /\ FirstAttemptsInOrder

-----------------------------------------------------------------------------
TimerSet == [job : Event, delay : Nat]

LEMMA TimerType ==
    ASSUME NEW e \in Event, NEW d \in Nat
    PROVE  /\ Timer(e, d) \in TimerSet
           /\ Timer(e, d).job = e /\ Timer(e, d).delay = d
  BY DEF Timer, TimerSet

LEMMA QueuedIs ==
    ASSUME TypeOK, NEW e PROVE Queued(e) <=> e \in ToSet(jobs)
  BY ElementOf DEF TypeOK, Queued

LEMMA QueuedIsNext ==
    ASSUME TypeOK', NEW e PROVE Queued(e)' <=> e \in ToSet(jobs')
  BY ElementOf DEF TypeOK, Queued

LEMMA InitIInv == Init => IInv
<1> SUFFICES ASSUME Init PROVE IInv
  OBVIOUS
<1>1. jobs \in Seq(Event) /\ IsInjective(jobs) /\ timers \in Seq(TimerSet)
  BY DEF Init, IsInjective
<1>2. TypeOK
  <2>1. /\ attempts \in [Event -> 0..Attempts]
        /\ running \in [Aggregate -> 0..(NHandlers + 1)]
        /\ adds \in [Event -> 0..MaxAdds]
    BY EventQueueAssumption DEF Init
  <2>2. /\ registered \in BOOLEAN
        /\ closing \in {"open", "closing", "closed"}
        /\ handled \in [Event -> SUBSET Handler]
        /\ dead \subseteq Event /\ done \subseteq Event /\ started \subseteq Event
        /\ effects \in [Event -> [Handler -> Nat]]
    BY DEF Init
  <2>3. order \in Seq(Event) /\ chains \in [Aggregate -> Seq(Event)]
    <3>1. <<>> \in Seq(Event)
      OBVIOUS
    <3> QED
      BY <3>1 DEF Init
  <2> QED
    BY <1>1, <2>1, <2>2, <2>3 DEF TypeOK, TimerSet
<1>3. \A e \in Event : ~Queued(e)
  BY <1>2, QueuedIs DEF Init, ToSet
<1> QED
  BY <1>2, <1>3, EventQueueAssumption
     DEF Init, IInv, RunningInv, ChainInv, AttemptsInv, EffectInv,
         ProcessedMeansHandled, Handler

(* What is added is at the end of the Map and of the timers.               *)
LEMMA AddEffect ==
    ASSUME TypeOK, NEW e \in Event, Add(e)
    PROVE  \/ UNCHANGED queueVars /\ (closing # "open" \/ Queued(e))
           \/ /\ closing = "open"
              /\ ~Queued(e)
              /\ jobs' \in Seq(Event)
              /\ IsInjective(jobs')
              /\ ToSet(jobs') = ToSet(jobs) \union {e}
              /\ attempts' = [attempts EXCEPT ![e] = 0]
              /\ timers' = Append(timers, Timer(e, 0))
              /\ timers' \in Seq(TimerSet)
<1> SUFFICES ASSUME closing = "open", ~Queued(e)
             PROVE  /\ jobs' \in Seq(Event)
                    /\ IsInjective(jobs')
                    /\ ToSet(jobs') = ToSet(jobs) \union {e}
                    /\ attempts' = [attempts EXCEPT ![e] = 0]
                    /\ timers' = Append(timers, Timer(e, 0))
                    /\ timers' \in Seq(TimerSet)
  BY DEF Add
<1>1. /\ jobs' = Append(jobs, e)
      /\ attempts' = [attempts EXCEPT ![e] = 0]
      /\ timers' = Append(timers, Timer(e, 0))
  BY DEF Add
<1>2. jobs' \in Seq(Event) /\ ToSet(jobs') = ToSet(jobs) \union {e}
  BY <1>1, AppendElements DEF TypeOK
<1>3. IsInjective(jobs')
  BY <1>1, AppendNew, QueuedIs DEF TypeOK
<1>4. timers' \in Seq(TimerSet)
  <2>1. Timer(e, 0) \in TimerSet /\ timers \in Seq(TimerSet)
    BY TimerType DEF TypeOK, TimerSet
  <2> QED
    BY <1>1, <2>1, AppendElements
<1> QED
  BY <1>1, <1>2, <1>3, <1>4

LEMMA AddIInv ==
    ASSUME IInv, NEW e \in Event, Add(e) PROVE IInv'
<1> USE DEF IInv
<1>1. TypeOK'
  <2>1. /\ jobs' \in Seq(Event)
        /\ IsInjective(jobs')
        /\ attempts' \in [Event -> 0..Attempts]
        /\ timers' \in Seq(TimerSet)
    <3>1. CASE UNCHANGED queueVars
      BY <3>1 DEF TypeOK, TimerSet, queueVars
    <3>2. ASSUME attempts' = [attempts EXCEPT ![e] = 0]
          PROVE  attempts' \in [Event -> 0..Attempts]
      BY <3>2, EventQueueAssumption DEF TypeOK
    <3> QED
      BY <3>1, <3>2, AddEffect
  <2>2. adds' \in [Event -> 0..MaxAdds]
    BY EventQueueAssumption, SMTT(20) DEF Add, TypeOK
  <2>3. order' \in Seq(Event)
    BY AppendElements DEF Add, TypeOK
  <2> QED
    BY <2>1, <2>2, <2>3 DEF Add, workVars, TypeOK, TimerSet
<1>2. \A f \in Event : Queued(f)' <=> Queued(f) \/ (Queued(e)' /\ f = e)
  BY <1>1, AddEffect, QueuedIs, QueuedIsNext DEF queueVars
<1>3. \A a \in Aggregate : chains[a] # <<>> => Head(chains[a]) \in Event
  BY DEF TypeOK
<1>4. RunningInv'
  BY <1>2, <1>3 DEF Add, workVars, RunningInv
<1>5. AttemptsInv'
  <2>1. CASE UNCHANGED queueVars
    BY <2>1 DEF Add, AttemptsInv, Queued, queueVars, workVars
  <2>2. CASE attempts' = [attempts EXCEPT ![e] = 0]
    BY <1>2, <2>2, EventQueueAssumption
       DEF Add, AttemptsInv, workVars, TypeOK
  <2> QED
    BY <2>1, <2>2, AddEffect
<1> QED
  BY <1>1, <1>4, <1>5
     DEF Add, workVars, ChainInv, EffectInv, ProcessedMeansHandled

LEMMA RegisterIInv ==
    ASSUME IInv, Register PROVE IInv'
<1> USE DEF IInv
<1>1. timers' \in Seq(TimerSet)
  <2> DEFINE new == [i \in 1..Len(jobs) |-> Timer(jobs[i], 0)]
  <2>1. Len(jobs) \in Nat /\ \A i \in 1..Len(jobs) : jobs[i] \in Event
    BY DEF TypeOK
  <2>2. \A i \in 1..Len(jobs) : Timer(jobs[i], 0) \in TimerSet
    BY <2>1, TimerType
  <2>3. new \in Seq(TimerSet)
    BY <2>1, <2>2
  <2> QED
    BY <2>3, ConcatProperties DEF Register, TypeOK, TimerSet
<1>2. TypeOK'
  BY <1>1 DEF Register, TypeOK, workVars, TimerSet
<1> QED
  BY <1>2
     DEF Register, workVars, RunningInv, ChainInv, AttemptsInv, EffectInv,
         ProcessedMeansHandled, Queued

(* A timer that fires is gone; it may have chained its job, if that is     *)
(* queued, set a new timer, or done nothing.                               *)
LEMMA FireEffect ==
    ASSUME TypeOK, NEW e \in Event, Fire(e)
    PROVE  /\ timers' \in Seq(TimerSet)
           /\ UNCHANGED <<registered, closing, jobs, attempts, workVars, adds, order>>
           /\ \/ UNCHANGED chains
              \/ /\ Queued(e) /\ closing = "open" /\ registered
                 /\ chains' = [chains EXCEPT ![AggregateOf[e]] = Append(@, e)]
<1>1. PICK i \in 1..Len(timers) : Process(e, RemoveAt(timers, i))
  BY DEF Fire
<1> DEFINE rest == RemoveAt(timers, i)
<1>2. rest \in Seq(TimerSet)
  BY RemoveAtPlaces DEF TypeOK, TimerSet
<1>3. Append(rest, Timer(e, NoProcessorDelay)) \in Seq(TimerSet)
  BY <1>2, TimerType DEF NoProcessorDelay
<1> HIDE DEF rest
<1>4. timers' = rest \/ timers' = Append(rest, Timer(e, NoProcessorDelay))
  BY <1>1 DEF Process, rest
<1>5. \/ UNCHANGED chains
      \/ /\ Queued(e) /\ closing = "open" /\ registered
         /\ chains' = [chains EXCEPT ![AggregateOf[e]] = Append(@, e)]
  BY <1>1 DEF Process
<1> QED
  BY <1>2, <1>3, <1>4, <1>5 DEF Fire

(* A job that joins a chain leaves its head alone.                         *)
LEMMA FireIInv ==
    ASSUME IInv, NEW e \in Event, Fire(e) PROVE IInv'
<1> USE DEF IInv
<1> DEFINE b == AggregateOf[e]
<1>1. b \in Aggregate
  BY EventQueueAssumption
<1>2. chains[b] \in Seq(Event)
  BY <1>1 DEF TypeOK
<1>3. /\ chains' \in [Aggregate -> Seq(Event)]
      /\ \A a \in Aggregate : chains[a] # <<>> =>
           chains'[a] # <<>> /\ Head(chains'[a]) = Head(chains[a])
  <2>1. CASE UNCHANGED chains
    BY <2>1 DEF TypeOK
  <2>2. CASE chains' = [chains EXCEPT ![b] = Append(@, e)]
    <3>1. /\ Append(chains[b], e) \in Seq(Event)
          /\ Append(chains[b], e) # <<>>
          /\ chains[b] # <<>> => Head(Append(chains[b], e)) = Head(chains[b])
      BY <1>2, AppendElements
    <3> QED
      BY <1>1, <2>2, <3>1 DEF TypeOK
  <2> QED
    BY <2>1, <2>2, FireEffect
<1>4. TypeOK'
  BY <1>3, FireEffect DEF TypeOK, workVars, TimerSet
<1>5. ChainInv'
  <2>1. CASE UNCHANGED chains
    BY <2>1 DEF ChainInv
  <2>2. CASE chains' = [chains EXCEPT ![b] = Append(@, e)]
    <3>1. /\ DOMAIN Append(chains[b], e) = 1..(Len(chains[b]) + 1)
          /\ \A i \in DOMAIN chains[b] : Append(chains[b], e)[i] = chains[b][i]
          /\ Append(chains[b], e)[Len(chains[b]) + 1] = e
      BY <1>2, AppendElements
    <3>2. \A i \in DOMAIN chains[b] : AggregateOf[chains[b][i]] = b
      BY <1>1 DEF ChainInv
    <3>3. DOMAIN chains[b] = 1..Len(chains[b]) /\ Len(chains[b]) \in Nat
      BY <1>2
    <3>4. ASSUME NEW i \in DOMAIN Append(chains[b], e)
          PROVE  AggregateOf[Append(chains[b], e)[i]] = b
      <4>1. CASE i \in DOMAIN chains[b]
        BY <3>1, <3>2, <4>1
      <4>2. CASE i = Len(chains[b]) + 1
        BY <3>1, <4>2
      <4> QED
        BY <3>1, <3>3, <4>1, <4>2
    <3> QED
      BY <1>1, <2>2, <3>4 DEF TypeOK, ChainInv
  <2> QED
    BY <2>1, <2>2, FireEffect
<1>6. \A f : Queued(f)' <=> Queued(f)
  BY FireEffect DEF Queued
<1>7. RunningInv'
  BY <1>3, <1>6, FireEffect DEF RunningInv, workVars
<1>8. AttemptsInv'
  BY <1>3, <1>6, FireEffect, EventQueueAssumption
     DEF AttemptsInv, RunningInv, workVars
<1> QED
  BY <1>4, <1>5, <1>7, <1>8, FireEffect
     DEF EffectInv, ProcessedMeansHandled, workVars

LEMMA HeadOfChain ==
    ASSUME TypeOK, ChainInv, NEW a \in Aggregate, chains[a] # <<>>
    PROVE  /\ Head(chains[a]) \in Event
           /\ AggregateOf[Head(chains[a])] = a
           /\ Tail(chains[a]) \in Seq(Event)
           /\ \A i \in DOMAIN Tail(chains[a]) : AggregateOf[Tail(chains[a])[i]] = a
<1>1. chains[a] \in Seq(Event)
  BY DEF TypeOK
<1>2. /\ Tail(chains[a]) \in Seq(Event)
      /\ Head(chains[a]) \in Event
      /\ Head(chains[a]) = chains[a][1]
      /\ Len(chains[a]) \in Nat \ {0}
      /\ DOMAIN Tail(chains[a]) = 1..(Len(chains[a]) - 1)
      /\ \A i \in DOMAIN Tail(chains[a]) : Tail(chains[a])[i] = chains[a][i + 1]
  BY <1>1, TailElements
<1>3. \A i \in 1..Len(chains[a]) : AggregateOf[chains[a][i]] = a
  BY <1>1 DEF ChainInv
<1> QED
  BY <1>2, <1>3

(* The promise at the head of a chain settles.                             *)
LEMMA ChainMoves ==
    ASSUME TypeOK, ChainInv, NEW a \in Aggregate, chains[a] # <<>>,
           chains' = [chains EXCEPT ![a] = Tail(@)]
    PROVE  chains' \in [Aggregate -> Seq(Event)] /\ ChainInv'
  BY HeadOfChain DEF TypeOK, ChainInv

(* jobs.delete                                                             *)
LEMMA JobDeleted ==
    ASSUME TypeOK, NEW e \in Event, jobs' = RemoveFirst(jobs, e)
    PROVE  /\ jobs' \in Seq(Event)
           /\ IsInjective(jobs')
           /\ \A f : Queued(f)' <=> Queued(f) /\ f # e
<1>1. /\ jobs' \in Seq(Event)
      /\ IsInjective(jobs')
      /\ ToSet(jobs') = ToSet(jobs) \ {e}
  BY RemoveFirstElements DEF TypeOK
<1>2. ASSUME NEW f PROVE Queued(f)' <=> f \in ToSet(jobs')
  BY <1>1, ElementOf DEF Queued
<1> QED
  BY <1>1, <1>2, QueuedIs

LEMMA SkipAttemptIInv ==
    ASSUME IInv, NEW a \in Aggregate, SkipAttempt(a) PROVE IInv'
<1> USE DEF IInv
<1>1. chains' \in [Aggregate -> Seq(Event)] /\ ChainInv'
  BY ChainMoves DEF SkipAttempt, Idle
<1>2. TypeOK'
  BY <1>1 DEF SkipAttempt, TypeOK, queueVars, workVars
<1>3. \A f : Queued(f)' <=> Queued(f)
  BY DEF SkipAttempt, queueVars, Queued
<1>4. RunningInv'
  BY <1>3, SMTT(20) DEF SkipAttempt, Idle, TypeOK, RunningInv, workVars
<1>5. AttemptsInv'
  BY <1>3, EventQueueAssumption
     DEF SkipAttempt, Idle, TypeOK, AttemptsInv, queueVars, workVars
<1> QED
  BY <1>1, <1>2, <1>4, <1>5
     DEF SkipAttempt, workVars, EffectInv, ProcessedMeansHandled

LEMMA StartAttemptIInv ==
    ASSUME IInv, NEW a \in Aggregate, StartAttempt(a) PROVE IInv'
<1> USE DEF IInv
<1> DEFINE e == Head(chains[a])
<1>1. e \in Event /\ AggregateOf[e] = a
  BY HeadOfChain DEF StartAttempt, Idle
<1>2. /\ Queued(e)
      /\ running[a] = 0
      /\ closing = "open"
      /\ attempts' = [attempts EXCEPT ![e] = @ + 1]
      /\ started' = started \union {e}
      /\ running' = [running EXCEPT ![a] = 1]
      /\ UNCHANGED <<registered, closing, jobs, timers, chains, handled, dead,
                     done, effects, adds, order>>
  BY DEF StartAttempt, Idle
<1> HIDE DEF e
<1>3. attempts[e] < Attempts
  BY <1>1, <1>2 DEF AttemptsInv
<1>4. /\ attempts' \in [Event -> 0..Attempts]
      /\ running' \in [Aggregate -> 0..(NHandlers + 1)]
  BY <1>1, <1>2, <1>3, EventQueueAssumption DEF TypeOK
<1>5. TypeOK'
  BY <1>1, <1>2, <1>4 DEF TypeOK
<1>6. \A f : Queued(f)' <=> Queued(f)
  BY <1>2 DEF Queued
<1>7. RunningInv'
  <2>1. \A b \in Aggregate : running'[b] = IF b = a THEN 1 ELSE running[b]
    BY <1>2 DEF TypeOK
  <2>2. chains[a] # <<>> /\ Head(chains[a]) = e
    BY DEF StartAttempt, Idle, e
  <2> QED
    BY <1>2, <1>6, <2>1, <2>2 DEF RunningInv
<1>8. AttemptsInv'
  <2>1. Head(chains[a]) = e
    BY DEF e
  <2>2. /\ running'[a] = 1
        /\ \A f \in Event : f # e => attempts'[f] = attempts[f]
        /\ \A b \in Aggregate : b # a => running'[b] = running[b]
    BY <1>1, <1>2 DEF TypeOK
  <2> SUFFICES ASSUME NEW f \in Event, Queued(f)
               PROVE  \/ attempts'[f] < Attempts
                      \/ /\ running'[AggregateOf[f]] > 0
                         /\ f = Head(chains[AggregateOf[f]])
    BY <1>2, <1>6 DEF AttemptsInv
  <2>3. CASE f = e
    BY <1>1, <2>1, <2>2, <2>3
  <2>4. CASE f # e
    <3>1. attempts'[f] = attempts[f] /\ AggregateOf[f] \in Aggregate
      BY <2>2, <2>4, EventQueueAssumption
    <3>2. CASE attempts[f] < Attempts
      BY <3>1, <3>2
    <3>3. CASE running[AggregateOf[f]] > 0 /\ f = Head(chains[AggregateOf[f]])
      BY <1>2, <2>2, <3>1, <3>3
    <3> QED
      BY <3>2, <3>3 DEF AttemptsInv
  <2> QED
    BY <2>3, <2>4
<1> QED
  BY <1>2, <1>5, <1>7, <1>8 DEF ChainInv, EffectInv, ProcessedMeansHandled

(* The worker's loop goes on.                                              *)
LEMMA NextHandler ==
    ASSUME TypeOK, NEW a \in Aggregate, running[a] \in Handler,
           running' = [running EXCEPT ![a] = @ + 1]
    PROVE  /\ running' \in [Aggregate -> 0..(NHandlers + 1)]
           /\ \A b \in Aggregate : running'[b] > 0 => running[b] > 0
           /\ \A b \in Aggregate : running[b] > 0 => running'[b] > 0
           /\ \A b \in Aggregate :
                1..(running'[b] - 1) \subseteq
                  IF b = a THEN 1..(running[b] - 1) \union {running[b]}
                           ELSE 1..(running[b] - 1)
<1>1. /\ NHandlers \in Nat
      /\ running[a] \in Nat /\ 1 <= running[a] /\ running[a] <= NHandlers
  BY EventQueueAssumption DEF Handler
<1>2. running[a] + 1 \in 0..(NHandlers + 1)
  BY <1>1
<1>3. running' \in [Aggregate -> 0..(NHandlers + 1)]
  BY <1>2 DEF TypeOK
<1>4. \A b \in Aggregate : running'[b] = IF b = a THEN running[a] + 1 ELSE running[b]
  BY DEF TypeOK
<1>5. 1..((running[a] + 1) - 1) \subseteq 1..(running[a] - 1) \union {running[a]}
  BY <1>1
<1> QED
  BY <1>1, <1>3, <1>4, <1>5

LEMMA SkipHandlerIInv ==
    ASSUME IInv, NEW a \in Aggregate, SkipHandler(a) PROVE IInv'
<1> USE DEF IInv
<1>1. /\ running[a] \in Handler
      /\ running[a] \in handled[Head(chains[a])]
      /\ running' = [running EXCEPT ![a] = @ + 1]
      /\ UNCHANGED <<registered, closing, queueVars, chains, handled, dead,
                     done, effects, started, adds, order>>
  BY DEF SkipHandler, At
<1>2. TypeOK'
  <2>1. running' \in [Aggregate -> 0..(NHandlers + 1)]
    BY <1>1, NextHandler
  <2> QED
    BY <1>1, <2>1 DEF TypeOK, queueVars
<1>3. \A f : Queued(f)' <=> Queued(f)
  BY <1>1 DEF Queued, queueVars
<1>4. RunningInv'
  <2> SUFFICES ASSUME NEW b \in Aggregate, running'[b] > 0
               PROVE  /\ chains[b] # <<>>
                      /\ Queued(Head(chains[b]))
                      /\ closing # "closed"
                      /\ 1..(running'[b] - 1) \subseteq handled[Head(chains[b])]
    BY <1>1, <1>3 DEF RunningInv
  <2>1. /\ running[b] > 0
        /\ 1..(running'[b] - 1) \subseteq
             IF b = a THEN 1..(running[b] - 1) \union {running[b]}
                      ELSE 1..(running[b] - 1)
    BY <1>1, NextHandler
  <2> QED
    BY <1>1, <2>1 DEF RunningInv
<1>5. AttemptsInv'
  BY <1>1, <1>3, NextHandler, EventQueueAssumption DEF AttemptsInv, queueVars
<1> QED
  BY <1>1, <1>2, <1>4, <1>5 DEF ChainInv, EffectInv, ProcessedMeansHandled

LEMMA HandlerSucceedsIInv ==
    ASSUME IInv, NEW a \in Aggregate, HandlerSucceeds(a) PROVE IInv'
<1> USE DEF IInv
<1> DEFINE e == Head(chains[a])
           h == running[a]
<1>1. /\ e \in Event
      /\ h \in Handler
      /\ h \notin handled[e]
      /\ effects' = [effects EXCEPT ![e][h] = @ + 1]
      /\ handled' = [handled EXCEPT ![e] = @ \union {h}]
      /\ running' = [running EXCEPT ![a] = @ + 1]
      /\ UNCHANGED <<registered, closing, queueVars, chains, dead, done,
                     started, adds, order>>
  BY DEF HandlerSucceeds, At, MayHandle
<1>2. running[a] = h /\ Head(chains[a]) = e /\ h \in Nat /\ h <= NHandlers
  BY <1>1, EventQueueAssumption DEF Handler
<1> HIDE DEF e, h
<1>3. TypeOK'
  <2>1. running' \in [Aggregate -> 0..(NHandlers + 1)]
    BY <1>1, <1>2, NextHandler
  <2>2. handled' \in [Event -> SUBSET Handler]
    BY <1>1 DEF TypeOK
  <2>3. effects' \in [Event -> [Handler -> Nat]]
    <3>1. effects[e] \in [Handler -> Nat]
      BY <1>1 DEF TypeOK
    <3>2. [effects[e] EXCEPT ![h] = @ + 1] \in [Handler -> Nat]
      BY <1>1, <3>1
    <3> QED
      BY <1>1, <3>2 DEF TypeOK
  <2> QED
    BY <1>1, <2>1, <2>2, <2>3 DEF TypeOK, queueVars
<1>4. \A f : Queued(f)' <=> Queued(f)
  BY <1>1 DEF Queued, queueVars
<1>5. \A f \in Event : handled'[f] = IF f = e THEN handled[f] \union {h}
                                             ELSE handled[f]
  BY <1>1 DEF TypeOK
<1>6. /\ \A b \in Aggregate : running'[b] > 0 <=> running[b] > 0
      /\ \A b \in Aggregate :
           1..(running'[b] - 1) \subseteq
             IF b = a THEN 1..(running[b] - 1) \union {h} ELSE 1..(running[b] - 1)
  BY <1>1, <1>2, NextHandler
<1>7. RunningInv'
  <2> SUFFICES ASSUME NEW b \in Aggregate, running'[b] > 0
               PROVE  /\ chains[b] # <<>>
                      /\ Queued(Head(chains[b]))
                      /\ closing # "closed"
                      /\ 1..(running'[b] - 1) \subseteq handled'[Head(chains[b])]
    BY <1>1, <1>4 DEF RunningInv
  <2>1. running[b] > 0
    BY <1>6
  <2>2. /\ chains[b] # <<>>
        /\ Queued(Head(chains[b]))
        /\ closing # "closed"
        /\ 1..(running[b] - 1) \subseteq handled[Head(chains[b])]
    BY <2>1 DEF RunningInv
  <2>3. Head(chains[b]) \in Event
    BY <2>2, HeadOfChain
  <2> QED
    BY <1>2, <1>5, <1>6, <2>2, <2>3
<1>8. AttemptsInv'
  BY <1>1, <1>2, <1>4, <1>6, EventQueueAssumption DEF AttemptsInv, queueVars
<1>9. EffectInv'
  BY <1>1, <1>5, SMTT(20) DEF TypeOK, EffectInv
<1>10. ProcessedMeansHandled'
  BY <1>1, <1>5 DEF TypeOK, ProcessedMeansHandled
<1> QED
  BY <1>1, <1>3, <1>7, <1>8, <1>9, <1>10 DEF ChainInv

(* Dead after the last attempt, back with a timer after any other.         *)
LEMMA HandlerFailsIInv ==
    ASSUME IInv, NEW a \in Aggregate, HandlerFails(a) PROVE IInv'
<1> USE DEF IInv
<1> DEFINE e == Head(chains[a])
<1>1. /\ Rejected(e)
      /\ e \in Event
      /\ running[a] \in Handler
      /\ running' = [running EXCEPT ![a] = 0]
      /\ chains' = [chains EXCEPT ![a] = Tail(@)]
      /\ UNCHANGED <<registered, closing, handled, done, effects, started,
                     adds, order>>
  BY DEF HandlerFails, At
<1>2. running[a] > 0 /\ chains[a] # <<>>
  BY <1>1 DEF Handler, RunningInv
<1>3. AggregateOf[e] = a
  BY <1>2, HeadOfChain
<1>4. chains' \in [Aggregate -> Seq(Event)] /\ ChainInv'
  BY <1>1, <1>2, ChainMoves
<1>5. \A b \in Aggregate : b # a => running'[b] = running[b] /\ chains'[b] = chains[b]
  BY <1>1 DEF TypeOK
<1>6. running'[a] = 0 /\ running' \in [Aggregate -> 0..(NHandlers + 1)]
  BY <1>1, EventQueueAssumption DEF TypeOK
<1>7. Head(chains[a]) = e
  OBVIOUS
<1> HIDE DEF e
<1>8. \A b \in Aggregate : b # a /\ running[b] > 0 => Head(chains[b]) # e
  BY <1>3, HeadOfChain DEF RunningInv
<1>9. CASE attempts[e] >= Attempts
  <2>1. /\ dead' = dead \union {e}
        /\ jobs' = RemoveFirst(jobs, e)
        /\ UNCHANGED <<attempts, timers>>
    BY <1>1, <1>9 DEF Rejected
  <2>2. /\ jobs' \in Seq(Event)
        /\ IsInjective(jobs')
        /\ \A f : Queued(f)' <=> Queued(f) /\ f # e
    BY <1>1, <2>1, JobDeleted
  <2>3. TypeOK'
    BY <1>1, <1>4, <1>6, <2>1, <2>2 DEF TypeOK
  <2>4. RunningInv'
    BY <1>1, <1>5, <1>6, <1>8, <2>2 DEF RunningInv
  <2>5. AttemptsInv'
    BY <1>3, <1>5, <1>7, <2>1, <2>2, EventQueueAssumption DEF AttemptsInv
  <2> QED
    BY <1>1, <1>4, <2>3, <2>4, <2>5 DEF EffectInv, ProcessedMeansHandled
<1>10. CASE ~(attempts[e] >= Attempts)
  <2>1. /\ timers' = Append(timers, Timer(e, RetryDelay(attempts[e])))
        /\ UNCHANGED <<jobs, attempts, dead>>
    BY <1>1, <1>10 DEF Rejected
  <2>2. attempts[e] \in Nat /\ attempts[e] < Attempts
    BY <1>1, <1>10, EventQueueAssumption DEF TypeOK
  <2>3. timers' \in Seq(TimerSet)
    <3>1. RetryDelay(attempts[e]) \in Nat
      BY <2>2, EventQueueAssumption DEF RetryDelay
    <3>2. Timer(e, RetryDelay(attempts[e])) \in TimerSet /\ timers \in Seq(TimerSet)
      BY <1>1, <3>1, TimerType DEF TypeOK, TimerSet
    <3> QED
      BY <2>1, <3>2, AppendElements
  <2>4. TypeOK'
    BY <1>1, <1>4, <1>6, <2>1, <2>3 DEF TypeOK, TimerSet
  <2>5. \A f : Queued(f)' <=> Queued(f)
    BY <2>1 DEF Queued
  <2>6. RunningInv'
    BY <1>1, <1>5, <1>6, <2>5 DEF RunningInv
  <2>7. AttemptsInv'
    BY <1>3, <1>5, <1>7, <2>1, <2>2, <2>5, EventQueueAssumption DEF AttemptsInv
  <2> QED
    BY <1>1, <1>4, <2>4, <2>6, <2>7 DEF EffectInv, ProcessedMeansHandled
<1> QED
  BY <1>9, <1>10

LEMMA FinishJobIInv ==
    ASSUME IInv, NEW a \in Aggregate, FinishJob(a) PROVE IInv'
<1> USE DEF IInv
<1> DEFINE e == Head(chains[a])
<1>1. /\ running[a] = NHandlers + 1
      /\ jobs' = RemoveFirst(jobs, e)
      /\ done' = done \union {e}
      /\ running' = [running EXCEPT ![a] = 0]
      /\ chains' = [chains EXCEPT ![a] = Tail(@)]
      /\ UNCHANGED <<registered, closing, attempts, timers, handled, dead,
                     effects, started, adds, order>>
  BY DEF FinishJob
<1>2. running[a] > 0 /\ chains[a] # <<>>
  BY <1>1, EventQueueAssumption DEF RunningInv
<1>3. e \in Event /\ AggregateOf[e] = a
  BY <1>2, HeadOfChain
<1>4. chains' \in [Aggregate -> Seq(Event)] /\ ChainInv'
  BY <1>1, <1>2, ChainMoves
<1>5. \A b \in Aggregate : b # a => running'[b] = running[b] /\ chains'[b] = chains[b]
  BY <1>1 DEF TypeOK
<1>6. running'[a] = 0 /\ running' \in [Aggregate -> 0..(NHandlers + 1)]
  BY <1>1, EventQueueAssumption DEF TypeOK
<1>7. handled[e] = Handler
  <2>1. 1..(running[a] - 1) \subseteq handled[e]
    BY <1>2 DEF RunningInv
  <2>2. 1..(running[a] - 1) = Handler
    BY <1>1, EventQueueAssumption DEF Handler
  <2>3. handled[e] \subseteq Handler
    BY <1>3 DEF TypeOK
  <2> QED
    BY <2>1, <2>2, <2>3
<1>8. Head(chains[a]) = e
  OBVIOUS
<1> HIDE DEF e
<1>9. \A b \in Aggregate : b # a /\ running[b] > 0 => Head(chains[b]) # e
  BY <1>3, HeadOfChain DEF RunningInv
<1>10. /\ jobs' \in Seq(Event)
       /\ IsInjective(jobs')
       /\ \A f : Queued(f)' <=> Queued(f) /\ f # e
  BY <1>1, <1>3, JobDeleted
<1>11. TypeOK'
  BY <1>1, <1>3, <1>4, <1>6, <1>10 DEF TypeOK
<1>12. RunningInv'
  BY <1>1, <1>5, <1>6, <1>9, <1>10 DEF RunningInv
<1>13. AttemptsInv'
  BY <1>1, <1>3, <1>5, <1>8, <1>10, EventQueueAssumption DEF AttemptsInv
<1> QED
  BY <1>1, <1>4, <1>7, <1>11, <1>12, <1>13 DEF EffectInv, ProcessedMeansHandled

LEMMA ClearIInv ==
    ASSUME IInv, Clear PROVE IInv'
<1> USE DEF IInv
<1>1. jobs' = <<>> /\ jobs' \in Seq(Event) /\ IsInjective(jobs')
  BY DEF Clear, IsInjective
<1>2. TypeOK'
  BY <1>1 DEF Clear, TypeOK, workVars
<1>3. \A f : ~Queued(f)'
  BY <1>1, <1>2, QueuedIsNext DEF ToSet
<1>4. \A a \in Aggregate : ~(running'[a] > 0)
  BY DEF Clear, RunningInv, workVars
<1> QED
  BY <1>2, <1>3, <1>4
     DEF Clear, workVars, RunningInv, ChainInv, AttemptsInv, EffectInv,
         ProcessedMeansHandled

LEMMA NextIInv == IInv /\ [Next]_vars => IInv'
<1> SUFFICES ASSUME IInv, [Next]_vars PROVE IInv'
  OBVIOUS
<1>1. ASSUME UNCHANGED vars PROVE IInv'
  BY <1>1
     DEF vars, queueVars, workVars, IInv, TypeOK, RunningInv, ChainInv,
         AttemptsInv, EffectInv, ProcessedMeansHandled, Queued
<1>2. ASSUME NEW e \in Event, Add(e) \/ Fire(e) PROVE IInv'
  BY <1>2, AddIInv, FireIInv
<1>3. ASSUME NEW a \in Aggregate, Work(a) PROVE IInv'
  BY <1>3, SkipAttemptIInv, StartAttemptIInv, SkipHandlerIInv,
     HandlerSucceedsIInv, HandlerFailsIInv, FinishJobIInv
     DEF Work
<1>4. ASSUME Close PROVE IInv'
  BY <1>4
     DEF Close, queueVars, workVars, IInv, TypeOK, RunningInv, ChainInv,
         AttemptsInv, EffectInv, ProcessedMeansHandled, Queued
<1>5. ASSUME Rest PROVE IInv'
  BY <1>1, <1>5 DEF Rest
<1> QED
  BY <1>1, <1>2, <1>3, <1>4, <1>5, RegisterIInv, ClearIInv DEF Next

LEMMA Invariance == Spec => []IInv
  BY InitIInv, NextIInv, PTL DEF Spec

(* Every variable of the queue keeps its type; the keys of the jobs Map    *)
(* are distinct and no job is attempted more often than allowed.           *)
THEOREM TypeCorrect == Spec => []TypeOK
  BY Invariance, PTL DEF IInv

(* No handler does its work for an event twice, over any number of         *)
(* retries, repeated timers and repeated publications.                     *)
THEOREM EffectsOnce == Spec => []EffectAtMostOnce
<1>1. IInv => EffectAtMostOnce
  <2> SUFFICES ASSUME IInv, NEW e \in Event, NEW h \in Handler
               PROVE  effects[e][h] <= 1
    BY DEF EffectAtMostOnce
  <2>1. effects[e][h] = IF h \in handled[e] THEN 1 ELSE 0
    BY DEF IInv, EffectInv
  <2> QED
    BY <2>1
<1> QED
  BY <1>1, Invariance, PTL

(* What FinishJob takes for processed every handler has handled.           *)
THEOREM ProcessedAreHandled == Spec => []ProcessedMeansHandled
  BY Invariance, PTL DEF IInv

(* Only HandlerFails puts a job among the dead, after its last attempt and *)
(* while the handler that failed has not done its work.                    *)
THEOREM DeathsArePoison == Spec => OnlyPoisonDies
<1>1. ASSUME IInv, [Next]_vars, NEW e \in dead' \ dead
      PROVE  handled[e] # Handler /\ attempts[e] = Attempts
  <2>1. PICK a \in Aggregate : HandlerFails(a)
    BY <1>1
       DEF Next, vars, workVars, Add, Fire, Register, Work, SkipAttempt,
           StartAttempt, SkipHandler, HandlerSucceeds, FinishJob, Close, Clear,
           Rest
  <2>2. PICK f \in Event, h \in Handler : At(a, f, h) /\ MayHandle(f, h) /\ Rejected(f)
    BY <2>1 DEF HandlerFails
  <2>3. e = f /\ attempts[f] >= Attempts
    BY <1>1, <2>2 DEF Rejected
  <2>4. attempts[f] \in 0..Attempts
    BY <1>1 DEF IInv, TypeOK
  <2> QED
    BY <2>2, <2>3, <2>4, EventQueueAssumption DEF MayHandle
<1>2. IInv /\ [Next]_vars =>
        [\A e \in dead' \ dead : handled[e] # Handler /\ attempts[e] = Attempts]_vars
  BY <1>1
<1> QED
  BY <1>2, Invariance, PTL DEF Spec, OnlyPoisonDies

-----------------------------------------------------------------------------
(* What is in a chain is in it once more after another joins, and after    *)
(* the head has left if it is not the head.                                *)
LEMMA ChainedAfterTail ==
    ASSUME TypeOK, ChainInv, NEW a \in Aggregate, chains[a] # <<>>,
           chains' = [chains EXCEPT ![a] = Tail(@)],
           NEW e \in Event
    PROVE  /\ Chained(e)' => Chained(e)
           /\ Chained(e) /\ e # Head(chains[a]) => Chained(e)'
<1>1. chains[a] \in Seq(Event) /\ AggregateOf[e] \in Aggregate
  BY EventQueueAssumption DEF TypeOK
<1>2. ToSet(chains[a]) = {Head(chains[a])} \union ToSet(Tail(chains[a]))
  BY <1>1, TailElements
<1>3. chains'[AggregateOf[e]] = IF AggregateOf[e] = a THEN Tail(chains[a])
                                ELSE chains[AggregateOf[e]]
  BY <1>1 DEF TypeOK
<1> QED
  BY <1>2, <1>3 DEF Chained

LEMMA InitOInv == Init => OInv
<1> SUFFICES ASSUME Init PROVE OInv
  OBVIOUS
<1>1. /\ order = <<>> /\ jobs = <<>> /\ timers = <<>> /\ started = {}
      /\ \A a \in Aggregate : chains[a] = <<>> /\ running[a] = 0
  BY DEF Init
<1>2. IInv
  BY InitIInv
<1>3. \A e \in Event : Nowhere(e)
  <2> TAKE e \in Event
  <2>1. ~Queued(e)
    BY <1>1, <1>2, QueuedIs DEF IInv, ToSet
  <2>2. ~Chained(e)
    BY <1>1, EventQueueAssumption DEF Chained, ToSet
  <2> QED
    BY <1>1, <2>1, <2>2 DEF Nowhere, ToSet
<1>4. OrderInv /\ FirstAttemptsInOrder
  BY <1>1 DEF OrderInv, FirstAttemptsInOrder, Early, ToSet
<1> QED
  BY <1>1, <1>2, <1>3, <1>4 DEF OInv, FreshInv, StartedInv

(* Steps that move no job: a handler done or skipped, the shutdown.        *)
LEMMA StillOInv ==
    ASSUME OInv, IInv', StartedInv', closing' = "open" => closing = "open",
           UNCHANGED <<registered, jobs, timers, chains, started, adds, order>>
    PROVE  OInv'
  BY DEF OInv, FreshInv, OrderInv, FirstAttemptsInOrder, Nowhere, Early, Behind,
         Chained, Queued

LEMMA SkipHandlerOInv ==
    ASSUME OInv, NEW a \in Aggregate, SkipHandler(a) PROVE OInv'
<1>1. StartedInv'
  BY NextHandler DEF OInv, IInv, SkipHandler, At, StartedInv
<1> QED
  BY <1>1, SkipHandlerIInv, StillOInv DEF OInv, SkipHandler, queueVars

LEMMA HandlerSucceedsOInv ==
    ASSUME OInv, NEW a \in Aggregate, HandlerSucceeds(a) PROVE OInv'
<1>1. StartedInv'
  BY NextHandler DEF OInv, IInv, HandlerSucceeds, At, StartedInv
<1> QED
  BY <1>1, HandlerSucceedsIInv, StillOInv DEF OInv, HandlerSucceeds, queueVars

(* The head leaves its chain; it was not waiting for a first attempt, and  *)
(* no timer is set but for a job that has begun.                           *)
LEMMA ChainAdvances ==
    ASSUME OInv, IInv', NEW a \in Aggregate, chains[a] # <<>>,
           chains' = [chains EXCEPT ![a] = Tail(@)],
           closing = "open" => ~Early(Head(chains[a])),
           \A b \in Aggregate : running'[b] > 0 => b # a /\ running[b] > 0,
           \A f : Queued(f)' => Queued(f),
           \A f \in Event : Early(f) /\ Queued(f) => Queued(f)',
           \/ UNCHANGED timers
           \/ /\ Head(chains[a]) \in started
              /\ \E d \in Nat : timers' = Append(timers, Timer(Head(chains[a]), d)),
           UNCHANGED <<registered, closing, adds, order, started>>
    PROVE  OInv'
<1> USE DEF OInv, IInv
<1> DEFINE h == Head(chains[a])
<1>1. /\ chains[a] \in Seq(Event)
      /\ h \in Event
      /\ AggregateOf[h] = a
      /\ Len(chains[a]) \in Nat \ {0}
      /\ DOMAIN Tail(chains[a]) = 1..(Len(chains[a]) - 1)
      /\ \A i \in DOMAIN Tail(chains[a]) : Tail(chains[a])[i] = chains[a][i + 1]
      /\ h = chains[a][1]
      /\ h \in ToSet(chains[a])
  <2>1. chains[a] \in Seq(Event)
    BY DEF TypeOK
  <2> QED
    BY <2>1, HeadOfChain, TailElements
<1>2. \A b \in Aggregate : chains'[b] = IF b = a THEN Tail(chains[a]) ELSE chains[b]
  BY DEF TypeOK
<1>3. \A e \in Event : /\ Chained(e)' => Chained(e)
                       /\ Chained(e) /\ e # h => Chained(e)'
  BY ChainedAfterTail
<1>4. /\ DOMAIN timers \subseteq DOMAIN timers'
      /\ \A q \in DOMAIN timers : timers'[q] = timers[q]
      /\ \A q \in DOMAIN timers' \ DOMAIN timers :
           timers'[q].job = h /\ h \in started
      /\ DOMAIN timers = 1..Len(timers) /\ Len(timers) \in Nat
  <2>1. timers \in Seq(TimerSet)
    BY DEF TypeOK, TimerSet
  <2>2. ASSUME h \in started, NEW d \in Nat, timers' = Append(timers, Timer(h, d))
        PROVE  <1>4
    BY <1>1, <2>1, <2>2, TimerType, AppendElements
  <2> QED
    BY <2>1, <2>2
<1> HIDE DEF h
<1>5. \A e : Early(e)' <=> Early(e)
  BY DEF Early
<1>6. Head(chains[a]) = h
  BY DEF h
<1>7. FreshInv'
  <2> SUFFICES ASSUME NEW e \in Event, adds[e] = 0 PROVE Nowhere(e)'
    BY DEF FreshInv
  <2>1. Nowhere(e)
    BY DEF FreshInv
  <2>2. e # h
    BY <1>1, <2>1 DEF Nowhere, Chained
  <2>3. \A q \in DOMAIN timers' : timers'[q].job # e
    BY <1>4, <2>1, <2>2 DEF Nowhere
  <2> QED
    BY <1>3, <2>1, <2>3 DEF Nowhere
<1>8. StartedInv'
  BY <1>2 DEF StartedInv
<1>9. ASSUME closing = "open" PROVE OrderInv'
  <2>1. \A e : Early(e) => e # h
    BY <1>6, <1>9
  <2>2. ASSUME NEW e \in Event, Early(e)
        PROVE  /\ Queued(e)'
               /\ \A q \in DOMAIN timers' : timers'[q].job = e => timers'[q].delay = 0
               /\ Chained(e)' \/ \E q \in DOMAIN timers' : timers'[q] = Timer(e, 0)
    <3>1. /\ Queued(e)
          /\ \A q \in DOMAIN timers : timers[q].job = e => timers[q].delay = 0
          /\ Chained(e) \/ \E q \in DOMAIN timers : timers[q] = Timer(e, 0)
      BY <1>9, <2>2 DEF OrderInv
    <3>2. Chained(e) => Chained(e)'
      BY <1>3, <2>1, <2>2
    <3>3. \A q \in DOMAIN timers' : timers'[q].job = e => q \in DOMAIN timers
      BY <1>4, <2>1, <2>2
    <3> QED
      BY <1>4, <2>2, <3>1, <3>2, <3>3
  <2>3. ASSUME NEW e \in Event, NEW f \in Event, Early(e),
               AggregateOf[e] = AggregateOf[f], Behind(e, f)
        PROVE  Behind(e, f)'
    <3>1. e # h /\ f \notin started
      BY <2>1, <2>3 DEF Behind
    <3>2. ASSUME NEW q \in DOMAIN chains'[AggregateOf[e]],
                 chains'[AggregateOf[e]][q] = f
          PROVE  \E p \in 1..(q - 1) : chains'[AggregateOf[e]][p] = e
      <4>1. CASE AggregateOf[e] = a
        <5>1. /\ q \in 1..(Len(chains[a]) - 1)
              /\ chains[a][q + 1] = f
          BY <1>1, <1>2, <3>2, <4>1
        <5>2. q + 1 \in DOMAIN chains[a]
          BY <1>1, <5>1
        <5>3. PICK p \in 1..q : chains[a][p] = e
          BY <2>3, <4>1, <5>1, <5>2 DEF Behind
        <5>4. p # 1
          BY <1>1, <3>1, <5>3
        <5>5. p - 1 \in 1..(q - 1) /\ p - 1 \in 1..(Len(chains[a]) - 1)
          BY <1>1, <5>1, <5>3, <5>4
        <5>6. Tail(chains[a])[p - 1] = chains[a][(p - 1) + 1] /\ (p - 1) + 1 = p
          BY <1>1, <5>5, <5>3
        <5>7. chains'[a][p - 1] = e
          BY <1>2, <5>3, <5>6
        <5> QED
          BY <4>1, <5>5, <5>7
      <4>2. CASE AggregateOf[e] # a
        <5>1. chains'[AggregateOf[e]] = chains[AggregateOf[e]]
          BY <1>2, <4>2, EventQueueAssumption
        <5> QED
          BY <2>3, <3>2, <5>1 DEF Behind
      <4> QED
        BY <4>1, <4>2
    <3>3. ASSUME NEW q \in DOMAIN timers', timers'[q].job = f
          PROVE  Chained(e)' \/ \E p \in 1..(q - 1) : timers'[p] = Timer(e, 0)
      <4>1. q \in DOMAIN timers /\ timers[q].job = f
        BY <1>4, <3>1, <3>3
      <4>2. Chained(e) \/ \E p \in 1..(q - 1) : timers[p] = Timer(e, 0)
        BY <2>3, <4>1 DEF Behind
      <4>3. \A p \in 1..(q - 1) : timers'[p] = timers[p]
        BY <1>4, <4>1
      <4> QED
        BY <1>3, <3>1, <4>2, <4>3
    <3> QED
      BY <3>1, <3>2, <3>3 DEF Behind
  <2>4. \A i \in DOMAIN order : order[i] \in Event
    BY DEF TypeOK
  <2> QED
    BY <1>5, <1>9, <2>2, <2>3, <2>4 DEF OrderInv
<1>10. FirstAttemptsInOrder'
  BY DEF FirstAttemptsInOrder
<1> QED
  BY <1>7, <1>8, <1>9, <1>10 DEF OrderInv

LEMMA SkipAttemptOInv ==
    ASSUME OInv, NEW a \in Aggregate, SkipAttempt(a) PROVE OInv'
<1>1. IInv'
  BY SkipAttemptIInv DEF OInv
<1>2. /\ chains[a] # <<>> /\ running[a] = 0
      /\ chains' = [chains EXCEPT ![a] = Tail(@)]
      /\ ~Queued(Head(chains[a])) \/ closing # "open"
      /\ UNCHANGED <<registered, closing, jobs, timers, running, adds, order, started>>
  BY DEF SkipAttempt, Idle, queueVars, workVars
<1>3. Head(chains[a]) \in Event
  BY <1>2, HeadOfChain DEF OInv, IInv
<1>4. closing = "open" => ~Early(Head(chains[a]))
  BY <1>2, <1>3 DEF OInv, OrderInv
<1>5. \A f : Queued(f)' <=> Queued(f)
  BY <1>2 DEF Queued
<1>6. \A b \in Aggregate : running'[b] > 0 => b # a /\ running[b] > 0
  BY <1>2
<1>7. \A f \in Event : Early(f) /\ Queued(f) => Queued(f)'
  BY <1>5
<1> QED
  BY <1>1, <1>2, <1>4, <1>5, <1>6, <1>7, ChainAdvances

LEMMA HandlerFailsOInv ==
    ASSUME OInv, NEW a \in Aggregate, HandlerFails(a) PROVE OInv'
<1> DEFINE e == Head(chains[a])
<1>1. IInv'
  BY HandlerFailsIInv DEF OInv
<1>2. /\ Rejected(e)
      /\ e \in Event
      /\ running[a] \in Handler
      /\ running' = [running EXCEPT ![a] = 0]
      /\ chains' = [chains EXCEPT ![a] = Tail(@)]
      /\ UNCHANGED <<registered, closing, adds, order, started>>
  BY DEF HandlerFails, At
<1>3. running[a] > 0 /\ chains[a] # <<>> /\ e \in started
  BY <1>2 DEF Handler, OInv, IInv, RunningInv, StartedInv
<1>4. \A b \in Aggregate : running'[b] > 0 => b # a /\ running[b] > 0
  BY <1>2 DEF OInv, IInv, TypeOK
<1>5. /\ \A f : Queued(f)' => Queued(f)
      /\ \A f \in Event : f # e /\ Queued(f) => Queued(f)'
  <2>1. CASE UNCHANGED jobs
    BY <2>1 DEF Queued
  <2>2. CASE jobs' = RemoveFirst(jobs, e)
    BY <1>2, <2>2, JobDeleted DEF OInv, IInv
  <2> QED
    BY <1>2, <2>1, <2>2 DEF Rejected
<1>6. UNCHANGED timers \/ \E d \in Nat : timers' = Append(timers, Timer(e, d))
  <2>1. attempts[e] \in 0..Attempts
    BY <1>2 DEF OInv, IInv, TypeOK
  <2>2. RetryDelay(attempts[e]) \in Nat
    BY <2>1, EventQueueAssumption DEF RetryDelay
  <2> QED
    BY <1>2, <2>2 DEF Rejected
<1>7. ~Early(e)
  BY <1>3 DEF Early
<1>8. \A f \in Event : Early(f) /\ Queued(f) => Queued(f)'
  BY <1>5, <1>7
<1> QED
  BY <1>1, <1>2, <1>3, <1>4, <1>5, <1>6, <1>7, <1>8, ChainAdvances

LEMMA FinishJobOInv ==
    ASSUME OInv, NEW a \in Aggregate, FinishJob(a) PROVE OInv'
<1> DEFINE e == Head(chains[a])
<1>1. IInv'
  BY FinishJobIInv DEF OInv
<1>2. /\ running[a] = NHandlers + 1
      /\ jobs' = RemoveFirst(jobs, e)
      /\ running' = [running EXCEPT ![a] = 0]
      /\ chains' = [chains EXCEPT ![a] = Tail(@)]
      /\ UNCHANGED <<registered, closing, timers, adds, order, started>>
  BY DEF FinishJob
<1>3. running[a] > 0 /\ chains[a] # <<>> /\ e \in started
  BY <1>2, EventQueueAssumption DEF OInv, IInv, RunningInv, StartedInv
<1>4. \A b \in Aggregate : running'[b] > 0 => b # a /\ running[b] > 0
  BY <1>2 DEF OInv, IInv, TypeOK
<1>5. e \in Event
  BY <1>3, HeadOfChain DEF OInv, IInv
<1>6. \A f : Queued(f)' <=> Queued(f) /\ f # e
  BY <1>2, <1>5, JobDeleted DEF OInv, IInv
<1>7. ~Early(e)
  BY <1>3 DEF Early
<1>8. \A f \in Event : Early(f) /\ Queued(f) => Queued(f)'
  BY <1>6, <1>7
<1> QED
  BY <1>1, <1>2, <1>3, <1>4, <1>6, <1>7, <1>8, ChainAdvances

(* The head of a chain has no earlier event waiting for a first attempt.   *)
LEMMA HeadIsFirst ==
    ASSUME OInv, closing = "open", NEW a \in Aggregate, chains[a] # <<>>,
           NEW i \in DOMAIN order, NEW j \in DOMAIN order, i < j,
           AggregateOf[order[i]] = AggregateOf[order[j]],
           Early(order[i])
    PROVE  order[j] # Head(chains[a])
<1> SUFFICES ASSUME order[j] = Head(chains[a]) PROVE FALSE
  OBVIOUS
<1>1. /\ chains[a] \in Seq(Event)
      /\ AggregateOf[order[j]] = a
      /\ 1 \in DOMAIN chains[a]
      /\ chains[a][1] = order[j]
  <2>1. chains[a] \in Seq(Event)
    BY DEF OInv, IInv, TypeOK
  <2>2. AggregateOf[Head(chains[a])] = a
    BY HeadOfChain DEF OInv, IInv
  <2> QED
    BY <2>1, <2>2, TailElements
<1>2. Behind(order[i], order[j])
  BY DEF OInv, OrderInv
<1>3. \E p \in 1..(1 - 1) : chains[a][p] = order[i]
  BY <1>1, <1>2 DEF Behind
<1> QED
  BY <1>3

LEMMA StartAttemptOInv ==
    ASSUME OInv, NEW a \in Aggregate, StartAttempt(a) PROVE OInv'
<1> USE DEF OInv
<1> DEFINE e == Head(chains[a])
<1>1. IInv'
  BY StartAttemptIInv
<1>2. /\ Queued(e)
      /\ chains[a] # <<>>
      /\ closing = "open"
      /\ started' = started \union {e}
      /\ running' = [running EXCEPT ![a] = 1]
      /\ UNCHANGED <<registered, closing, jobs, timers, chains, adds, order>>
  BY DEF StartAttempt, Idle
<1>3. e \in Event
  BY <1>2, HeadOfChain DEF IInv
<1>4. \A b \in Aggregate : running'[b] > 0 => b = a \/ running[b] > 0
  BY <1>2 DEF IInv, TypeOK
<1>5. \A f \in Event : Queued(f)' <=> Queued(f)
  BY <1>2 DEF Queued
<1>6. StartedInv'
  BY <1>2, <1>4 DEF StartedInv
<1>7. FreshInv'
  <2> SUFFICES ASSUME NEW f \in Event, adds[f] = 0 PROVE Nowhere(f)'
    BY <1>2 DEF FreshInv
  <2>1. Nowhere(f) /\ f # e
    BY <1>2 DEF FreshInv, Nowhere
  <2> QED
    BY <1>2, <1>5, <2>1 DEF Nowhere, Chained
<1>8. \A i, j \in DOMAIN order :
        (i < j /\ AggregateOf[order[i]] = AggregateOf[order[j]] /\ Early(order[i]))
          => order[j] # e
  BY <1>2, HeadIsFirst
<1> HIDE DEF e
<1>9. OrderInv'
  <2>1. \A f : Early(f)' => Early(f)
    BY <1>2 DEF Early
  <2>2. ASSUME NEW i \in DOMAIN order, NEW j \in DOMAIN order, i < j,
               AggregateOf[order[i]] = AggregateOf[order[j]],
               Early(order[i])
        PROVE  Behind(order[i], order[j])'
    <3>1. Behind(order[i], order[j]) /\ order[j] # e
      BY <1>2, <1>8, <2>2 DEF OrderInv
    <3>2. order[j] \notin started'
      BY <1>2, <3>1 DEF Behind
    <3> QED
      BY <1>2, <3>1, <3>2 DEF Behind, Chained
  <2> QED
    BY <1>2, <1>5, <2>1, <2>2 DEF OrderInv, Chained
<1>10. FirstAttemptsInOrder'
  <2>1. DOMAIN order = 1..Len(order)
    BY DEF IInv, TypeOK
  <2> SUFFICES ASSUME NEW i \in DOMAIN order, NEW j \in DOMAIN order, i < j,
                      AggregateOf[order[i]] = AggregateOf[order[j]],
                      order[j] \in started', order[i] \notin started'
               PROVE  FALSE
    BY <1>2, <2>1 DEF FirstAttemptsInOrder
  <2>2. order[i] \in ToSet(order)
    BY DEF ToSet
  <2>3. Early(order[i])
    BY <1>2, <2>2 DEF Early
  <2>4. order[j] \in started
    BY <1>2, <1>8, <2>3
  <2> QED
    BY <1>2, <2>1, <2>4 DEF FirstAttemptsInOrder
<1> QED
  BY <1>1, <1>2, <1>6, <1>7, <1>9, <1>10

(* Before the worker has registered no order is promised.                  *)
LEMMA RegisterOInv ==
    ASSUME OInv, Register PROVE OInv'
<1> USE DEF OInv
<1> DEFINE new == [i \in 1..Len(jobs) |-> Timer(jobs[i], 0)]
<1>1. IInv'
  BY RegisterIInv
<1>2. /\ order = <<>>
      /\ registered'
      /\ timers' = timers \o new
      /\ UNCHANGED <<closing, jobs, chains, running, adds, order, started>>
  BY DEF Register, workVars
<1>3. ASSUME NEW q \in DOMAIN timers'
      PROVE  timers'[q] \in ToSet(timers) \/ \E i \in 1..Len(jobs) : timers'[q] = new[i]
  <2>1. timers \in Seq(TimerSet) /\ timers' \in Seq(TimerSet)
    BY <1>1 DEF IInv, TypeOK, TimerSet
  <2>2. Len(jobs) \in Nat
    BY DEF IInv, TypeOK
  <2>3. \A i \in 1..Len(jobs) : new[i] \in TimerSet
    <3>1. \A i \in 1..Len(jobs) : jobs[i] \in Event
      BY DEF IInv, TypeOK
    <3>2. \A i \in 1..Len(jobs) : Timer(jobs[i], 0) \in TimerSet
      BY <3>1, TimerType
    <3> QED
      BY <3>2
  <2>4. new \in Seq(TimerSet) /\ Len(new) = Len(jobs)
    BY <2>2, <2>3
  <2> HIDE DEF new
  <2>5. /\ Len(timers \o new) = Len(timers) + Len(new)
        /\ \A k \in 1..(Len(timers) + Len(new)) :
             (timers \o new)[k] = IF k <= Len(timers) THEN timers[k]
                                  ELSE new[k - Len(timers)]
    BY <2>1, <2>4, ConcatProperties
  <2>6. /\ q \in 1..(Len(timers) + Len(new))
        /\ Len(timers) \in Nat /\ DOMAIN timers = 1..Len(timers)
    BY <1>2, <1>3, <2>1, <2>5
  <2>7. CASE q <= Len(timers)
    BY <1>2, <2>5, <2>6, <2>7 DEF ToSet
  <2>8. CASE ~(q <= Len(timers))
    <3>1. q - Len(timers) \in 1..Len(jobs)
      BY <2>2, <2>4, <2>6, <2>8
    <3> QED
      BY <1>2, <2>5, <2>6, <2>8, <3>1
  <2> QED
    BY <2>7, <2>8
<1>4. FreshInv'
  <2> SUFFICES ASSUME NEW e \in Event, adds[e] = 0 PROVE Nowhere(e)'
    BY <1>2 DEF FreshInv
  <2>1. Nowhere(e)
    BY DEF FreshInv
  <2>2. \A i \in 1..Len(jobs) : new[i].job = jobs[i] /\ jobs[i] # e
    <3>1. \A i \in 1..Len(jobs) : jobs[i] \in Event
      BY DEF IInv, TypeOK
    <3>2. \A i \in 1..Len(jobs) : jobs[i] # e
      BY <2>1, ElementOf DEF Nowhere, Queued, IInv, TypeOK
    <3>3. \A i \in 1..Len(jobs) : Timer(jobs[i], 0).job = jobs[i]
      BY <3>1, TimerType
    <3> QED
      BY <3>2, <3>3
  <2> HIDE DEF new
  <2>3. \A t \in ToSet(timers) : t.job # e
    BY <2>1 DEF Nowhere, ToSet
  <2>4. \A q \in DOMAIN timers' : timers'[q].job # e
    BY <1>3, <2>2, <2>3
  <2> QED
    BY <1>2, <2>1, <2>4 DEF Nowhere, Queued, Chained
<1>5. OrderInv' /\ FirstAttemptsInOrder'
  BY <1>2 DEF OrderInv, FirstAttemptsInOrder, Early, ToSet
<1>6. StartedInv'
  BY <1>2 DEF StartedInv
<1> QED
  BY <1>1, <1>2, <1>4, <1>5, <1>6

LEMMA CloseOInv ==
    ASSUME OInv, Close PROVE OInv'
<1>1. UNCHANGED <<registered, jobs, timers, chains, running, started, adds, order>>
  BY DEF Close, queueVars, workVars
<1>2. StartedInv'
  BY <1>1 DEF OInv, StartedInv
<1>3. IInv'
  BY NextIInv DEF OInv, Next
<1> QED
  BY <1>1, <1>2, <1>3, StillOInv DEF Close

LEMMA ClearOInv ==
    ASSUME OInv, Clear PROVE OInv'
<1> USE DEF OInv
<1>1. /\ closing' = "closed"
      /\ jobs' = <<>>
      /\ UNCHANGED <<registered, timers, chains, running, started, adds, order>>
  BY DEF Clear, workVars
<1>2. IInv'
  BY ClearIInv
<1>3. \A f : ~Queued(f)'
  BY <1>1, <1>2, QueuedIsNext DEF IInv, ToSet
<1>4. FreshInv'
  BY <1>1, <1>3 DEF FreshInv, Nowhere, Chained
<1>5. FirstAttemptsInOrder' /\ StartedInv'
  BY <1>1 DEF FirstAttemptsInOrder, StartedInv
<1>6. OrderInv'
  BY <1>1 DEF OrderInv
<1> QED
  BY <1>1, <1>2, <1>4, <1>5, <1>6

(* A new job comes last; an event published for the first time is behind   *)
(* all those still waiting.                                                *)
LEMMA AddOInv ==
    ASSUME OInv, NEW x \in Event, Add(x) PROVE OInv'
<1> USE DEF OInv
<1>1. IInv'
  BY AddIInv
<1>2. /\ adds' = [adds EXCEPT ![x] = @ + 1]
      /\ order' = IF registered /\ adds[x] = 0 THEN Append(order, x) ELSE order
      /\ UNCHANGED <<registered, closing, chains, running, started>>
  BY DEF Add, workVars
<1>3. /\ order \in Seq(Event) /\ timers \in Seq(TimerSet)
      /\ Len(order) \in Nat /\ DOMAIN order = 1..Len(order)
      /\ Len(timers) \in Nat /\ DOMAIN timers = 1..Len(timers)
  BY DEF IInv, TypeOK, TimerSet
<1>4. adds[x] = 0 => Nowhere(x)
  BY DEF FreshInv
<1>5. /\ \A e : e # x => (Queued(e)' <=> Queued(e))
      /\ \A e : Queued(e) => Queued(e)'
      /\ closing = "open" => Queued(x)'
  <2>1. CASE UNCHANGED queueVars /\ (closing # "open" \/ Queued(x))
    BY <2>1 DEF queueVars, Queued
  <2>2. CASE ToSet(jobs') = ToSet(jobs) \union {x}
    BY <1>1, <2>2, QueuedIs, QueuedIsNext DEF IInv
  <2> QED
    BY <2>1, <2>2, AddEffect DEF IInv
<1>6. /\ DOMAIN timers \subseteq DOMAIN timers'
      /\ \A q \in DOMAIN timers : timers'[q] = timers[q]
      /\ \A q \in DOMAIN timers' \ DOMAIN timers :
           timers'[q] = Timer(x, 0) /\ q = Len(timers) + 1
      /\ closing = "open" /\ ~Queued(x) =>
           timers' = Append(timers, Timer(x, 0)) /\ Len(timers) + 1 \in DOMAIN timers'
  <2>1. CASE UNCHANGED queueVars /\ (closing # "open" \/ Queued(x))
    BY <2>1 DEF queueVars
  <2>2. CASE timers' = Append(timers, Timer(x, 0))
    BY <1>3, <2>2, TimerType, AppendElements
  <2> QED
    BY <2>1, <2>2, AddEffect DEF IInv
<1>7. /\ ToSet(order') = IF registered /\ adds[x] = 0 THEN ToSet(order) \union {x}
                          ELSE ToSet(order)
      /\ DOMAIN order \subseteq DOMAIN order'
      /\ \A i \in DOMAIN order : order'[i] = order[i] /\ order[i] \in Event
      /\ \A i \in DOMAIN order' \ DOMAIN order :
           i = Len(order) + 1 /\ order'[i] = x /\ adds[x] = 0
  <2>1. CASE registered /\ adds[x] = 0
    <3>1. order' = Append(order, x)
      BY <1>2, <2>1
    <3> QED
      BY <1>3, <2>1, <3>1, AppendElements
  <2>2. CASE ~(registered /\ adds[x] = 0)
    <3>1. order' = order
      BY <1>2, <2>2
    <3> QED
      BY <1>3, <2>2, <3>1
  <2> QED
    BY <2>1, <2>2
<1>8. Timer(x, 0).job = x /\ Timer(x, 0).delay = 0
  BY TimerType
<1>9. order' # <<>> => registered'
  BY <1>2
<1>10. FreshInv'
  <2> SUFFICES ASSUME NEW e \in Event, adds'[e] = 0 PROVE Nowhere(e)'
    BY DEF FreshInv
  <2>1. e # x /\ adds[e] = 0
    BY <1>2 DEF IInv, TypeOK
  <2>2. Nowhere(e)
    BY <2>1 DEF FreshInv
  <2>3. \A q \in DOMAIN timers' : timers'[q].job # e
    BY <1>6, <1>8, <2>1, <2>2 DEF Nowhere
  <2> QED
    BY <1>2, <1>5, <1>7, <2>1, <2>2, <2>3 DEF Nowhere, Chained
<1>11. StartedInv'
  BY <1>2 DEF StartedInv
<1>12. ASSUME closing = "open" PROVE OrderInv'
  <2>1. \A e \in Event : Early(e) => Queued(e)
    BY <1>12 DEF OrderInv
  <2>2. \A e \in Event : e # x => (Early(e)' <=> Early(e))
    BY <1>2, <1>7 DEF Early
  <2>3. Early(x)' => Queued(x) \/ (adds[x] = 0 /\ Nowhere(x))
    BY <1>2, <1>4, <1>7, <2>1 DEF Early
  <2>4. Early(x)' /\ Queued(x) => Early(x)
    BY <1>2, <1>4, <1>7 DEF Early, Nowhere
  <2>5. Queued(x) => UNCHANGED timers
    BY <1>12 DEF Add, queueVars
  <2>6. ASSUME NEW e \in Event, Early(e)
        PROVE  /\ \A q \in DOMAIN timers' : timers'[q].job = e => timers'[q].delay = 0
               /\ Chained(e) \/ \E q \in DOMAIN timers : timers'[q] = Timer(e, 0)
    <3>1. /\ \A q \in DOMAIN timers : timers[q].job = e => timers[q].delay = 0
          /\ Chained(e) \/ \E q \in DOMAIN timers : timers[q] = Timer(e, 0)
      BY <1>12, <2>6 DEF OrderInv
    <3> QED
      BY <1>6, <1>8, <3>1
  <2>7. ASSUME NEW e \in Event, Early(e)'
        PROVE  /\ Queued(e)'
               /\ \A q \in DOMAIN timers' : timers'[q].job = e => timers'[q].delay = 0
               /\ Chained(e)' \/ \E q \in DOMAIN timers' : timers'[q] = Timer(e, 0)
    <3>1. CASE Early(e)
      BY <1>2, <1>5, <1>6, <2>1, <2>6, <3>1 DEF Chained
    <3>2. CASE ~Early(e)
      <4>1. e = x /\ ~Queued(x) /\ Nowhere(x)
        BY <2>2, <2>3, <2>4, <2>7, <3>2
      <4>2. Len(timers) + 1 \in DOMAIN timers' /\ timers'[Len(timers) + 1] = Timer(x, 0)
        BY <1>3, <1>6, <1>12, <4>1
      <4>3. \A q \in DOMAIN timers' : timers'[q].job = x => timers'[q].delay = 0
        BY <1>6, <1>8, <4>1 DEF Nowhere
      <4> QED
        BY <1>5, <1>12, <4>1, <4>2, <4>3
    <3> QED
      BY <3>1, <3>2
  <2>8. ASSUME NEW e \in Event, NEW f \in Event, Early(e),
               Behind(e, f) \/ (f = x /\ Nowhere(x) /\ AggregateOf[e] = AggregateOf[f])
        PROVE  Behind(e, f)'
    <3>1. /\ f \notin started
          /\ \A q \in DOMAIN chains[AggregateOf[e]] :
               chains[AggregateOf[e]][q] = f =>
                 \E p \in 1..(q - 1) : chains[AggregateOf[e]][p] = e
      BY <2>8 DEF Behind, Nowhere, Chained, ToSet
    <3>2. ASSUME NEW q \in DOMAIN timers', timers'[q].job = f
          PROVE  Chained(e) \/ \E p \in 1..(q - 1) : timers'[p] = Timer(e, 0)
      <4>1. CASE q \in DOMAIN timers
        <5>1. timers[q].job = f
          BY <1>6, <3>2, <4>1
        <5>2. Chained(e) \/ \E p \in 1..(q - 1) : timers[p] = Timer(e, 0)
          BY <2>8, <4>1, <5>1 DEF Behind, Nowhere
        <5>3. \A p \in 1..(q - 1) : timers'[p] = timers[p]
          BY <1>3, <1>6, <4>1
        <5> QED
          BY <5>2, <5>3
      <4>2. CASE q \notin DOMAIN timers
        <5>1. q = Len(timers) + 1
          BY <1>6, <4>2
        <5>2. Chained(e) \/ \E p \in 1..Len(timers) : timers'[p] = Timer(e, 0)
          BY <1>3, <2>6, <2>8
        <5> QED
          BY <1>3, <5>1, <5>2
      <4> QED
        BY <4>1, <4>2
    <3> QED
      BY <1>2, <3>1, <3>2 DEF Behind, Chained
  <2>9. ASSUME NEW i \in DOMAIN order', NEW j \in DOMAIN order', i < j,
               NEW e, NEW f, e = order'[i], f = order'[j],
               AggregateOf[e] = AggregateOf[f],
               Early(e)'
        PROVE  Behind(e, f)'
    <3>1. i \in DOMAIN order /\ e = order[i] /\ e \in Event
      <4>1. i \in Nat /\ j \in Nat /\ i <= Len(order)
        <5>1. DOMAIN order' \subseteq 1..(Len(order) + 1)
          BY <1>3, <1>7
        <5> QED
          BY <1>3, <2>9, <5>1
      <4> QED
        BY <1>3, <1>7, <2>9, <4>1
    <3>2. Early(e)
      <4>1. e \in ToSet(order)
        BY <3>1 DEF ToSet
      <4> QED
        BY <1>2, <2>9, <4>1 DEF Early
    <3>3. CASE j \in DOMAIN order
      <4>1. f = order[j] /\ f \in Event
        BY <1>7, <2>9, <3>3
      <4>2. Behind(e, f)
        BY <1>12, <2>9, <3>1, <3>2, <3>3, <4>1 DEF OrderInv
      <4> QED
        BY <2>8, <3>1, <3>2, <4>1, <4>2
    <3>4. CASE j \notin DOMAIN order
      <4>1. f = x /\ Nowhere(x)
        BY <1>4, <1>7, <2>9, <3>4
      <4> QED
        BY <2>8, <2>9, <3>1, <3>2, <4>1
    <3> QED
      BY <3>3, <3>4
  <2> QED
    BY <2>7, <2>9 DEF OrderInv
<1>13. FirstAttemptsInOrder'
  <2> SUFFICES ASSUME NEW i \in 1..Len(order'), NEW j \in 1..Len(order'), i < j,
                      AggregateOf[order'[i]] = AggregateOf[order'[j]],
                      order'[j] \in started
               PROVE  order'[i] \in started
    BY <1>2 DEF FirstAttemptsInOrder
  <2>1. DOMAIN order' = 1..Len(order')
    BY <1>1 DEF IInv, TypeOK
  <2>2. j \in DOMAIN order
    BY <1>4, <1>7, <2>1 DEF Nowhere
  <2>3. i \in DOMAIN order
    BY <1>3, <2>2
  <2> QED
    BY <1>3, <1>7, <2>2, <2>3 DEF FirstAttemptsInOrder
<1> QED
  BY <1>1, <1>2, <1>9, <1>10, <1>11, <1>12, <1>13 DEF OrderInv

(* The timer at place i is taken out, the others keep their order; its job *)
(* joins the chain if it is queued, once there is a processor.             *)
LEMMA FirePlaces ==
    ASSUME IInv, registered, closing = "open", NEW x \in Event, Fire(x)
    PROVE  \E i \in 1..Len(timers) :
             /\ timers[i].job = x
             /\ MayFire(i)
             /\ DOMAIN timers' = 1..(Len(timers) - 1)
             /\ \A q \in 1..(Len(timers) - 1) :
                  timers'[q] = IF q < i THEN timers[q] ELSE timers[q + 1]
             /\ chains' = IF Queued(x)
                          THEN [chains EXCEPT ![AggregateOf[x]] = Append(@, x)]
                          ELSE chains
<1>1. PICK i \in 1..Len(timers) :
        timers[i].job = x /\ MayFire(i) /\ Process(x, RemoveAt(timers, i))
  BY DEF Fire
<1>2. /\ DOMAIN RemoveAt(timers, i) = 1..(Len(timers) - 1)
      /\ \A q \in 1..(Len(timers) - 1) :
           RemoveAt(timers, i)[q] = IF q < i THEN timers[q] ELSE timers[q + 1]
  <2>1. timers \in Seq(TimerSet)
    BY DEF IInv, TypeOK, TimerSet
  <2> QED
    BY <2>1, RemoveAtPlaces
<1>3. /\ timers' = RemoveAt(timers, i)
      /\ chains' = IF Queued(x)
                   THEN [chains EXCEPT ![AggregateOf[x]] = Append(@, x)]
                   ELSE chains
  BY <1>1 DEF Process
<1> QED
  BY <1>1, <1>2, <1>3

LEMMA FireFresh ==
    ASSUME OInv, NEW x \in Event, Fire(x) PROVE FreshInv'
<1> USE DEF OInv
<1> SUFFICES ASSUME NEW e \in Event, adds'[e] = 0 PROVE Nowhere(e)'
  BY DEF FreshInv
<1>1. UNCHANGED <<registered, closing, jobs, adds, order, started>>
  BY DEF Fire, workVars
<1>2. Nowhere(e)
  BY <1>1 DEF FreshInv
<1>3. PICK i \in 1..Len(timers) : timers[i].job = x /\ Process(x, RemoveAt(timers, i))
  BY DEF Fire
<1>4. timers \in Seq(TimerSet)
  BY DEF IInv, TypeOK, TimerSet
<1>5. e # x
  BY <1>2, <1>3, <1>4 DEF Nowhere
<1>6. \A q \in DOMAIN RemoveAt(timers, i) : RemoveAt(timers, i)[q].job # e
  <2>1. /\ Len(timers) \in Nat /\ DOMAIN timers = 1..Len(timers)
        /\ DOMAIN RemoveAt(timers, i) = 1..(Len(timers) - 1)
        /\ \A q \in 1..(Len(timers) - 1) :
             RemoveAt(timers, i)[q] = IF q < i THEN timers[q] ELSE timers[q + 1]
    BY <1>4, RemoveAtPlaces
  <2> QED
    BY <1>2, <2>1 DEF Nowhere
<1>7. \A q \in DOMAIN timers' : timers'[q].job # e
  <2> DEFINE rest == RemoveAt(timers, i)
  <2>1. rest \in Seq(TimerSet)
    BY <1>4, RemoveAtPlaces
  <2>2. CASE timers' = rest
    BY <1>6, <2>2
  <2>3. CASE timers' = Append(rest, Timer(x, NoProcessorDelay))
    <3>1. Timer(x, NoProcessorDelay) \in TimerSet /\ Timer(x, NoProcessorDelay).job = x
      BY TimerType DEF NoProcessorDelay
    <3>2. \A q \in DOMAIN rest : rest[q].job # e
      BY <1>6
    <3> HIDE DEF rest
    <3>3. DOMAIN rest = 1..Len(rest) /\ Len(rest) \in Nat
      BY <2>1
    <3>4. /\ DOMAIN timers' = 1..(Len(rest) + 1)
          /\ \A q \in DOMAIN rest : timers'[q] = rest[q]
          /\ timers'[Len(rest) + 1] = Timer(x, NoProcessorDelay)
      BY <2>1, <2>3, <3>1, AppendElements
    <3> QED
      BY <1>5, <3>1, <3>2, <3>3, <3>4
  <2> QED
    BY <1>3, <2>2, <2>3 DEF Process
<1>8. ~Chained(e)'
  <2> DEFINE b == AggregateOf[x]
  <2>1. b \in Aggregate /\ AggregateOf[e] \in Aggregate /\ chains[b] \in Seq(Event)
    BY EventQueueAssumption DEF IInv, TypeOK
  <2>2. CASE UNCHANGED chains
    BY <1>2, <2>2 DEF Nowhere, Chained
  <2>3. CASE chains' = [chains EXCEPT ![b] = Append(@, x)]
    <3>1. ToSet(Append(chains[b], x)) = ToSet(chains[b]) \union {x}
      BY <2>1, AppendElements
    <3>2. chains'[AggregateOf[e]] = IF AggregateOf[e] = b THEN Append(chains[b], x)
                                    ELSE chains[AggregateOf[e]]
      BY <2>1, <2>3 DEF IInv, TypeOK
    <3> QED
      BY <1>2, <1>5, <3>1, <3>2 DEF Nowhere, Chained
  <2> QED
    BY <2>2, <2>3, FireEffect DEF IInv
<1> QED
  BY <1>1, <1>2, <1>7, <1>8 DEF Nowhere, Queued

(* Of two waiting events of one aggregate the timer of the earlier one was *)
(* set first and with no delay, so it is the first to fire.                *)
LEMMA FireOInv ==
    ASSUME OInv, NEW x \in Event, Fire(x) PROVE OInv'
<1> USE DEF OInv
<1>1. IInv'
  BY FireIInv
<1>2. UNCHANGED <<registered, closing, jobs, running, adds, order, started>>
  BY DEF Fire, workVars
<1>3. FreshInv'
  BY FireFresh
<1> DEFINE b == AggregateOf[x]
<1>4. b \in Aggregate /\ chains[b] \in Seq(Event) /\ timers \in Seq(TimerSet)
  BY EventQueueAssumption DEF IInv, TypeOK, TimerSet
<1>5. /\ DOMAIN Append(chains[b], x) = 1..(Len(chains[b]) + 1)
      /\ \A i \in DOMAIN chains[b] : Append(chains[b], x)[i] = chains[b][i]
      /\ Append(chains[b], x)[Len(chains[b]) + 1] = x
      /\ ToSet(Append(chains[b], x)) = ToSet(chains[b]) \union {x}
      /\ chains[b] # <<>> => Head(Append(chains[b], x)) = Head(chains[b])
      /\ DOMAIN chains[b] = 1..Len(chains[b]) /\ Len(chains[b]) \in Nat
  BY <1>4, AppendElements
<1>6. StartedInv'
  <2>1. CASE UNCHANGED chains
    BY <1>2, <2>1 DEF StartedInv
  <2>2. CASE chains' = [chains EXCEPT ![b] = Append(@, x)]
    <3>1. \A a \in Aggregate : chains[a] # <<>> => Head(chains'[a]) = Head(chains[a])
      BY <1>5, <2>2 DEF IInv, TypeOK
    <3> QED
      BY <1>2, <3>1 DEF StartedInv, IInv, RunningInv
  <2> QED
    BY <2>1, <2>2, FireEffect DEF IInv
<1>7. FirstAttemptsInOrder'
  BY <1>2 DEF FirstAttemptsInOrder
<1>8. ASSUME registered, closing = "open" PROVE OrderInv'
  <2>1. PICK i \in 1..Len(timers) :
          /\ timers[i].job = x
          /\ MayFire(i)
          /\ DOMAIN timers' = 1..(Len(timers) - 1)
          /\ \A q \in 1..(Len(timers) - 1) :
               timers'[q] = IF q < i THEN timers[q] ELSE timers[q + 1]
          /\ chains' = IF Queued(x) THEN [chains EXCEPT ![b] = Append(@, x)]
                       ELSE chains
    BY <1>8, FirePlaces
  <2>2. Len(timers) \in Nat /\ DOMAIN timers = 1..Len(timers)
    BY <1>4
  <2>3. \A e : Early(e)' <=> Early(e)
    BY <1>2 DEF Early
  <2>4. \A a \in Aggregate : chains'[a] = IF a = b /\ Queued(x) THEN Append(chains[b], x)
                                          ELSE chains[a]
    BY <2>1 DEF IInv, TypeOK
  <2>5. \A e \in Event : Chained(e) => Chained(e)'
    BY <1>5, <2>4, EventQueueAssumption DEF Chained
  <2>6. Queued(x) => Chained(x)'
    BY <1>4, <1>5, <2>4 DEF Chained
  <2> HIDE DEF b
  <2>7. ASSUME NEW e \in Event, Early(e)
        PROVE  /\ Queued(e)
               /\ \A q \in DOMAIN timers : timers[q].job = e => timers[q].delay = 0
               /\ Chained(e) \/ \E q \in DOMAIN timers : timers[q] = Timer(e, 0)
    BY <1>8, <2>7 DEF OrderInv
  <2>8. ASSUME NEW e \in Event, Early(e), NEW p \in 1..Len(timers),
               timers[p] = Timer(e, 0)
        PROVE  \/ Chained(e)'
               \/ p < i /\ p \in DOMAIN timers' /\ timers'[p] = Timer(e, 0)
               \/ p > i /\ p - 1 \in DOMAIN timers' /\ timers'[p - 1] = Timer(e, 0)
    <3>1. CASE p = i
      <4>1. e = x
        BY <2>1, <2>8, <3>1, TimerType
      <4> QED
        BY <2>6, <2>7, <2>8, <4>1
    <3>2. CASE p < i
      BY <2>1, <2>2, <2>8, <3>2
    <3>3. CASE p > i
      <4>1. p - 1 \in 1..(Len(timers) - 1) /\ ~(p - 1 < i) /\ (p - 1) + 1 = p
        BY <2>2, <3>3
      <4>2. timers'[p - 1] = timers[p]
        BY <2>1, <4>1
      <4> QED
        BY <2>1, <2>8, <3>3, <4>1, <4>2
    <3> QED
      BY <2>2, <3>1, <3>2, <3>3
  <2>9. ASSUME NEW e \in Event, Early(e)
        PROVE  /\ Queued(e)'
               /\ \A q \in DOMAIN timers' : timers'[q].job = e => timers'[q].delay = 0
               /\ Chained(e)' \/ \E q \in DOMAIN timers' : timers'[q] = Timer(e, 0)
    <3>1. Queued(e)'
      BY <1>2, <2>7, <2>9 DEF Queued
    <3>2. \A q \in DOMAIN timers' : timers'[q].job = e => timers'[q].delay = 0
      BY <2>1, <2>2, <2>7, <2>9
    <3>3. Chained(e)' \/ \E q \in DOMAIN timers' : timers'[q] = Timer(e, 0)
      BY <2>2, <2>5, <2>7, <2>8, <2>9
    <3> QED
      BY <3>1, <3>2, <3>3
  <2>10. ASSUME NEW e \in Event, NEW f \in Event, Early(e),
                AggregateOf[e] = AggregateOf[f], Behind(e, f)
         PROVE  Behind(e, f)'
    <3>1. f \notin started'
      BY <1>2, <2>10 DEF Behind
    <3>2. ASSUME NEW q \in DOMAIN chains'[AggregateOf[e]],
                 chains'[AggregateOf[e]][q] = f
          PROVE  \E p \in 1..(q - 1) : chains'[AggregateOf[e]][p] = e
      <4>1. CASE chains'[AggregateOf[e]] = chains[AggregateOf[e]]
        BY <2>10, <3>2, <4>1 DEF Behind
      <4>2. CASE AggregateOf[e] = b /\ chains'[b] = Append(chains[b], x)
        <5>1. CASE q \in DOMAIN chains[b]
          <6>1. chains[b][q] = f
            BY <1>5, <3>2, <4>2, <5>1
          <6>2. PICK p \in 1..(q - 1) : chains[b][p] = e
            BY <2>10, <4>2, <5>1, <6>1 DEF Behind
          <6>3. p \in DOMAIN chains[b]
            BY <1>5, <5>1
          <6>4. chains'[b][p] = e
            BY <1>5, <4>2, <6>2, <6>3
          <6> QED
            BY <4>2, <6>4
        <5>2. CASE q = Len(chains[b]) + 1
          <6>1. f = x
            BY <1>5, <3>2, <4>2, <5>2
          <6>2. \A p \in 1..(i - 1) : timers[p] # Timer(e, 0)
            <7>1. timers[i].delay \in Nat
              <8>1. timers[i] \in TimerSet
                BY <1>4
              <8> QED
                BY <8>1 DEF TimerSet
            <7> QED
              BY <2>1, <7>1, TimerType DEF MayFire
          <6>3. Chained(e)
            BY <2>1, <2>2, <2>10, <6>1, <6>2 DEF Behind
          <6>4. PICK p \in DOMAIN chains[b] : chains[b][p] = e
            BY <4>2, <6>3 DEF Chained, ToSet
          <6>5. p \in 1..(q - 1) /\ chains'[b][p] = e
            BY <1>5, <4>2, <5>2, <6>4
          <6> QED
            BY <4>2, <6>5
        <5> QED
          BY <1>5, <3>2, <4>2, <5>1, <5>2
      <4> QED
        BY <2>4, <4>1, <4>2, EventQueueAssumption
    <3>3. ASSUME NEW q \in DOMAIN timers', timers'[q].job = f
          PROVE  Chained(e)' \/ \E p \in 1..(q - 1) : timers'[p] = Timer(e, 0)
      <4>1. PICK r \in 1..Len(timers) :
              timers'[q] = timers[r] /\ (IF q < i THEN r = q ELSE r = q + 1)
        BY <2>1, <2>2
      <4>2. q \in Nat /\ i \in Nat
        BY <2>1, <2>2
      <4>3. Chained(e) \/ \E p \in 1..(r - 1) : timers[p] = Timer(e, 0)
        BY <2>2, <2>10, <3>3, <4>1 DEF Behind
      <4>4. ASSUME NEW p \in 1..(r - 1), timers[p] = Timer(e, 0)
            PROVE  Chained(e)' \/ \E n \in 1..(q - 1) : timers'[n] = Timer(e, 0)
        <5>1. p \in 1..Len(timers)
          BY <2>2, <4>1
        <5>2. CASE p < i /\ timers'[p] = Timer(e, 0)
          <6>1. p \in 1..(q - 1)
            BY <4>1, <4>2, <5>2
          <6> QED
            BY <5>2, <6>1
        <5>3. CASE p > i /\ timers'[p - 1] = Timer(e, 0)
          <6>1. p - 1 \in 1..(q - 1)
            BY <4>1, <4>2, <5>3
          <6> QED
            BY <5>3, <6>1
        <5> QED
          BY <2>8, <2>10, <4>4, <5>1, <5>2, <5>3
      <4> QED
        BY <2>5, <4>3, <4>4
    <3> QED
      BY <3>1, <3>2, <3>3 DEF Behind
  <2>11. \A k \in DOMAIN order : order[k] \in Event
    BY DEF IInv, TypeOK
  <2> QED
    BY <1>2, <2>3, <2>9, <2>10, <2>11 DEF OrderInv
<1>9. ASSUME ~registered PROVE OrderInv'
  BY <1>2, <1>9 DEF OrderInv, Early, ToSet
<1> QED
  BY <1>1, <1>2, <1>3, <1>6, <1>7, <1>8, <1>9 DEF OrderInv

LEMMA NextOInv == OInv /\ [Next]_vars => OInv'
<1> SUFFICES ASSUME OInv, [Next]_vars PROVE OInv'
  OBVIOUS
<1>1. ASSUME UNCHANGED vars PROVE OInv'
  <2>1. IInv'
    BY NextIInv DEF OInv
  <2>2. UNCHANGED <<registered, closing, jobs, timers, chains, running, started,
                    adds, order>>
    BY <1>1 DEF vars, queueVars, workVars
  <2>3. StartedInv'
    BY <2>2 DEF OInv, StartedInv
  <2> QED
    BY <2>1, <2>2, <2>3, StillOInv
<1>2. ASSUME NEW e \in Event, Add(e) \/ Fire(e) PROVE OInv'
  BY <1>2, AddOInv, FireOInv
<1>3. ASSUME NEW a \in Aggregate, Work(a) PROVE OInv'
  BY <1>3, SkipAttemptOInv, StartAttemptOInv, SkipHandlerOInv,
     HandlerSucceedsOInv, HandlerFailsOInv, FinishJobOInv
     DEF Work
<1> QED
  BY <1>1, <1>2, <1>3, RegisterOInv, CloseOInv, ClearOInv DEF Next, Rest

(* Of two events of one aggregate published while the worker is up the     *)
(* later one is never attempted before the first attempt of the earlier.   *)
THEOREM FirstAttemptsOrdered == Spec => []FirstAttemptsInOrder
<1>1. OInv => FirstAttemptsInOrder
  BY DEF OInv
<1> QED
  BY <1>1, InitOInv, NextOInv, PTL DEF Spec
=============================================================================
