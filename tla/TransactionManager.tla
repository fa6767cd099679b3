------------------------- MODULE TransactionManager -------------------------
(***************************************************************************)
(* FinancialTransactionManager: the process-wide transaction wrapper every *)
(* financial service runs its writes in.                                   *)
(*                                                                         *)
(* A call of wrapper(fn, participants) first waits for its turn in one     *)
(* FIFO lock, snapshots the participants, runs fn, validates and commits,  *)
(* runs the after-commit callbacks with the lock still held and releases   *)
(* it.  Called again from inside fn, wrapper joins the open context and    *)
(* only moves its depth.  An error restores every snapshot and releases    *)
(* the lock at once, however deep it was raised, and then travels up       *)
(* through the outer frames, whose own rollback finds no context of theirs.*)
(*                                                                         *)
(* A step is what runs between two awaits, so calls interleave freely.     *)
(* The id of a context (an AsyncLocalStorage value, unique per context) is *)
(* abstracted to the call that opened it: a call opens at most one.  The   *)
(* rolledBack flag needs no state: rollback sets it and drops the context  *)
(* in the same step.  A repository is the set of the writers whose writes  *)
(* it holds, all that snapshot and restore can tell apart.                 *)
(*                                                                         *)
(* A definition named X_fault is X with one plausible mistake in it; no    *)
(* specification uses it, and the runs must notice it in the place of X.   *)
(***************************************************************************)
EXTENDS Naturals, Sequences, FiniteSets

CONSTANTS
    Call,       \* the top-level calls of wrapper
    Outsider,   \* writers that change a participant outside any transaction
    Key,        \* participant keys ('payments', 'invoices', 'events', ...)
    MaxDepth,   \* bound on the nesting of wrapper inside fn
    MaxWork,    \* bound on the operations one fn performs
    CallbackMayThrow,  \* whether an after-commit callback can throw
    NoCall      \* stands for null

ASSUME BoundsAssumption == /\ MaxDepth \in Nat \ {0}
                           /\ MaxWork \in Nat
                           /\ CallbackMayThrow \in BOOLEAN
ASSUME NamesAssumption == NoCall \notin Call /\ Call \intersect Outsider = {}

VARIABLES
    phase,          \* [Call -> Phase]: where each call is
    frames,         \* [Call -> 0..MaxDepth]: its wrapper frames on the stack
    work,           \* [Call -> 0..MaxWork]: what its fn has done so far
    lockQueue,      \* calls that hold or await the lock, holder first
    activeContext,  \* the manager's current context (id = NoCall is null)
    store,          \* [Key -> SUBSET Writer]: the repositories
    published,      \* calls one of whose callbacks ran (events handed out)
    acknowledged    \* <<outsider, key>>: writes whose caller saw success

vars == <<phase, frames, work, lockQueue, activeContext, store, published,
          acknowledged>>

Writer == Call \union Outsider
Phase == {"idle", "waiting", "running", "afterCommit", "unwinding",
          "committed", "failed", "stuck"}
Returned == {"committed", "failed", "stuck"}

(* Snapshots of any set of participants.                                   *)
Snapshots == UNION {[keys -> SUBSET Writer] : keys \in SUBSET Key}

Context == [id : Call \union {NoCall}, depth : 0..MaxDepth,
            snapshots : Snapshots, callbacks : 0..MaxWork]

NullContext == [id |-> NoCall, depth |-> 0, snapshots |-> [k \in {} |-> {}],
                callbacks |-> 0]

-----------------------------------------------------------------------------
Init ==
    /\ phase = [c \in Call |-> "idle"]
    /\ frames = [c \in Call |-> 0]
    /\ work = [c \in Call |-> 0]
    /\ lockQueue = <<>>
    /\ activeContext = NullContext
    /\ store = [k \in Key |-> {}]
    /\ published = {}
    /\ acknowledged = {}

(* requireContext and hasActiveTransaction: the context is the caller's    *)
(* own and still open.                                                     *)
OwnsContext_fault(c) == activeContext.depth > 0   \* forgets to compare ids
OwnsContext(c) == activeContext.id = c /\ activeContext.depth > 0

(* The release of every earlier call has resolved.                         *)
HoldsLock(c) == lockQueue # <<>> /\ Head(lockQueue) = c

(* wrapper finds no context of its own and joins the lock queue.           *)
Request(c) ==
    /\ phase[c] = "idle"
    /\ phase' = [phase EXCEPT ![c] = "waiting"]
    /\ lockQueue' = Append(lockQueue, c)
    /\ UNCHANGED <<frames, work, activeContext, store, published, acknowledged>>

(* createTopLevelContext once the lock is c's: one snapshot per key.       *)
Enter_fault(c, participants) ==   \* does not wait for the lock
    /\ phase[c] = "waiting"
    /\ activeContext' = [id |-> c, depth |-> 1,
                         snapshots |-> [k \in participants |-> store[k]],
                         callbacks |-> 0]
    /\ phase' = [phase EXCEPT ![c] = "running"]
    /\ frames' = [frames EXCEPT ![c] = 1]
    /\ UNCHANGED <<work, lockQueue, store, published, acknowledged>>
Enter(c, participants) ==
    /\ phase[c] = "waiting"
    /\ HoldsLock(c)
    /\ activeContext' = [id |-> c, depth |-> 1,
                         snapshots |-> [k \in participants |-> store[k]],
                         callbacks |-> 0]
    /\ phase' = [phase EXCEPT ![c] = "running"]
    /\ frames' = [frames EXCEPT ![c] = 1]
    /\ UNCHANGED <<work, lockQueue, store, published, acknowledged>>

(* A participant's snapshot throws: the lock is handed on, nothing opened. *)
EnterFails(c) ==
    /\ phase[c] = "waiting"
    /\ HoldsLock(c)
    /\ lockQueue' = Tail(lockQueue)
    /\ phase' = [phase EXCEPT ![c] = "failed"]
    /\ UNCHANGED <<frames, work, activeContext, store, published, acknowledged>>

(* fn does one more of the operations the manager can see.                 *)
Working(c) ==
    /\ phase[c] = "running"
    /\ OwnsContext(c)
    /\ work[c] < MaxWork
    /\ work' = [work EXCEPT ![c] = @ + 1]

(* begin, from a wrapper inside fn: one level deeper; a participant is     *)
(* snapshot only the first time it is seen.                                *)
Nest_fault(c, participants) ==   \* snapshots a known participant again
    /\ Working(c)
    /\ frames[c] < MaxDepth
    /\ frames' = [frames EXCEPT ![c] = @ + 1]
    /\ activeContext' =
         [activeContext EXCEPT
            !.depth = @ + 1,
            !.snapshots = [k \in DOMAIN @ \union participants |->
                             IF k \in participants THEN store[k] ELSE @[k]]]
    /\ UNCHANGED <<phase, lockQueue, store, published, acknowledged>>
Nest(c, participants) ==
    /\ Working(c)
    /\ frames[c] < MaxDepth
    /\ frames' = [frames EXCEPT ![c] = @ + 1]
    /\ activeContext' =
         [activeContext EXCEPT
            !.depth = @ + 1,
            !.snapshots = [k \in DOMAIN @ \union participants |->
                             IF k \in DOMAIN @ THEN @[k] ELSE store[k]]]
    /\ UNCHANGED <<phase, lockQueue, store, published, acknowledged>>

(* fn writes a repository; callers register every repository they write.   *)
Write(c, k) ==
    /\ Working(c)
    /\ k \in DOMAIN activeContext.snapshots
    /\ store' = [store EXCEPT ![k] = @ \union {c}]
    /\ UNCHANGED <<phase, frames, lockQueue, activeContext, published,
                   acknowledged>>

(* runAfterCommit: the callback waits for the commit of the top level.     *)
RunAfterCommit_fault(c) ==   \* runs the callback at once
    /\ Working(c)
    /\ published' = published \union {c}
    /\ UNCHANGED <<phase, frames, lockQueue, activeContext, store, acknowledged>>
RunAfterCommit(c) ==
    /\ Working(c)
    /\ activeContext' = [activeContext EXCEPT !.callbacks = @ + 1]
    /\ UNCHANGED <<phase, frames, lockQueue, store, published, acknowledged>>

(* commit of a nested wrapper only steps out of it.                        *)
CommitNested(c) ==
    /\ phase[c] = "running"
    /\ OwnsContext(c)
    /\ activeContext.depth > 1
    /\ activeContext' = [activeContext EXCEPT !.depth = @ - 1]
    /\ frames' = [frames EXCEPT ![c] = @ - 1]
    /\ UNCHANGED <<phase, work, lockQueue, store, published, acknowledged>>

(* commit of the top-level wrapper, its validators content: from depth 0   *)
(* on nothing rolls the context back.                                      *)
CommitTop(c) ==
    /\ phase[c] = "running"
    /\ OwnsContext(c)
    /\ activeContext.depth = 1
    /\ activeContext' = [activeContext EXCEPT !.depth = 0]
    /\ phase' = [phase EXCEPT ![c] = "afterCommit"]
    /\ UNCHANGED <<frames, work, lockQueue, store, published, acknowledged>>

(* The callbacks run one after the other, each awaited.                    *)
RunCallback_fault(c) ==   \* runs one callback too many
    /\ phase[c] = "afterCommit"
    /\ activeContext.callbacks >= 0
    /\ activeContext' = [activeContext EXCEPT !.callbacks = @ - 1]
    /\ published' = published \union {c}
    /\ UNCHANGED <<phase, frames, work, lockQueue, store, acknowledged>>
RunCallback(c) ==
    /\ phase[c] = "afterCommit"
    /\ activeContext.callbacks > 0
    /\ activeContext' = [activeContext EXCEPT !.callbacks = @ - 1]
    /\ published' = published \union {c}
    /\ UNCHANGED <<phase, frames, work, lockQueue, store, acknowledged>>

(* releaseContext: the lock goes to the next in line.                      *)
ReleaseContext_fault ==   \* drops the context, not the lock
    /\ UNCHANGED lockQueue
    /\ activeContext' = NullContext
ReleaseContext ==
    /\ lockQueue' = Tail(lockQueue)
    /\ activeContext' = NullContext

Finish(c) ==
    /\ phase[c] = "afterCommit"
    /\ activeContext.callbacks = 0
    /\ ReleaseContext
    /\ phase' = [phase EXCEPT ![c] = "committed"]
    /\ frames' = [frames EXCEPT ![c] = 0]
    /\ UNCHANGED <<work, store, published, acknowledged>>

(* rollback: every snapshot is written back, over whatever the repository  *)
(* holds now; a caller that does not own an open context changes nothing.  *)
Restored_fault ==   \* a nested rollback leaves it to the outer frames
    [k \in Key |-> IF k \in DOMAIN activeContext.snapshots
                      /\ activeContext.depth = 1
                   THEN activeContext.snapshots[k] ELSE store[k]]
Restored ==
    [k \in Key |-> IF k \in DOMAIN activeContext.snapshots
                   THEN activeContext.snapshots[k] ELSE store[k]]

RollBack(c) ==
    \/ /\ OwnsContext(c)
       /\ store' = Restored
       /\ ReleaseContext
    \/ /\ ~OwnsContext(c)
       /\ UNCHANGED <<store, lockQueue, activeContext>>

(* An error leaves the innermost frame: fn threw, or a validator did in    *)
(* the commit at depth 1.  The frames outside it catch it in their turn.   *)
Throw(c) ==
    /\ phase[c] \in {"running", "unwinding"}
    /\ RollBack(c)
    /\ frames' = [frames EXCEPT ![c] = @ - 1]
    /\ phase' = [phase EXCEPT ![c] = IF frames[c] = 1 THEN "failed"
                                                      ELSE "unwinding"]
    /\ UNCHANGED <<work, published, acknowledged>>

(* A callback throws out of commit: the depth is already 0, so rollback    *)
(* returns early, the context is never released, and the caller is told    *)
(* its committed call failed.                                              *)
CallbackThrows(c) ==
    /\ CallbackMayThrow
    /\ phase[c] = "afterCommit"
    /\ activeContext.callbacks > 0
    /\ RollBack(c)
    /\ phase' = [phase EXCEPT ![c] = "stuck"]
    /\ frames' = [frames EXCEPT ![c] = 0]
    /\ UNCHANGED <<work, published, acknowledged>>

(* A service that never calls wrapper (approval, AR, AP, period close)     *)
(* writes a participant and returns.                                       *)
OutsideWrite(o, k) ==
    /\ \A j \in Key : <<o, j>> \notin acknowledged
    /\ store' = [store EXCEPT ![k] = @ \union {o}]
    /\ acknowledged' = acknowledged \union {<<o, k>>}
    /\ UNCHANGED <<phase, frames, work, lockQueue, activeContext, published>>

LockIsLeaked == \E c \in Call : phase[c] = "stuck"

(* Nothing left to do, or nothing that can be done any more.               *)
AllReturned ==
    /\ \A c \in Call :
         phase[c] \in Returned \/ (phase[c] = "waiting" /\ LockIsLeaked)
    /\ UNCHANGED vars

Step(c) ==
    \/ \E ps \in SUBSET Key \ {{}} : Enter(c, ps) \/ Nest(c, ps)
    \/ EnterFails(c)
    \/ \E k \in Key : Write(c, k)
    \/ RunAfterCommit(c)
    \/ CommitNested(c)
    \/ CommitTop(c)
    \/ RunCallback(c)
    \/ Finish(c)
    \/ Throw(c)
    \/ CallbackThrows(c)

Next ==
    \/ \E c \in Call : Request(c) \/ Step(c)
    \/ \E o \in Outsider, k \in Key : OutsideWrite(o, k)
    \/ AllReturned

Spec == Init /\ [][Next]_vars

(* Once a call waits, its promises keep being resolved: the event loop     *)
(* runs every ready continuation, and fn does a bounded amount of work.    *)
(* Nothing makes a caller call.                                            *)
FairSpec == Spec /\ \A c \in Call : WF_vars(Step(c))

-----------------------------------------------------------------------------
TypeOK ==
    /\ phase \in [Call -> Phase]
    /\ frames \in [Call -> 0..MaxDepth]
    /\ work \in [Call -> 0..MaxWork]
    /\ lockQueue \in Seq(Call)
    /\ activeContext \in Context
    /\ store \in [Key -> SUBSET Writer]
    /\ published \subseteq Call
    /\ acknowledged \subseteq Outsider \X Key

InTransaction(c) == phase[c] \in {"running", "afterCommit"}

(* At most one call is between the grant and the release of the lock, even *)
(* when an error deep inside a call released it early and the outer frames *)
(* of that call are still unwinding.                                       *)
MutualExclusion ==
    \A c, d \in Call : InTransaction(c) /\ InTransaction(d) => c = d

(* A call that failed, or is failing, has no write left in any repository, *)
(* whichever frame registered the repository and whichever frame threw.    *)
FailedCallLeavesNoTrace ==
    \A c \in Call : phase[c] \in {"unwinding", "failed"} =>
        \A k \in Key : c \notin store[k]

(* An event is handed out only for a call whose writes are committed.      *)
PublishedIsCommitted ==
    \A c \in published : phase[c] \in {"afterCommit", "committed", "stuck"}

(* A write made outside a transaction stays, too, as an append-only log     *)
(* would have it.                                                          *)
OutsideWritesStay ==
    \A w \in acknowledged : w[1] \in store[w[2]]

(* A write made outside a transaction is lost only to the rollback of a    *)
(* call that had the repository open: never to a commit, to a callback, or *)
(* to a rollback in a frame that is merely unwinding.                      *)
OutsideWritesLostOnlyToRollback ==
    [][\A w \in acknowledged :
         w[1] \in store[w[2]] /\ w[1] \notin store'[w[2]]
           => \E c \in Call : /\ OwnsContext(c)
                              /\ w[2] \in DOMAIN activeContext.snapshots
                              /\ phase[c] = "running"
                              /\ phase'[c] \in {"unwinding", "failed"}]_vars

(* Every call that asked for the lock returns, with a result or an error,  *)
(* unless an after-commit callback has thrown and the lock is leaked.      *)
EveryCallReturns ==
    \A c \in Call :
        phase[c] = "waiting" ~> (phase[c] \in Returned \/ LockIsLeaked)

(* The abstract view: what calls have written, an open context's writes    *)
(* not being there yet.                                                    *)
VisibleStore ==
    [k \in Key |-> Call \intersect
        IF activeContext.depth > 0 THEN Restored[k] ELSE store[k]]
Outcome == [c \in Call |->
              CASE phase[c] \in {"afterCommit", "committed", "stuck"} -> "committed"
                [] phase[c] \in {"unwinding", "failed"} -> "failed"
                [] OTHER -> "pending"]
Atomic == INSTANCE AtomicStore WITH store <- VisibleStore, outcome <- Outcome

(* The manager implements atomic calls.                                    *)
ImplementsAtomicStore == Atomic!Spec
=============================================================================
