----------------------- MODULE TransactionManagerProofs -----------------------
(***************************************************************************)
(* Theorems about FinancialTransactionManager, for any number of calls,    *)
(* participants, nesting depths and operations per call.                   *)
(***************************************************************************)
EXTENDS TransactionManager, TLAPS

(* Why type correctness and mutual exclusion are inductive: a call that is *)
(* in its transaction is at the head of the lock queue and owns the open   *)
(* context, whose depth is the number of its frames; the callbacks it      *)
(* registered are among the operations it did.                             *)
Owner(c) ==
    /\ HoldsLock(c)
    /\ activeContext.id = c
    /\ activeContext.callbacks <= work[c]

LockInv ==
    \A c \in Call :
        /\ phase[c] = "running" => /\ Owner(c)
                                   /\ activeContext.depth = frames[c]
                                   /\ frames[c] > 0
        /\ phase[c] = "afterCommit" => Owner(c) /\ activeContext.depth = 0
        /\ phase[c] = "unwinding" => frames[c] > 0
        /\ OwnsContext(c) => phase[c] = "running"

IInv == TypeOK /\ LockInv

-----------------------------------------------------------------------------
(* What makes a snapshot.                                                  *)
LEMMA SnapshotsIntro ==
    ASSUME NEW keys \in SUBSET Key, NEW s \in [keys -> SUBSET Writer]
    PROVE  s \in Snapshots
  BY DEF Snapshots

(* What is known of a snapshot in hand.                                    *)
LEMMA SnapshotsElim ==
    ASSUME NEW s \in Snapshots
    PROVE  /\ DOMAIN s \in SUBSET Key
           /\ \A k \in DOMAIN s : s[k] \in SUBSET Writer
  BY DEF Snapshots

LEMMA NullContextType == NullContext \in Context
<1>1. [k \in {} |-> {}] \in Snapshots
  BY ZenonT(40) DEF Snapshots
<1> QED
  BY <1>1, BoundsAssumption DEF NullContext, Context

(* The three ways an open context changes.                                 *)
LEMMA ContextUpdates ==
    ASSUME NEW x \in Context, NEW d \in 0..MaxDepth, NEW n \in 0..MaxWork,
           NEW s \in Snapshots
    PROVE  /\ [x EXCEPT !.depth = d] \in Context
           /\ [x EXCEPT !.callbacks = n] \in Context
           /\ [x EXCEPT !.depth = d, !.snapshots = s] \in Context
  BY DEF Context

(* Rolling back restores well-typed repositories.                          *)
LEMMA RestoredType ==
    ASSUME TypeOK
    PROVE  Restored \in [Key -> SUBSET Writer]
  BY SnapshotsElim DEF TypeOK, Restored, Context

LEMMA InitIInv == Init => IInv
  BY NullContextType, BoundsAssumption, NamesAssumption
     DEF Init, IInv, TypeOK, LockInv, Phase, OwnsContext, NullContext

LEMMA RequestIInv ==
    ASSUME IInv, NEW c \in Call, Request(c) PROVE IInv'
<1> USE DEF IInv, Request
<1>1. TypeOK'
  BY DEF TypeOK, Phase
<1>2. LockInv'
  BY DEF LockInv, TypeOK, Owner, HoldsLock, OwnsContext
<1> QED
  BY <1>1, <1>2

LEMMA EnterIInv ==
    ASSUME IInv, NEW c \in Call, NEW ps \in SUBSET Key, Enter(c, ps)
    PROVE  IInv'
<1> USE DEF IInv
<1>1. [k \in ps |-> store[k]] \in Snapshots
  <2>1. [k \in ps |-> store[k]] \in [ps -> SUBSET Writer]
    BY DEF TypeOK
  <2> QED
    BY <2>1, SnapshotsIntro
<1>2. activeContext' \in Context
  BY <1>1, BoundsAssumption DEF Enter, Context
<1>3. TypeOK'
  BY <1>2, BoundsAssumption DEF Enter, TypeOK, Phase
<1>4. LockInv'
  BY BoundsAssumption DEF Enter, LockInv, TypeOK, Owner, HoldsLock, OwnsContext
<1> QED
  BY <1>3, <1>4

LEMMA EnterFailsIInv ==
    ASSUME IInv, NEW c \in Call, EnterFails(c) PROVE IInv'
<1> USE DEF IInv
<1>1. TypeOK'
  BY DEF EnterFails, TypeOK, Phase, HoldsLock
<1>2. LockInv'
  BY DEF EnterFails, LockInv, TypeOK, Owner, HoldsLock, OwnsContext
<1> QED
  BY <1>1, <1>2

LEMMA NestIInv ==
    ASSUME IInv, NEW c \in Call, NEW ps \in SUBSET Key, Nest(c, ps)
    PROVE  IInv'
<1> USE DEF IInv
<1> DEFINE s == activeContext.snapshots
           t == [k \in DOMAIN s \union ps |->
                   IF k \in DOMAIN s THEN s[k] ELSE store[k]]
<1>1. t \in Snapshots
  <2>1. /\ DOMAIN s \in SUBSET Key
        /\ \A k \in DOMAIN s : s[k] \in SUBSET Writer
    BY SnapshotsElim DEF TypeOK, Context
  <2>2. DOMAIN s \union ps \in SUBSET Key
    BY <2>1
  <2>3. t \in [DOMAIN s \union ps -> SUBSET Writer]
    BY <2>1 DEF TypeOK
  <2> QED
    BY <2>2, <2>3, SnapshotsIntro
<1>2. /\ activeContext.depth = frames[c]
      /\ activeContext.depth < MaxDepth
      /\ activeContext.depth \in Nat
  BY BoundsAssumption DEF Nest, Working, LockInv, TypeOK
<1>3. activeContext' = [activeContext EXCEPT !.depth = @ + 1, !.snapshots = t]
  BY DEF Nest
<1> HIDE DEF t, s
<1>4. activeContext' \in Context
  <2>1. activeContext.depth + 1 \in 0..MaxDepth /\ 0 \in 0..MaxWork
    BY <1>2, BoundsAssumption
  <2> QED
    BY <1>1, <1>3, <2>1, ContextUpdates DEF TypeOK
<1>5. /\ activeContext'.depth = activeContext.depth + 1
      /\ activeContext'.id = activeContext.id
      /\ activeContext'.callbacks = activeContext.callbacks
  BY <1>3 DEF TypeOK, Context
<1>6. TypeOK'
  BY <1>4, BoundsAssumption DEF Nest, Working, TypeOK
<1>7. LockInv'
  BY <1>2, <1>4, <1>5, BoundsAssumption, SMTT(20)
     DEF Nest, Working, LockInv, TypeOK, Context, Owner, HoldsLock, OwnsContext
<1> QED
  BY <1>6, <1>7

LEMMA WriteIInv ==
    ASSUME IInv, NEW c \in Call, NEW k \in Key, Write(c, k) PROVE IInv'
<1> USE DEF IInv
<1>1. TypeOK'
  BY BoundsAssumption DEF Write, Working, TypeOK, Writer
<1>2. LockInv'
  BY BoundsAssumption
     DEF Write, Working, LockInv, TypeOK, Context, Owner, HoldsLock, OwnsContext
<1> QED
  BY <1>1, <1>2

LEMMA RunAfterCommitIInv ==
    ASSUME IInv, NEW c \in Call, RunAfterCommit(c) PROVE IInv'
<1> USE DEF IInv
<1>1. /\ activeContext.callbacks <= work[c]
      /\ work[c] < MaxWork
      /\ activeContext.callbacks \in Nat
      /\ work[c] \in Nat
  BY BoundsAssumption
     DEF RunAfterCommit, Working, LockInv, Owner, TypeOK, Context
<1>2. activeContext' \in Context
  <2>1. activeContext.callbacks + 1 \in 0..MaxWork /\ 0 \in 0..MaxDepth
    BY <1>1, BoundsAssumption DEF RunAfterCommit, TypeOK, Context
  <2> QED
    BY <2>1, ContextUpdates DEF RunAfterCommit, TypeOK, Context
<1>3. TypeOK'
  BY <1>2, BoundsAssumption DEF RunAfterCommit, Working, TypeOK
<1>4. LockInv'
  BY <1>1, BoundsAssumption
     DEF RunAfterCommit, Working, LockInv, TypeOK, Context, Owner, HoldsLock,
         OwnsContext
<1> QED
  BY <1>3, <1>4

LEMMA CommitNestedIInv ==
    ASSUME IInv, NEW c \in Call, CommitNested(c) PROVE IInv'
<1> USE DEF IInv
<1>1. activeContext' \in Context
  <2>1. activeContext.depth - 1 \in 0..MaxDepth /\ 0 \in 0..MaxWork
    BY BoundsAssumption DEF CommitNested, TypeOK, Context
  <2> QED
    BY <2>1, ContextUpdates DEF CommitNested, TypeOK, Context
<1>2. TypeOK'
  BY <1>1, BoundsAssumption DEF CommitNested, TypeOK, LockInv
<1>3. LockInv'
  BY BoundsAssumption
     DEF CommitNested, LockInv, TypeOK, Context, Owner, HoldsLock, OwnsContext
<1> QED
  BY <1>2, <1>3

LEMMA CommitTopIInv ==
    ASSUME IInv, NEW c \in Call, CommitTop(c) PROVE IInv'
<1> USE DEF IInv
<1>1. activeContext' \in Context
  <2>1. 0 \in 0..MaxDepth /\ 0 \in 0..MaxWork
    BY BoundsAssumption DEF CommitTop, TypeOK, Context
  <2> QED
    BY <2>1, ContextUpdates DEF CommitTop, TypeOK, Context
<1>2. TypeOK'
  BY <1>1 DEF CommitTop, TypeOK, Phase
<1>3. LockInv'
  BY DEF CommitTop, LockInv, TypeOK, Context, Owner, HoldsLock, OwnsContext
<1> QED
  BY <1>2, <1>3

LEMMA RunCallbackIInv ==
    ASSUME IInv, NEW c \in Call, RunCallback(c) PROVE IInv'
<1> USE DEF IInv
<1>1. activeContext' \in Context
  <2>1. activeContext.callbacks - 1 \in 0..MaxWork /\ 0 \in 0..MaxDepth
    BY BoundsAssumption DEF RunCallback, TypeOK, Context
  <2> QED
    BY <2>1, ContextUpdates DEF RunCallback, TypeOK, Context
<1>2. TypeOK'
  BY <1>1 DEF RunCallback, TypeOK
<1>3. LockInv'
  BY BoundsAssumption
     DEF RunCallback, LockInv, TypeOK, Context, Owner, HoldsLock, OwnsContext
<1> QED
  BY <1>2, <1>3

(* When the call at the head of the queue, in its transaction or not, lets *)
(* go of the lock, no other call was in a transaction.                     *)
LEMMA FinishIInv ==
    ASSUME IInv, NEW c \in Call, Finish(c) PROVE IInv'
<1> USE DEF IInv
<1>1. HoldsLock(c)
  BY DEF Finish, LockInv, Owner
<1>2. TypeOK'
  BY <1>1, NullContextType, BoundsAssumption
     DEF Finish, ReleaseContext, HoldsLock, TypeOK, Phase
<1>3. LockInv'
  BY <1>1, NamesAssumption
     DEF Finish, ReleaseContext, LockInv, TypeOK, Owner, HoldsLock, OwnsContext,
         NullContext
<1> QED
  BY <1>2, <1>3

LEMMA ThrowIInv ==
    ASSUME IInv, NEW c \in Call, Throw(c) PROVE IInv'
<1> USE DEF IInv
<1>1. frames[c] > 0 /\ frames[c] - 1 \in 0..MaxDepth
  BY BoundsAssumption DEF Throw, LockInv, TypeOK
<1>2. CASE OwnsContext(c)
  <2>1. phase[c] = "running" /\ HoldsLock(c)
    BY <1>2 DEF LockInv, Owner
  <2>2. store' = Restored /\ ReleaseContext
    BY <1>2 DEF Throw, RollBack
  <2>3. TypeOK'
    BY <1>1, <2>1, <2>2, NullContextType, RestoredType, SMTT(20)
       DEF Throw, ReleaseContext, HoldsLock, TypeOK, Phase
  <2>4. LockInv'
    BY <1>1, <2>1, <2>2, NamesAssumption, BoundsAssumption, SMTT(20)
       DEF Throw, ReleaseContext, LockInv, TypeOK, Owner, HoldsLock,
           OwnsContext, NullContext
  <2> QED
    BY <2>3, <2>4
<1>3. CASE ~OwnsContext(c)
  <2>1. UNCHANGED <<store, lockQueue, activeContext>>
    BY <1>3 DEF Throw, RollBack
  <2>2. phase[c] = "unwinding"
    BY <1>1, <1>3 DEF Throw, LockInv, Owner, OwnsContext
  <2>3. TypeOK'
    BY <1>1, <2>1 DEF Throw, TypeOK, Phase
  <2>4. LockInv'
    BY <1>1, <1>3, <2>1, <2>2, BoundsAssumption
       DEF Throw, LockInv, TypeOK, Owner, HoldsLock, OwnsContext
  <2> QED
    BY <2>3, <2>4
<1> QED
  BY <1>2, <1>3

LEMMA CallbackThrowsIInv ==
    ASSUME IInv, NEW c \in Call, CallbackThrows(c) PROVE IInv'
<1> USE DEF IInv
<1>1. ~OwnsContext(c)
  BY DEF CallbackThrows, LockInv, OwnsContext
<1>2. UNCHANGED <<store, lockQueue, activeContext>>
  BY <1>1 DEF CallbackThrows, RollBack
<1>3. TypeOK'
  BY <1>2, BoundsAssumption DEF CallbackThrows, TypeOK, Phase
<1>4. LockInv'
  BY <1>1, <1>2 DEF CallbackThrows, LockInv, TypeOK, Owner, HoldsLock, OwnsContext
<1> QED
  BY <1>3, <1>4

LEMMA OutsideWriteIInv ==
    ASSUME IInv, NEW o \in Outsider, NEW k \in Key, OutsideWrite(o, k)
    PROVE  IInv'
<1> USE DEF IInv, OutsideWrite
<1>1. TypeOK'
  BY DEF TypeOK, Writer
<1>2. LockInv'
  BY DEF LockInv, Owner, HoldsLock, OwnsContext
<1> QED
  BY <1>1, <1>2

LEMMA NextIInv == IInv /\ [Next]_vars => IInv'
<1> SUFFICES ASSUME IInv, [Next]_vars PROVE IInv'
  OBVIOUS
<1>1. ASSUME UNCHANGED vars PROVE IInv'
  BY <1>1 DEF vars, IInv, TypeOK, LockInv, Owner, HoldsLock, OwnsContext
<1>2. ASSUME NEW c \in Call, Request(c) \/ Step(c) PROVE IInv'
  BY <1>2, RequestIInv, EnterIInv, EnterFailsIInv, NestIInv, WriteIInv,
     RunAfterCommitIInv, CommitNestedIInv, CommitTopIInv, RunCallbackIInv,
     FinishIInv, ThrowIInv, CallbackThrowsIInv
     DEF Step
<1>3. ASSUME NEW o \in Outsider, NEW k \in Key, OutsideWrite(o, k) PROVE IInv'
  BY <1>3, OutsideWriteIInv
<1>4. ASSUME AllReturned PROVE IInv'
  BY <1>1, <1>4 DEF AllReturned
<1> QED
  BY <1>1, <1>2, <1>3, <1>4 DEF Next

-----------------------------------------------------------------------------
(* The manager's state keeps its type whatever the calls do: in particular *)
(* its depth is never negative and never exceeds the nesting of its owner. *)
THEOREM TypeCorrect == Spec => []TypeOK
<1>1. Spec => []IInv
  BY InitIInv, NextIInv, PTL DEF Spec
<1> QED
  BY <1>1, PTL DEF IInv

(* No two calls are ever between the grant and the release of the lock,    *)
(* also with throwing callbacks, early releases and non-transactional      *)
(* writers about.                                                          *)
THEOREM MutualExclusionHolds == Spec => []MutualExclusion
<1>1. IInv => MutualExclusion
  BY DEF IInv, LockInv, Owner, HoldsLock, MutualExclusion, InTransaction
<1>2. Spec => []IInv
  BY InitIInv, NextIInv, PTL DEF Spec
<1> QED
  BY <1>1, <1>2, PTL

-----------------------------------------------------------------------------
(* Why a failed call leaves no trace: a call's writes are in a repository  *)
(* only once it committed, or while it runs and its open context has a     *)
(* snapshot of that repository; and a snapshot differs from what the       *)
(* repository holds now by the owner's own writes (and outsiders') alone.  *)
HasCommitted(c) == phase[c] \in {"afterCommit", "committed", "stuck"}

WritesInv ==
    \A k \in Key, c \in Call : c \in store[k] =>
        \/ HasCommitted(c)
        \/ phase[c] = "running" /\ k \in DOMAIN activeContext.snapshots

SnapshotInv ==
    activeContext.depth > 0 =>
        /\ activeContext.id # NoCall
        /\ \A k \in DOMAIN activeContext.snapshots, c \in Call :
             /\ c \in activeContext.snapshots[k] => HasCommitted(c)
             /\ c # activeContext.id =>
                  (c \in activeContext.snapshots[k] <=> c \in store[k])

TraceInv ==
    /\ WritesInv
    /\ SnapshotInv
    /\ \A c \in published : HasCommitted(c)

(* No call goes back on a commit.                                          *)
LEMMA CommittedStays ==
    ASSUME IInv, [Next]_vars, NEW c \in Call, HasCommitted(c)
    PROVE  HasCommitted(c)'
<1>1. CASE UNCHANGED vars
  BY <1>1 DEF vars, HasCommitted
<1>2. ASSUME NEW d \in Call, Request(d) \/ Step(d) PROVE HasCommitted(c)'
  BY <1>2
     DEF IInv, TypeOK, HasCommitted, Request, Step, Enter, EnterFails, Nest,
         Working, Write, RunAfterCommit, CommitNested, CommitTop, RunCallback,
         Finish, Throw, CallbackThrows
<1>3. ASSUME NEW o \in Outsider, NEW k \in Key, OutsideWrite(o, k)
      PROVE  HasCommitted(c)'
  BY <1>3 DEF OutsideWrite, HasCommitted
<1> QED
  BY <1>1, <1>2, <1>3 DEF Next, AllReturned

(* While a waiting call is at the head of the queue nobody is in a         *)
(* transaction and no context is open.                                     *)
LEMMA GrantedMeansFree ==
    ASSUME IInv, TraceInv, NEW c \in Call, phase[c] = "waiting", HoldsLock(c)
    PROVE  /\ ~(activeContext.depth > 0)
           /\ \A d \in Call : ~InTransaction(d)
<1>1. \A d \in Call : ~InTransaction(d)
  BY DEF IInv, LockInv, Owner, HoldsLock, InTransaction
<1>2. ASSUME activeContext.depth > 0 PROVE FALSE
  <2>1. activeContext.id \in Call
    BY <1>2 DEF TraceInv, SnapshotInv, IInv, TypeOK, Context
  <2> QED
    BY <1>1, <1>2, <2>1 DEF IInv, LockInv, OwnsContext, InTransaction
<1> QED
  BY <1>1, <1>2

(* The owner of an open context is running.                                *)
LEMMA OwnerRuns ==
    ASSUME IInv, TraceInv, activeContext.depth > 0
    PROVE  /\ activeContext.id \in Call
           /\ phase[activeContext.id] = "running"
<1>1. activeContext.id \in Call
  BY DEF TraceInv, SnapshotInv, IInv, TypeOK, Context
<1> QED
  BY <1>1 DEF IInv, LockInv, OwnsContext

(* What a running call can rely on.                                        *)
LEMMA RunningOwns ==
    ASSUME IInv, NEW c \in Call, phase[c] = "running"
    PROVE  /\ OwnsContext(c)
           /\ activeContext.depth = frames[c]
           /\ frames[c] > 0
           /\ \A d \in Call : InTransaction(d) => d = c
  BY DEF IInv, LockInv, Owner, HoldsLock, OwnsContext, InTransaction, TypeOK

(* Rolling back an open context leaves only committed calls' writes.       *)
LEMMA RestoredIsCommitted ==
    ASSUME IInv, TraceInv, activeContext.depth > 0, NEW k \in Key,
           NEW c \in Call, c \in Restored[k]
    PROVE  HasCommitted(c)
<1>1. CASE k \in DOMAIN activeContext.snapshots
  BY <1>1 DEF TraceInv, SnapshotInv, Restored
<1>2. CASE k \notin DOMAIN activeContext.snapshots
  BY <1>2 DEF TraceInv, WritesInv, Restored
<1> QED
  BY <1>1, <1>2

LEMMA InitTraceInv == Init => TraceInv
  BY DEF Init, TraceInv, WritesInv, SnapshotInv, NullContext

LEMMA RequestTraceInv ==
    ASSUME IInv, TraceInv, NEW c \in Call, Request(c) PROVE TraceInv'
  BY DEF Request, IInv, TypeOK, TraceInv, WritesInv, SnapshotInv, HasCommitted

(* Opening a context snapshots what committed calls wrote.                 *)
LEMMA EnterTraceInv ==
    ASSUME IInv, TraceInv, NEW c \in Call, NEW ps \in SUBSET Key, Enter(c, ps)
    PROVE  TraceInv'
<1>1. /\ phase' = [phase EXCEPT ![c] = "running"]
      /\ UNCHANGED <<store, published>>
      /\ phase[c] = "waiting"
  BY DEF Enter
<1>2. /\ activeContext'.id = c
      /\ DOMAIN activeContext'.snapshots = ps
      /\ \A k \in ps : activeContext'.snapshots[k] = store[k]
  BY DEF Enter
<1>3. \A d \in Call : phase[d] # "running"
  BY GrantedMeansFree DEF Enter, InTransaction
<1>4. \A d \in Call : HasCommitted(d) <=> HasCommitted(d)'
  BY <1>1 DEF IInv, TypeOK, HasCommitted
<1>5. \A k \in Key, d \in Call : d \in store[k] => HasCommitted(d)
  BY <1>3 DEF TraceInv, WritesInv
<1>6. WritesInv'
  BY <1>1, <1>4, <1>5 DEF WritesInv
<1>7. SnapshotInv'
  <2>1. c # NoCall
    BY NamesAssumption
  <2> QED
    BY <1>1, <1>2, <1>4, <1>5, <2>1 DEF SnapshotInv
<1>8. \A d \in published' : HasCommitted(d)'
  BY <1>1, <1>4 DEF IInv, TypeOK, TraceInv
<1> QED
  BY <1>6, <1>7, <1>8 DEF TraceInv

LEMMA EnterFailsTraceInv ==
    ASSUME IInv, TraceInv, NEW c \in Call, EnterFails(c) PROVE TraceInv'
  BY DEF EnterFails, IInv, TypeOK, TraceInv, WritesInv, SnapshotInv, HasCommitted

(* Joining a context snapshots only repositories the owner has not written.*)
LEMMA NestTraceInv ==
    ASSUME IInv, TraceInv, NEW c \in Call, NEW ps \in SUBSET Key, Nest(c, ps)
    PROVE  TraceInv'
<1> DEFINE s == activeContext.snapshots
           t == activeContext'.snapshots
<1>1. UNCHANGED <<phase, store, published>>
  BY DEF Nest
<1>2. /\ OwnsContext(c)
      /\ \A d \in Call : phase[d] = "running" => d = c
  BY RunningOwns DEF Nest, Working, InTransaction
<1>3. activeContext.id = c /\ activeContext.depth > 0 /\ c # NoCall
  BY <1>2, NamesAssumption DEF OwnsContext
<1>4. /\ activeContext'.id = activeContext.id
      /\ DOMAIN t = DOMAIN s \union ps
      /\ \A k \in DOMAIN t : t[k] = IF k \in DOMAIN s THEN s[k] ELSE store[k]
  BY DEF Nest, IInv, TypeOK, Context
<1>5. DOMAIN s \subseteq Key
  BY SnapshotsElim DEF IInv, TypeOK, Context
<1>6. WritesInv'
  BY <1>1, <1>4 DEF TraceInv, WritesInv, HasCommitted
<1>7. SnapshotInv'
  <2>1. ASSUME NEW k \in DOMAIN t, NEW d \in Call
        PROVE  /\ d \in t[k] => HasCommitted(d)
               /\ d # c => (d \in t[k] <=> d \in store[k])
    <3>1. CASE k \in DOMAIN s
      BY <1>3, <1>4, <2>1, <3>1 DEF TraceInv, SnapshotInv
    <3>2. CASE k \notin DOMAIN s
      BY <1>4, <1>5, <2>1, <3>2 DEF TraceInv, WritesInv
    <3> QED
      BY <3>1, <3>2
  <2> QED
    BY <1>1, <1>3, <1>4, <2>1 DEF SnapshotInv, HasCommitted
<1>8. \A d \in published' : HasCommitted(d)'
  BY <1>1 DEF TraceInv, HasCommitted
<1> QED
  BY <1>6, <1>7, <1>8 DEF TraceInv

LEMMA WriteTraceInv ==
    ASSUME IInv, TraceInv, NEW c \in Call, NEW k \in Key, Write(c, k)
    PROVE  TraceInv'
  BY RunningOwns
     DEF Write, Working, OwnsContext, IInv, TypeOK, TraceInv, WritesInv,
         SnapshotInv, HasCommitted

LEMMA RunAfterCommitTraceInv ==
    ASSUME IInv, TraceInv, NEW c \in Call, RunAfterCommit(c) PROVE TraceInv'
  BY DEF RunAfterCommit, Working, OwnsContext, IInv, TypeOK, Context, TraceInv,
         WritesInv, SnapshotInv, HasCommitted

LEMMA CommitNestedTraceInv ==
    ASSUME IInv, TraceInv, NEW c \in Call, CommitNested(c) PROVE TraceInv'
  BY DEF CommitNested, OwnsContext, IInv, TypeOK, Context, TraceInv,
         WritesInv, SnapshotInv, HasCommitted

LEMMA CommitTopTraceInv ==
    ASSUME IInv, TraceInv, NEW c \in Call, CommitTop(c) PROVE TraceInv'
  BY DEF CommitTop, OwnsContext, IInv, TypeOK, Context, TraceInv,
         WritesInv, SnapshotInv, HasCommitted

LEMMA RunCallbackTraceInv ==
    ASSUME IInv, TraceInv, NEW c \in Call, RunCallback(c) PROVE TraceInv'
  BY DEF RunCallback, IInv, TypeOK, Context, TraceInv, WritesInv, SnapshotInv,
         HasCommitted

LEMMA FinishTraceInv ==
    ASSUME IInv, TraceInv, NEW c \in Call, Finish(c) PROVE TraceInv'
<1>1. \A d \in Call : phase[d] # "running"
  BY DEF Finish, IInv, LockInv, Owner, HoldsLock
<1> QED
  BY <1>1
     DEF Finish, ReleaseContext, NullContext, IInv, TypeOK, TraceInv, WritesInv,
         SnapshotInv, HasCommitted

(* An error in the call that owns the context takes its writes along; in   *)
(* the outer frames of a call rolled back already there is none to take.   *)
LEMMA ThrowTraceInv ==
    ASSUME IInv, TraceInv, NEW c \in Call, Throw(c) PROVE TraceInv'
<1>1. \A d \in Call : HasCommitted(d) => HasCommitted(d)'
  BY DEF Throw, IInv, TypeOK, HasCommitted
<1>2. \A d \in published' : HasCommitted(d)'
  BY <1>1 DEF Throw, IInv, TypeOK, TraceInv
<1>3. CASE OwnsContext(c)
  <2>1. store' = Restored /\ activeContext' = NullContext
    BY <1>3 DEF Throw, RollBack, ReleaseContext
  <2>2. \A k \in Key, d \in Call : d \in store'[k] => HasCommitted(d)
    BY <1>3, <2>1, RestoredIsCommitted DEF OwnsContext
  <2>3. WritesInv'
    BY <1>1, <2>2 DEF WritesInv
  <2>4. SnapshotInv'
    BY <2>1 DEF SnapshotInv, NullContext
  <2> QED
    BY <1>2, <2>3, <2>4 DEF TraceInv
<1>4. CASE ~OwnsContext(c)
  <2>1. UNCHANGED <<store, activeContext>>
    BY <1>4 DEF Throw, RollBack
  <2>2. phase[c] # "running"
    BY <1>4, RunningOwns
  <2>3. WritesInv'
    BY <1>1, <2>1, <2>2 DEF Throw, IInv, TypeOK, TraceInv, WritesInv
  <2>4. SnapshotInv'
    BY <1>1, <2>1 DEF TraceInv, SnapshotInv
  <2> QED
    BY <1>2, <2>3, <2>4 DEF TraceInv
<1> QED
  BY <1>3, <1>4

LEMMA CallbackThrowsTraceInv ==
    ASSUME IInv, TraceInv, NEW c \in Call, CallbackThrows(c) PROVE TraceInv'
<1>1. ~OwnsContext(c)
  BY DEF CallbackThrows, IInv, LockInv
<1>2. UNCHANGED <<store, activeContext>>
  BY <1>1 DEF CallbackThrows, RollBack
<1> QED
  BY <1>2
     DEF CallbackThrows, IInv, TypeOK, TraceInv, WritesInv, SnapshotInv,
         HasCommitted

(* An outsider is no call.                                                 *)
LEMMA OutsideWriteTraceInv ==
    ASSUME IInv, TraceInv, NEW o \in Outsider, NEW k \in Key,
           OutsideWrite(o, k)
    PROVE  TraceInv'
<1>1. o \notin Call
  BY NamesAssumption
<1>2. /\ UNCHANGED <<phase, activeContext, published>>
      /\ \A j \in Key, c \in Call : c \in store'[j] <=> c \in store[j]
  BY <1>1 DEF OutsideWrite, IInv, TypeOK
<1>3. DOMAIN activeContext.snapshots \subseteq Key
  BY SnapshotsElim DEF IInv, TypeOK, Context
<1> QED
  BY <1>2, <1>3 DEF TraceInv, WritesInv, SnapshotInv, HasCommitted

LEMMA NextTraceInv == IInv /\ TraceInv /\ [Next]_vars => TraceInv'
<1> SUFFICES ASSUME IInv, TraceInv, [Next]_vars PROVE TraceInv'
  OBVIOUS
<1>1. ASSUME UNCHANGED vars PROVE TraceInv'
  BY <1>1 DEF vars, TraceInv, WritesInv, SnapshotInv, HasCommitted
<1>2. ASSUME NEW c \in Call, Request(c) \/ Step(c) PROVE TraceInv'
  BY <1>2, RequestTraceInv, EnterTraceInv, EnterFailsTraceInv, NestTraceInv,
     WriteTraceInv, RunAfterCommitTraceInv, CommitNestedTraceInv,
     CommitTopTraceInv, RunCallbackTraceInv, FinishTraceInv, ThrowTraceInv,
     CallbackThrowsTraceInv
     DEF Step
<1>3. ASSUME NEW o \in Outsider, NEW k \in Key, OutsideWrite(o, k)
      PROVE  TraceInv'
  BY <1>3, OutsideWriteTraceInv
<1>4. ASSUME AllReturned PROVE TraceInv'
  BY <1>1, <1>4 DEF AllReturned
<1> QED
  BY <1>1, <1>2, <1>3, <1>4 DEF Next

LEMMA Invariance == Spec => [](IInv /\ TraceInv)
  BY InitIInv, InitTraceInv, NextIInv, NextTraceInv, PTL DEF Spec

-----------------------------------------------------------------------------
(* A call that failed, or whose error is still travelling up its frames,   *)
(* has no write left in any repository, whichever frame registered the     *)
(* repository, whichever threw, and whoever else wrote meanwhile.          *)
THEOREM NoTraceHolds == Spec => []FailedCallLeavesNoTrace
<1>1. TraceInv => FailedCallLeavesNoTrace
  BY DEF TraceInv, WritesInv, HasCommitted, FailedCallLeavesNoTrace
<1> QED
  BY <1>1, Invariance, PTL

(* An event reaches its subscribers only for a call whose writes are       *)
(* committed and will never be rolled back.                                *)
THEOREM PublishedHolds == Spec => []PublishedIsCommitted
<1>1. TraceInv => PublishedIsCommitted
  BY DEF TraceInv, HasCommitted, PublishedIsCommitted
<1> QED
  BY <1>1, Invariance, PTL

(* An acknowledged write made outside any transaction is lost only in the  *)
(* step in which the running owner of a context that had snapshot the      *)
(* repository rolls back.                                                  *)
THEOREM OutsideWritesLostOnlyToRollbackHolds ==
    Spec => OutsideWritesLostOnlyToRollback
<1> DEFINE LostToRollback ==
      \A w \in acknowledged :
        w[1] \in store[w[2]] /\ w[1] \notin store'[w[2]]
          => \E c \in Call : /\ OwnsContext(c)
                             /\ w[2] \in DOMAIN activeContext.snapshots
                             /\ phase[c] = "running"
                             /\ phase'[c] \in {"unwinding", "failed"}
<1>1. ASSUME IInv, [Next]_vars PROVE [LostToRollback]_vars
  <2> SUFFICES ASSUME NEW w \in acknowledged,
                      w[1] \in store[w[2]], w[1] \notin store'[w[2]]
               PROVE  \E c \in Call : /\ OwnsContext(c)
                                      /\ w[2] \in DOMAIN activeContext.snapshots
                                      /\ phase[c] = "running"
                                      /\ phase'[c] \in {"unwinding", "failed"}
    OBVIOUS
  <2>1. w[2] \in Key
    BY <1>1 DEF IInv, TypeOK
  <2>2. CASE UNCHANGED store
    BY <2>2
  <2>3. ASSUME NEW c \in Call, NEW k \in Key, Write(c, k) PROVE FALSE
    BY <1>1, <2>1, <2>3 DEF Write, IInv, TypeOK
  <2>4. ASSUME NEW o \in Outsider, NEW k \in Key, OutsideWrite(o, k)
        PROVE  FALSE
    BY <1>1, <2>1, <2>4 DEF OutsideWrite, IInv, TypeOK
  <2>5. ASSUME NEW c \in Call, CallbackThrows(c) PROVE FALSE
    BY <1>1, <2>5 DEF CallbackThrows, RollBack, IInv, LockInv
  <2>6. ASSUME NEW c \in Call, Throw(c)
        PROVE  /\ OwnsContext(c)
               /\ w[2] \in DOMAIN activeContext.snapshots
               /\ phase[c] = "running"
               /\ phase'[c] \in {"unwinding", "failed"}
    <3>1. OwnsContext(c) /\ store' = Restored
      BY <2>6 DEF Throw, RollBack
    <3>2. w[2] \in DOMAIN activeContext.snapshots
      BY <2>1, <3>1 DEF Restored
    <3>3. phase[c] = "running"
      BY <1>1, <3>1 DEF IInv, LockInv
    <3> QED
      BY <1>1, <2>6, <3>1, <3>2, <3>3 DEF Throw, IInv, TypeOK
  <2>7. \/ UNCHANGED store
        \/ \E c \in Call, k \in Key : Write(c, k)
        \/ \E o \in Outsider, k \in Key : OutsideWrite(o, k)
        \/ \E c \in Call : CallbackThrows(c) \/ Throw(c)
    BY <1>1 DEF Next, vars, Step, AllReturned, Request, Enter, EnterFails, Nest,
       RunAfterCommit, CommitNested, CommitTop, RunCallback, Finish
  <2> QED
    BY <2>2, <2>3, <2>4, <2>5, <2>6, <2>7
<1> HIDE DEF LostToRollback
<1>2. Spec => [][LostToRollback]_vars
  BY <1>1, Invariance, PTL DEF Spec
<1> QED
  BY <1>2 DEF LostToRollback, OutsideWritesLostOnlyToRollback

-----------------------------------------------------------------------------
(* The refinement.  The abstract repositories hold what would be left were *)
(* the open context rolled back now; so only a commit of the top level     *)
(* changes them, and adds to each the writes of the call that commits.     *)
LEMMA OutcomeOf ==
    ASSUME NEW c \in Call
    PROVE  Outcome[c] = IF HasCommitted(c) THEN "committed"
                        ELSE IF phase[c] \in {"unwinding", "failed"}
                             THEN "failed" ELSE "pending"
  BY DEF Outcome, HasCommitted

(* A step that neither settles a call nor changes what a rollback would    *)
(* leave is no step of the abstract store.                                 *)
Unseen == Outcome' = Outcome /\ VisibleStore' = VisibleStore

LEMMA SameOutcome ==
    ASSUME TypeOK, NEW c \in Call, NEW p,
           phase' = [phase EXCEPT ![c] = p],
           \/ {p, phase[c]} \subseteq {"idle", "waiting", "running"}
           \/ {p, phase[c]} \subseteq {"afterCommit", "committed", "stuck"}
           \/ {p, phase[c]} \subseteq {"unwinding", "failed"}
    PROVE  Outcome' = Outcome
<1>1. \A d \in Call : Outcome'[d] = Outcome[d]
  BY DEF TypeOK, Outcome
<1> QED
  BY <1>1 DEF Outcome

LEMMA Settled ==
    ASSUME TypeOK, NEW c \in Call, NEW p, NEW o,
           phase' = [phase EXCEPT ![c] = p],
           \/ o = "committed" /\ p \in {"afterCommit", "committed", "stuck"}
           \/ o = "failed" /\ p \in {"unwinding", "failed"}
    PROVE  Outcome' = [Outcome EXCEPT ![c] = o]
<1>1. \A d \in Call : Outcome'[d] = IF d = c THEN o ELSE Outcome[d]
  BY DEF TypeOK, Outcome
<1> QED
  BY <1>1 DEF Outcome

(* What VisibleStore is with a context open, and with none.                *)
LEMMA VisibleOpen ==
    ASSUME activeContext.depth > 0, NEW k \in Key
    PROVE  VisibleStore[k] =
             Call \intersect (IF k \in DOMAIN activeContext.snapshots
                             THEN activeContext.snapshots[k] ELSE store[k])
  BY DEF VisibleStore, Restored

LEMMA VisibleClosed ==
    ASSUME ~(activeContext.depth > 0), NEW k \in Key
    PROVE  VisibleStore[k] = Call \intersect store[k]
  BY DEF VisibleStore

(* Two states show the same repositories when they do so key by key.       *)
LEMMA VisibleByKey ==
    ASSUME \A k \in Key : VisibleStore'[k] = VisibleStore[k]
    PROVE  VisibleStore' = VisibleStore
  BY DEF VisibleStore

LEMMA RequestRefines ==
    ASSUME IInv, NEW c \in Call, Request(c) PROVE Unseen
<1>1. Outcome' = Outcome
  BY SameOutcome, {"waiting", "idle"} \subseteq {"idle", "waiting", "running"}
     DEF Request, IInv
<1>2. VisibleStore' = VisibleStore
  BY DEF Request, VisibleStore, Restored
<1> QED
  BY <1>1, <1>2 DEF Unseen

LEMMA EnterRefines ==
    ASSUME IInv, TraceInv, NEW c \in Call, NEW ps \in SUBSET Key, Enter(c, ps)
    PROVE  Unseen
<1>1. Outcome' = Outcome
  BY SameOutcome, {"running", "waiting"} \subseteq {"idle", "waiting", "running"}
     DEF Enter, IInv
<1>2. ASSUME NEW k \in Key PROVE VisibleStore'[k] = VisibleStore[k]
  <2>1. VisibleStore[k] = Call \intersect store[k]
    BY VisibleClosed, GrantedMeansFree DEF Enter
  <2>2. VisibleStore'[k] = Call \intersect store[k]
    BY DEF Enter, VisibleStore, Restored
  <2> QED
    BY <2>1, <2>2
<1> QED
  BY <1>1, <1>2, VisibleByKey DEF Unseen

LEMMA EnterFailsRefines ==
    ASSUME IInv, NEW c \in Call, EnterFails(c) PROVE Atomic!Fail(c)
<1>1. Outcome[c] = "pending"
  BY OutcomeOf DEF EnterFails, HasCommitted
<1>2. Outcome' = [Outcome EXCEPT ![c] = "failed"]
  BY Settled DEF EnterFails, IInv
<1>3. VisibleStore' = VisibleStore
  BY DEF EnterFails, VisibleStore, Restored
<1> QED
  BY <1>1, <1>2, <1>3 DEF Atomic!Fail

LEMMA NestRefines ==
    ASSUME IInv, NEW c \in Call, NEW ps \in SUBSET Key, Nest(c, ps)
    PROVE  Unseen
<1>1. Outcome' = Outcome
  BY DEF Nest, Outcome
<1>2. /\ activeContext.depth > 0
      /\ activeContext'.depth = activeContext.depth + 1
      /\ activeContext.depth \in Nat
      /\ DOMAIN activeContext'.snapshots = DOMAIN activeContext.snapshots \union ps
      /\ \A k \in DOMAIN activeContext'.snapshots :
           activeContext'.snapshots[k] =
             IF k \in DOMAIN activeContext.snapshots
             THEN activeContext.snapshots[k] ELSE store[k]
      /\ store' = store
  BY BoundsAssumption DEF Nest, Working, OwnsContext, IInv, TypeOK, Context
<1>3. ASSUME NEW k \in Key PROVE VisibleStore'[k] = VisibleStore[k]
  BY <1>2 DEF VisibleStore, Restored
<1> QED
  BY <1>1, <1>3, VisibleByKey DEF Unseen

LEMMA WriteRefines ==
    ASSUME IInv, NEW c \in Call, NEW k \in Key, Write(c, k) PROVE Unseen
<1>1. Outcome' = Outcome
  BY DEF Write, Outcome
<1>2. ASSUME NEW j \in Key PROVE VisibleStore'[j] = VisibleStore[j]
  BY DEF Write, Working, OwnsContext, IInv, TypeOK, VisibleStore, Restored
<1> QED
  BY <1>1, <1>2, VisibleByKey DEF Unseen

LEMMA RunAfterCommitRefines ==
    ASSUME IInv, NEW c \in Call, RunAfterCommit(c) PROVE Unseen
<1>1. Outcome' = Outcome
  BY DEF RunAfterCommit, Outcome
<1>2. ASSUME NEW k \in Key PROVE VisibleStore'[k] = VisibleStore[k]
  BY DEF RunAfterCommit, IInv, TypeOK, Context, VisibleStore, Restored
<1> QED
  BY <1>1, <1>2, VisibleByKey DEF Unseen

LEMMA CommitNestedRefines ==
    ASSUME IInv, NEW c \in Call, CommitNested(c) PROVE Unseen
<1>1. Outcome' = Outcome
  BY DEF CommitNested, Outcome
<1>2. activeContext.depth > 0 /\ activeContext'.depth > 0
  BY BoundsAssumption DEF CommitNested, IInv, TypeOK, Context
<1>3. ASSUME NEW k \in Key PROVE VisibleStore'[k] = VisibleStore[k]
  BY <1>2 DEF CommitNested, IInv, TypeOK, Context, VisibleStore, Restored
<1> QED
  BY <1>1, <1>3, VisibleByKey DEF Unseen

(* The commit point: everything c wrote, in whichever repositories, and    *)
(* nothing of anybody else, becomes visible at once.                       *)
LEMMA CommitTopRefines ==
    ASSUME IInv, TraceInv, NEW c \in Call, CommitTop(c)
    PROVE  \E keys \in SUBSET Key : Atomic!Commit(c, keys)
<1> DEFINE keys == {k \in Key : c \in store[k]}
<1>1. Outcome[c] = "pending"
  BY OutcomeOf DEF CommitTop, HasCommitted
<1>2. Outcome' = [Outcome EXCEPT ![c] = "committed"]
  BY Settled DEF CommitTop, IInv
<1>3. /\ activeContext.id = c
      /\ activeContext.depth > 0
      /\ activeContext'.depth = 0
      /\ store' = store
      /\ phase[c] = "running"
      /\ ~HasCommitted(c)
  BY DEF CommitTop, OwnsContext, IInv, TypeOK, Context, HasCommitted
<1>4. ASSUME NEW k \in Key, NEW d \in Call
      PROVE  d \in store[k] <=> d \in VisibleStore[k] \/ (d = c /\ k \in keys)
  BY <1>3, VisibleOpen DEF TraceInv, WritesInv, SnapshotInv
<1>5. \A k \in Key : VisibleStore[k] \subseteq Call
  BY DEF VisibleStore
<1>6. \A k \in Key : VisibleStore'[k] = Call \intersect store[k]
  BY <1>3 DEF VisibleStore
<1>7. \A k \in Key : VisibleStore'[k] = IF k \in keys
                                       THEN VisibleStore[k] \union {c}
                                       ELSE VisibleStore[k]
  BY <1>4, <1>5, <1>6
<1>8. VisibleStore' = [k \in Key |-> IF k \in keys
                                     THEN VisibleStore[k] \union {c}
                                     ELSE VisibleStore[k]]
  BY <1>7 DEF VisibleStore
<1> QED
  BY <1>1, <1>2, <1>8 DEF Atomic!Commit

LEMMA RunCallbackRefines ==
    ASSUME IInv, NEW c \in Call, RunCallback(c) PROVE Unseen
<1>1. Outcome' = Outcome
  BY DEF RunCallback, Outcome
<1>2. ASSUME NEW k \in Key PROVE VisibleStore'[k] = VisibleStore[k]
  BY DEF RunCallback, IInv, TypeOK, Context, VisibleStore, Restored
<1> QED
  BY <1>1, <1>2, VisibleByKey DEF Unseen

LEMMA FinishRefines ==
    ASSUME IInv, NEW c \in Call, Finish(c) PROVE Unseen
<1>1. Outcome' = Outcome
  BY SameOutcome, {"committed", "afterCommit"} \subseteq
                  {"afterCommit", "committed", "stuck"} DEF Finish, IInv
<1>2. /\ ~(activeContext.depth > 0)
      /\ ~(activeContext'.depth > 0)
      /\ store' = store
  BY DEF Finish, ReleaseContext, NullContext, IInv, LockInv
<1>3. ASSUME NEW k \in Key PROVE VisibleStore'[k] = VisibleStore[k]
  BY <1>2 DEF VisibleStore
<1> QED
  BY <1>1, <1>3, VisibleByKey DEF Unseen

(* The first rollback of a call fails it and is seen by nobody else; the   *)
(* rollbacks of its outer frames are not seen at all.                      *)
LEMMA ThrowRefines ==
    ASSUME IInv, TraceInv, NEW c \in Call, Throw(c)
    PROVE  Atomic!Fail(c) \/ Unseen
<1> DEFINE p == IF frames[c] = 1 THEN "failed" ELSE "unwinding"
<1>1. phase' = [phase EXCEPT ![c] = p] /\ p \in {"unwinding", "failed"}
  BY DEF Throw
<1>2. CASE OwnsContext(c)
  <2>1. phase[c] = "running" /\ activeContext.depth > 0
    BY <1>2 DEF IInv, LockInv, OwnsContext
  <2>2. store' = Restored /\ activeContext' = NullContext
    BY <1>2 DEF Throw, RollBack, ReleaseContext
  <2>3. Outcome[c] = "pending"
    BY <2>1, OutcomeOf DEF HasCommitted
  <2>4. Outcome' = [Outcome EXCEPT ![c] = "failed"]
    BY <1>1, Settled DEF IInv
  <2>5. VisibleStore' = VisibleStore
    BY <2>1, <2>2 DEF VisibleStore, NullContext
  <2> QED
    BY <2>3, <2>4, <2>5 DEF Atomic!Fail
<1>3. CASE ~OwnsContext(c)
  <2>1. UNCHANGED <<store, activeContext>>
    BY <1>3 DEF Throw, RollBack
  <2>2. phase[c] = "unwinding"
    BY <1>3, RunningOwns DEF Throw
  <2>3. Outcome' = Outcome
    BY <1>1, <2>2, SameOutcome DEF IInv
  <2>4. VisibleStore' = VisibleStore
    BY <2>1 DEF VisibleStore, Restored
  <2> QED
    BY <2>3, <2>4 DEF Unseen
<1> QED
  BY <1>2, <1>3

LEMMA CallbackThrowsRefines ==
    ASSUME IInv, NEW c \in Call, CallbackThrows(c) PROVE Unseen
<1>1. Outcome' = Outcome
  BY SameOutcome, {"stuck", "afterCommit"} \subseteq
                  {"afterCommit", "committed", "stuck"} DEF CallbackThrows, IInv
<1>2. UNCHANGED <<store, activeContext>>
  BY DEF CallbackThrows, RollBack, IInv, LockInv
<1>3. VisibleStore' = VisibleStore
  BY <1>2 DEF VisibleStore, Restored
<1> QED
  BY <1>1, <1>3 DEF Unseen

LEMMA OutsideWriteRefines ==
    ASSUME IInv, NEW o \in Outsider, NEW k \in Key, OutsideWrite(o, k)
    PROVE  Unseen
<1>1. Outcome' = Outcome
  BY DEF OutsideWrite, Outcome
<1>2. o \notin Call
  BY NamesAssumption
<1>3. ASSUME NEW j \in Key PROVE VisibleStore'[j] = VisibleStore[j]
  BY <1>2 DEF OutsideWrite, IInv, TypeOK, VisibleStore, Restored
<1> QED
  BY <1>1, <1>3, VisibleByKey DEF Unseen

LEMMA NextRefines == IInv /\ TraceInv /\ [Next]_vars => [Atomic!Next]_(Atomic!vars)
<1> SUFFICES ASSUME IInv, TraceInv, [Next]_vars
             PROVE  Unseen \/ Atomic!Next
  BY DEF Unseen, Atomic!vars
<1>1. ASSUME UNCHANGED vars PROVE Unseen
  BY <1>1 DEF vars, Unseen, Outcome, VisibleStore, Restored
<1>2. ASSUME NEW c \in Call, Request(c) \/ Step(c)
      PROVE  \/ Unseen
             \/ Atomic!Fail(c)
             \/ \E keys \in SUBSET Key : Atomic!Commit(c, keys)
  BY <1>2, RequestRefines, EnterRefines, EnterFailsRefines, NestRefines,
     WriteRefines, RunAfterCommitRefines, CommitNestedRefines,
     CommitTopRefines, RunCallbackRefines, FinishRefines, ThrowRefines,
     CallbackThrowsRefines
     DEF Step
<1>3. ASSUME NEW o \in Outsider, NEW k \in Key, OutsideWrite(o, k)
      PROVE  Unseen
  BY <1>3, OutsideWriteRefines
<1>4. ASSUME AllReturned PROVE Unseen
  BY <1>1, <1>4 DEF AllReturned
<1> QED
  BY <1>1, <1>2, <1>3, <1>4 DEF Next, Atomic!Next

(* The manager implements the atomic store: whatever is nested, thrown,    *)
(* rolled back or written from outside, every call takes effect in one     *)
(* indivisible step over all its repositories, or not at all.              *)
THEOREM Implementation == Spec => ImplementsAtomicStore
<1>1. Init => Atomic!Init
  BY DEF Init, NullContext, Atomic!Init, VisibleStore, Outcome
<1> QED
  BY <1>1, NextRefines, Invariance, PTL DEF Spec, ImplementsAtomicStore, Atomic!Spec

=============================================================================
