------------------------------- MODULE Ledger -------------------------------
(***************************************************************************)
(* LedgerService with its two repositories: postings of events and of the  *)
(* user's journals (manual entries, adjustments, reversals), the request   *)
(* keys they are bound to, and the closing and reopening of periods.       *)
(*                                                                         *)
(* A step is what runs between two awaits.  A posting runs in a            *)
(* transaction of FinancialTransactionManager, of which only what can be   *)
(* seen here is kept: the lock, the snapshot of the three participants     *)
(* taken when it is granted, and a rollback that writes the snapshot back  *)
(* and hands the lock on.  What runs outside is as important: a journal's  *)
(* period is checked before the lock, its key is bound after the commit,   *)
(* and periods are closed and reopened without any transaction.            *)
(*                                                                         *)
(* The id of an entry is a digest of its source, so an entry is named by   *)
(* its source: an event under one rule version, or a journal with its      *)
(* content.  Two calls with the same content have the same source.  Events *)
(* that do not exist and journals without a source id, rejected before     *)
(* anything happens, are left out, and so is the log.                      *)
(***************************************************************************)
EXTENDS Statements

CONSTANTS
    Call,        \* calls of postEvent and of the three journal operations
    Source,      \* what may be posted
    Request,     \* [Source -> request]: kind, content and date of each
    Key,         \* request idempotency keys
    Period,      \* months with entries or periods, as numbers
    Month,       \* months a report may start or end with
    MaxVersion,  \* bound on the lock_version of a period
    MaxApprovals,  \* bound on the approved requests to reopen a period
    None         \* stands for undefined

ASSUME LedgerAssumption ==
    /\ None \notin Source \cup Key
    /\ Period \subseteq Month /\ Month \subseteq Nat
    /\ \A s \in Source : Request[s].period \in Period
    /\ MaxVersion \in Nat /\ MaxApprovals \in Nat

VARIABLES
    entries,    \* SUBSET Source: the journal
    bindings,   \* [Key -> Source or None]: requestIdempotencyIndex
    periods,    \* [Period -> [status, version]]
    consumed,   \* [Source -> status of the ledger-posting consumer's key]
    approvals,  \* approved period_reopen requests not consumed yet
    lockQueue,  \* calls that hold or await the lock, holder first
    snapshot,   \* what the holder's rollback would restore
    phase,      \* [Call -> Phase]
    source,     \* [Call -> Source or None]: what the call is to post
    key,        \* [Call -> Key or None]
    result,     \* [Call -> Source or None]: the entry it was answered with
    late        \* history: [Period -> calls past their check at its closing]

books == <<entries, bindings, periods>>
vars == <<entries, bindings, periods, consumed, approvals, lockQueue, snapshot,
          phase, source, key, result, late>>

Phase == {"idle", "waiting", "running", "awaiting", "posting", "posted",
          "unwinding", "binding", "done", "refused"}

IsEvent(s) == Request[s].kind = "event"
PeriodOf(s) == Request[s].period

\* The lines a source posts: a reversal turns those of its original, which may
\* be a reversal itself.
LinesOf ==
    LET lines[s \in Source] ==
          LET r == Request[s]
          IN  IF r.kind = "reversal" THEN Opposite(lines[r.of])
              ELSE IF r.kind # "event" THEN r.lines
              ELSE IF Buildable(r.type, r.total, r.part) THEN EventLines(r.type, r.total, r.part)
              ELSE <<>>
    IN  [s \in Source |-> lines[s]]

Init ==
    /\ entries = {}
    /\ bindings = [k \in Key |-> None]
    /\ periods = [p \in Period |-> [status |-> "open", version |-> 0]]
    /\ consumed = [s \in Source |-> "none"]
    /\ approvals \in 0..MaxApprovals
    /\ lockQueue = <<>>
    /\ snapshot = books
    /\ phase = [c \in Call |-> "idle"]
    /\ source = [c \in Call |-> None]
    /\ key = [c \in Call |-> None]
    /\ result = [c \in Call |-> None]
    /\ late = [p \in Period |-> {}]

-----------------------------------------------------------------------------
IsClosed(p) == periods[p].status = "closed"
Bound(k) == IF k = None THEN None ELSE bindings[k]
Goto(c, l) == phase' = [phase EXCEPT ![c] = l]

Answer(c, s) ==
    /\ Goto(c, "done")
    /\ result' = [result EXCEPT ![c] = s]

HoldsLock(c) == lockQueue # <<>> /\ Head(lockQueue) = c
Release == lockQueue' = Tail(lockQueue)

\* Calls that have seen the period open and not posted yet.
PastCheck(c) ==
    \/ phase[c] = "posting"
    \/ phase[c] \in {"waiting", "running"} /\ ~IsEvent(source[c])

\* Whenever periods change, the late calls of those that become closed.
RecordLate ==
    late' = [p \in Period |->
               IF periods'[p].status = "closed" /\ ~IsClosed(p)
               THEN {c \in Call : PastCheck(c) /\ PeriodOf(source[c]) = p}
               ELSE late[p]]

RollBack ==
    /\ entries' = snapshot[1]
    /\ bindings' = snapshot[2]
    /\ periods' = snapshot[3]
    /\ RecordLate
    /\ Release

\* createTopLevelContext
Enter_fault(c) ==     \* mutant: keeps the snapshot of the call before
    /\ phase[c] = "waiting"
    /\ HoldsLock(c)
    /\ Goto(c, "running")
    /\ UNCHANGED <<books, consumed, approvals, lockQueue, snapshot, source, key, result, late>>
Enter(c) ==
    /\ phase[c] = "waiting"
    /\ HoldsLock(c)
    /\ snapshot' = books
    /\ Goto(c, "running")
    /\ UNCHANGED <<books, consumed, approvals, lockQueue, source, key, result, late>>

Ask(c, s, k) ==
    /\ phase[c] = "idle"
    /\ source' = [source EXCEPT ![c] = s]
    /\ key' = [key EXCEPT ![c] = k]
    /\ UNCHANGED <<books, consumed, approvals, snapshot, late>>

Queue(c) ==
    /\ Goto(c, "waiting")
    /\ lockQueue' = Append(lockQueue, c)
    /\ UNCHANGED result

-----------------------------------------------------------------------------
\* createManualJournalEntry looks at the key, createAdjustmentEntry and
\* createReversalEntry at the entry they refer to instead.
KeyAnswers(s, k) == Request[s].kind = "manual" /\ Bound(k) # None
RefersToNothing(s) ==
    Request[s].kind \in {"adjustment", "reversal"} /\ Request[s].of \notin entries \cup {None}

\* assertPostingAllowedPreflight, before the lock is asked for.
MayPost_fault(s) == TRUE     \* mutant: the period is not checked
MayPost(s) == ~IsClosed(PeriodOf(s))

PostJournal(c, s, k) ==
    /\ ~IsEvent(s)
    /\ Ask(c, s, k)
    /\ \/ /\ KeyAnswers(s, k)
          /\ Answer(c, Bound(k))
          /\ UNCHANGED lockQueue
       \/ /\ ~KeyAnswers(s, k)
          /\ RefersToNothing(s) \/ ~MayPost(s)
          /\ Goto(c, "refused")
          /\ UNCHANGED <<lockQueue, result>>
       \/ /\ ~KeyAnswers(s, k) /\ ~RefersToNothing(s) /\ MayPost(s)
          /\ Queue(c)

\* The transaction of post: an invalid journal is rolled back, one that is
\* there already is returned, and the commit releases the lock.
CommitJournal(c) ==
    /\ phase[c] = "running"
    /\ ~IsEvent(source[c])
    /\ \/ /\ ValidLines(LinesOf[source[c]])
          /\ entries' = entries \cup {source[c]}
          /\ Release
          /\ Goto(c, "binding")
          /\ UNCHANGED <<bindings, periods, late>>
       \/ /\ ~ValidLines(LinesOf[source[c]])
          /\ RollBack
          /\ Goto(c, "refused")
    /\ UNCHANGED <<consumed, approvals, snapshot, source, key, result>>

\* bindRequestIdempotency, which throws when the key has another entry.
Binds(k, s) == Bound(k) \in {None, s}
BindKey(k, s) == bindings' = IF k = None THEN bindings ELSE [bindings EXCEPT ![k] = s]

BindJournal(c) ==
    /\ phase[c] = "binding"
    /\ \/ /\ Binds(key[c], source[c])
          /\ BindKey(key[c], source[c])
          /\ Answer(c, source[c])
       \/ /\ ~Binds(key[c], source[c])
          /\ Goto(c, "refused")
          /\ UNCHANGED <<bindings, result>>
    /\ UNCHANGED <<entries, periods, consumed, approvals, lockQueue, snapshot, source, key, late>>

-----------------------------------------------------------------------------
PostEvent(c, s, k) ==
    /\ IsEvent(s)
    /\ Ask(c, s, k)
    /\ Queue(c)

\* A bound key is compared by event, whatever the rule version.
KeyOfAnotherEvent(c) ==
    LET b == Bound(key[c])
    IN  b # None /\ (IsEvent(b) => Request[b].event # Request[source[c]].event)

\* The call commits without having posted.
ReturnEntry(c, s) ==
    /\ Answer(c, s)
    /\ Release
    /\ UNCHANGED <<books, consumed, late>>

Refuse(c) ==
    /\ RollBack
    /\ Goto(c, "refused")
    /\ UNCHANGED <<consumed, result>>

\* consumeEventOnce begins the consumer's key of the event and, with no await
\* in between, runs the handler up to the nested transaction of post.
Consume_fault(c) ==     \* mutant: the key is completed before the work
    LET s == source[c]
    IN  \/ consumed[s] = "completed" /\ ReturnEntry(c, s)
        \/ /\ consumed[s] = "none"
           /\ \/ ~Buildable(Request[s].type, Request[s].total, Request[s].part) /\ Refuse(c)
              \/ /\ Buildable(Request[s].type, Request[s].total, Request[s].part)
                 /\ consumed' = [consumed EXCEPT ![s] = "completed"]
                 /\ Goto(c, "posting")
                 /\ UNCHANGED <<books, late, lockQueue, result>>
Consume(c) ==
    LET s == source[c]
        r == Request[s]
        mayPost == Buildable(r.type, r.total, r.part) /\ MayPost(s)
    IN  \/ /\ consumed[s] = "completed"
           /\ ReturnEntry(c, s)
        \/ /\ consumed[s] = "in_progress"
           /\ Goto(c, "awaiting")
           /\ UNCHANGED <<books, late, consumed, lockQueue, result>>
        \/ /\ consumed[s] = "none" /\ s \notin entries /\ ~mayPost
           /\ Refuse(c)
        \/ /\ consumed[s] = "none" /\ (s \in entries \/ mayPost)
           /\ consumed' = [consumed EXCEPT ![s] = "in_progress"]
           /\ Goto(c, IF s \in entries THEN "posted" ELSE "posting")
           /\ UNCHANGED <<books, late, lockQueue, result>>

RunEvent(c) ==
    /\ phase[c] = "running"
    /\ IsEvent(source[c])
    /\ \/ /\ KeyOfAnotherEvent(c)
          /\ Refuse(c)
       \/ /\ ~KeyOfAnotherEvent(c) /\ Bound(key[c]) # None
          /\ ReturnEntry(c, Bound(key[c]))
       \/ /\ Bound(key[c]) = None
          /\ Consume(c)
    /\ UNCHANGED <<approvals, snapshot, source, key>>

\* The nested transaction.  Its rollback gives the lock away although the
\* consumer's key is still pending.
PostNested(c) ==
    /\ phase[c] = "posting"
    /\ \/ /\ ValidLines(LinesOf[source[c]])
          /\ entries' = entries \cup {source[c]}
          /\ Goto(c, "posted")
          /\ UNCHANGED <<bindings, periods, late, lockQueue>>
       \/ /\ ~ValidLines(LinesOf[source[c]])
          /\ RollBack
          /\ Goto(c, "unwinding")
    /\ UNCHANGED <<consumed, approvals, snapshot, source, key, result>>

\* execute completes or fails the consumer's key; a call that waits for it
\* while it holds the lock is woken (WakeUp).
FailConsumer_fault(c) ==     \* mutant: the key stays pending
    /\ phase[c] = "unwinding"
    /\ Goto(c, "refused")
    /\ UNCHANGED <<books, consumed, approvals, lockQueue, snapshot, source, key, result, late>>
FailConsumer(c) ==
    /\ phase[c] = "unwinding"
    /\ consumed' = [consumed EXCEPT ![source[c]] = "none"]
    /\ Goto(c, "refused")
    /\ UNCHANGED <<books, approvals, lockQueue, snapshot, source, key, result, late>>

FinishEvent(c) ==
    /\ phase[c] = "posted"
    /\ \/ /\ Binds(key[c], source[c])
          /\ BindKey(key[c], source[c])
          /\ consumed' = [consumed EXCEPT ![source[c]] = "completed"]
          /\ Answer(c, source[c])
          /\ Release
          /\ UNCHANGED <<entries, periods, late>>
       \/ /\ ~Binds(key[c], source[c])
          /\ consumed' = [consumed EXCEPT ![source[c]] = "none"]
          /\ RollBack
          /\ Goto(c, "refused")
          /\ UNCHANGED result
    /\ UNCHANGED <<approvals, snapshot, source, key>>

\* The awaited key was failed: execute returns null, and postEvent finds no
\* entry either.
WakeUp(c) ==
    /\ phase[c] = "awaiting"
    /\ consumed[source[c]] # "in_progress"
    /\ Refuse(c)
    /\ UNCHANGED <<approvals, snapshot, source, key>>

-----------------------------------------------------------------------------
SavePeriod(p, status) ==
    /\ periods[p].version < MaxVersion
    /\ periods' = [periods EXCEPT ![p] = [status |-> status, version |-> @.version + 1]]

Outside == UNCHANGED <<entries, bindings, consumed, lockQueue, snapshot, phase,
                       source, key, result>>

ClosePeriod(p) ==
    /\ ~IsClosed(p)
    /\ SavePeriod(p, "closed")
    /\ RecordLate
    /\ Outside /\ UNCHANGED approvals

\* enforceApprovalGate consumes the approval before anything else is looked at.
ReopenPeriod_fault(p) ==     \* mutant: the gate lets everybody through
    /\ approvals' = approvals - 1
    /\ \/ IsClosed(p) /\ SavePeriod(p, "reopened")
       \/ ~IsClosed(p) /\ UNCHANGED periods
    /\ Outside /\ UNCHANGED late
ReopenPeriod(p) ==
    /\ approvals > 0
    /\ approvals' = approvals - 1
    /\ \/ IsClosed(p) /\ SavePeriod(p, "reopened")
       \/ ~IsClosed(p) /\ UNCHANGED periods
    /\ Outside /\ UNCHANGED late

-----------------------------------------------------------------------------
Work(c) == \/ Enter(c) \/ CommitJournal(c) \/ BindJournal(c)
           \/ RunEvent(c) \/ PostNested(c) \/ FinishEvent(c)
           \/ FailConsumer(c) \/ WakeUp(c)

Settled(c) == phase[c] \in {"done", "refused"}

Rest == (\A c \in Call : Settled(c)) /\ UNCHANGED vars

Next ==
    \/ \E c \in Call, s \in Source, k \in Key \cup {None} :
         PostJournal(c, s, k) \/ PostEvent(c, s, k)
    \/ \E c \in Call : Work(c)
    \/ \E p \in Period : ClosePeriod(p) \/ ReopenPeriod(p)
    \/ Rest

Spec == Init /\ [][Next]_vars

\* The promises of a call that was made are carried on.
FairSpec == Spec /\ \A c \in Call : WF_vars(Work(c))

-----------------------------------------------------------------------------
\* The type invariant: what the repositories and the calls may hold.
TypeOK ==
    /\ entries \subseteq Source
    /\ bindings \in [Key -> Source \cup {None}]
    /\ periods \in [Period -> [status : {"open", "closed", "reopened"},
                              version : 0..MaxVersion]]
    /\ consumed \in [Source -> {"none", "in_progress", "completed"}]
    /\ approvals \in 0..MaxApprovals
    /\ lockQueue \in Seq(Call)
    /\ phase \in [Call -> Phase]
    /\ source \in [Call -> Source \cup {None}]
    /\ key \in [Call -> Key \cup {None}]
    /\ result \in [Call -> Source \cup {None}]
    /\ late \in [Period -> SUBSET Call]

\* Nothing leaves the journal but what a call posted in the transaction it is
\* still in, and only when that call is refused: no rollback, of whatever
\* call at whatever time, takes an entry somebody else has posted.
LedgerOnlyGrows ==
    [][\A s \in entries \ entries' :
         \E c \in Call : /\ source[c] = s /\ phase[c] = "posted"
                        /\ phase'[c] = "refused"]_vars

\* Whatever was handed out is in the journal: the entry a call was answered
\* with, the entry a request key is bound to, and the entry of an event that
\* counts as consumed and would never be posted again.
AnswersAreEntries ==
    /\ \A c \in Call : phase[c] = "done" => result[c] \in entries
    /\ \A k \in Key : bindings[k] # None => bindings[k] \in entries
    /\ \A s \in Source : consumed[s] = "completed" => s \in entries

\* A closed period takes the postings that were under way when it was closed,
\* or when a rollback undid its reopening, and no others.
ClosedPeriodTakesOnlyLateCalls ==
    [][\A s \in entries' \ entries :
         IsClosed(PeriodOf(s)) => \E c \in late[PeriodOf(s)] : source[c] = s]_vars

\* The statements of every span of months reconcile and join up with those of
\* the span after it, also when they are computed between two steps of a
\* posting: the lines of every entry balance, and no entry is counted twice or
\* not at all within a fiscal year.
StatementsReconcile ==
    Reconciles({[id |-> s, period |-> PeriodOf(s), lines |-> LinesOf[s]] : s \in entries}, Month)

\* Every posting returns, although one may wait for a consumer's key while it
\* holds the lock: the call that has the key is past needing the lock.
EveryPostingReturns == \A c \in Call : phase[c] = "waiting" ~> Settled(c)
=============================================================================
