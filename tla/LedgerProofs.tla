----------------------------- MODULE LedgerProofs -----------------------------
(***************************************************************************)
(* Theorems about the ledger, for any number of calls, sources, keys and   *)
(* periods: what was answered is in the journal and stays there, a closed  *)
(* period takes late postings only, and the statements always reconcile.   *)
(*                                                                         *)
(* For the journal the argument is about the rollback, the one step that   *)
(* takes anything back: it restores a snapshot, so all that has been       *)
(* promised to somebody must be in the snapshot of the call that is in its *)
(* transaction.  For the statements it is about sums over the lines of     *)
(* valid postings; that part has a comment of its own.                     *)
(***************************************************************************)
EXTENDS Ledger, CollectionLemmas

InTransaction(c) == phase[c] \in {"running", "awaiting", "posting", "posted"}

PeriodStates == [Period -> [status : {"open", "closed", "reopened"},
                            version : 0..MaxVersion]]

(* The participants' snapshot is well typed, and a call that was made has  *)
(* something to post.                                                      *)
SnapshotTypeOK ==
    /\ snapshot = <<snapshot[1], snapshot[2], snapshot[3]>>
    /\ snapshot[1] \subseteq Source
    /\ snapshot[2] \in [Key -> Source \cup {None}]
    /\ snapshot[3] \in PeriodStates

SourceKnown == \A c \in Call : phase[c] # "idle" => source[c] \in Source

(* A call in its transaction holds the lock; the journal has grown beyond  *)
(* its snapshot by the entry it has posted, if it has, and by no other.    *)
TransactionOK ==
    \A c \in Call : InTransaction(c) =>
        /\ HoldsLock(c)
        /\ snapshot[1] \subseteq entries
        /\ entries \subseteq snapshot[1] \cup {source[c]}
        /\ entries # snapshot[1] => phase[c] = "posted"
        /\ phase[c] = "posted" => source[c] \in entries
        /\ \A k \in Key : snapshot[2][k] # None => snapshot[2][k] \in snapshot[1]

(* The entry would survive a rollback.                                     *)
Lasting(s) ==
    /\ s \in entries
    /\ \A c \in Call : InTransaction(c) => s \in snapshot[1]

AnswersLast ==
    /\ \A c \in Call : phase[c] = "done" => Lasting(result[c])
    /\ \A c \in Call : phase[c] = "binding" => Lasting(source[c])
    /\ \A k \in Key : bindings[k] # None => Lasting(bindings[k])
    /\ \A s \in Source : consumed[s] = "completed" => Lasting(s)

(* The history variable tells the calls that are past the check of a       *)
(* closed period.                                                          *)
LateOK ==
    \A c \in Call : PastCheck(c) =>
        (IsClosed(PeriodOf(source[c])) => c \in late[PeriodOf(source[c])])

IInv == /\ TypeOK
        /\ SnapshotTypeOK
        /\ SourceKnown
        /\ TransactionOK
        /\ AnswersLast
        /\ LateOK

-----------------------------------------------------------------------------
LEMMA PeriodType == \A s \in Source : PeriodOf(s) \in Period
BY LedgerAssumption DEF PeriodOf

(* Nobody but the holder of the lock is in a transaction.                  *)
LEMMA AloneInTransaction ==
    ASSUME IInv, NEW c \in Call, InTransaction(c), NEW d \in Call, InTransaction(d)
    PROVE  c = d
BY DEF IInv, TransactionOK, HoldsLock

LEMMA InitIInv == Init => IInv
<1> SUFFICES ASSUME Init PROVE IInv
  OBVIOUS
<1>1. TypeOK
  BY LedgerAssumption DEF Init, TypeOK, Phase
<1>2. SnapshotTypeOK
  BY LedgerAssumption DEF Init, SnapshotTypeOK, books, PeriodStates
<1>3. SourceKnown /\ TransactionOK /\ LateOK
  BY DEF Init, SourceKnown, TransactionOK, InTransaction, LateOK, PastCheck
<1>4. AnswersLast
  BY DEF Init, AnswersLast
<1> QED
  BY <1>1, <1>2, <1>3, <1>4 DEF IInv

(* A rollback by the call in its transaction, whatever it does to its      *)
(* consumer's key except to complete it.                                   *)
LEMMA RollBackIInv ==
    ASSUME IInv, NEW c \in Call, InTransaction(c), RollBack,
           NEW l \in {"refused", "unwinding"}, Goto(c, l),
           consumed' \in [Source -> {"none", "in_progress", "completed"}],
           \A s \in Source : consumed'[s] = "completed" => consumed[s] = "completed",
           UNCHANGED <<approvals, snapshot, source, key, result>>
    PROVE  IInv'
<1>1. /\ TypeOK /\ SnapshotTypeOK /\ SourceKnown /\ TransactionOK
      /\ AnswersLast /\ LateOK
  BY DEF IInv
<1>2. HoldsLock(c)
  BY <1>1 DEF TransactionOK
<1>3. phase' \in [Call -> Phase] /\ phase'[c] = l
      /\ \A d \in Call : d # c => phase'[d] = phase[d]
  BY <1>1 DEF TypeOK, Goto, Phase
<1>4. \A d \in Call : ~InTransaction(d)'
  BY <1>3, AloneInTransaction DEF InTransaction
<1>5. TypeOK'
  <2>1. lockQueue' \in Seq(Call)
    BY <1>1, <1>2, HeadTailProperties DEF RollBack, Release, HoldsLock, TypeOK
  <2>2. late' \in [Period -> SUBSET Call]
    BY <1>1 DEF RollBack, RecordLate, TypeOK
  <2> QED
    BY <1>1, <1>3, <2>1, <2>2 DEF TypeOK, SnapshotTypeOK, RollBack, PeriodStates
<1>6. SnapshotTypeOK' /\ SourceKnown'
  BY <1>1, <1>3 DEF SnapshotTypeOK, SourceKnown, InTransaction
<1>7. TransactionOK'
  BY <1>4 DEF TransactionOK
<1>8. AnswersLast'
  <2>1. \A s : Lasting(s) => Lasting(s)'
    BY <1>4 DEF Lasting, RollBack
  <2>2. \A k \in Key : bindings'[k] # None => Lasting(bindings[k])'
    BY <1>1, <1>4 DEF Lasting, RollBack, TransactionOK
  <2> QED
    BY <1>1, <1>3, <2>1, <2>2 DEF AnswersLast
<1>9. LateOK'
  BY <1>1, <1>3, PeriodType
     DEF LateOK, PastCheck, RollBack, RecordLate, IsClosed, SourceKnown, TypeOK
<1> QED
  BY <1>5, <1>6, <1>7, <1>8, <1>9 DEF IInv

(* A commit: the entry, if one is added, is the caller's, and with the     *)
(* lock gone nobody can take it back.  The caller is answered, or is still *)
(* to bind its key.                                                        *)
LEMMA CommitIInv ==
    ASSUME IInv, NEW c \in Call, InTransaction(c), Release,
           NEW l \in {"binding", "done"}, Goto(c, l),
           entries' \in {entries, entries \cup {source[c]}},
           bindings' \in [Key -> Source \cup {None}],
           consumed' \in [Source -> {"none", "in_progress", "completed"}],
           result' \in [Call -> Source \cup {None}],
           \A d \in Call : d # c => result'[d] = result[d],
           l = "binding" => source[c] \in entries',
           l = "done" => result'[c] \in entries',
           \A k \in Key : bindings'[k] \in {None, bindings[k]} \cup entries',
           \A s \in Source : consumed'[s] = "completed"
                               => consumed[s] = "completed" \/ s \in entries',
           UNCHANGED <<periods, approvals, snapshot, source, key, late>>
    PROVE  IInv'
<1>1. /\ TypeOK /\ SnapshotTypeOK /\ SourceKnown /\ TransactionOK
      /\ AnswersLast /\ LateOK
  BY DEF IInv
<1>2. HoldsLock(c)
  BY <1>1 DEF TransactionOK
<1>3. phase' \in [Call -> Phase] /\ phase'[c] = l
      /\ \A d \in Call : d # c => phase'[d] = phase[d]
  BY <1>1 DEF TypeOK, Goto, Phase
<1>4. \A d \in Call : ~InTransaction(d)'
  BY <1>3, AloneInTransaction DEF InTransaction
<1>5. source[c] \in Source
  BY <1>1 DEF SourceKnown, InTransaction
<1>6. TypeOK'
  <2>1. lockQueue' \in Seq(Call)
    BY <1>1, <1>2, HeadTailProperties DEF Release, HoldsLock, TypeOK
  <2> QED
    BY <1>1, <1>3, <1>5, <2>1 DEF TypeOK
<1>7. SnapshotTypeOK' /\ SourceKnown'
  BY <1>1, <1>3, <1>5 DEF SnapshotTypeOK, SourceKnown
<1>8. TransactionOK'
  BY <1>4 DEF TransactionOK
<1>9. AnswersLast'
  <2>1. \A s \in entries' : Lasting(s)'
    BY <1>4 DEF Lasting
  <2>2. entries \subseteq entries'
    OBVIOUS
  <2> QED
    BY <1>1, <1>3, <2>1, <2>2 DEF AnswersLast, Lasting
<1>10. LateOK'
  BY <1>1, <1>3 DEF LateOK, PastCheck, IsClosed
<1> QED
  BY <1>6, <1>7, <1>8, <1>9, <1>10 DEF IInv

-----------------------------------------------------------------------------
(* Before the lock.                                                        *)
LEMMA AskType ==
    ASSUME IInv, NEW c \in Call, NEW s \in Source, NEW k \in Key \cup {None}, Ask(c, s, k)
    PROVE  /\ source' \in [Call -> Source \cup {None}] /\ source'[c] = s
           /\ \A d \in Call : d # c => source'[d] = source[d]
           /\ key' \in [Call -> Key \cup {None}]
BY DEF IInv, TypeOK, Ask

LEMMA AskIInv ==
    ASSUME IInv, NEW c \in Call, NEW s \in Source, NEW k \in Key \cup {None}, Ask(c, s, k),
           NEW l \in {"done", "refused", "waiting"}, Goto(c, l),
           lockQueue' \in {lockQueue, Append(lockQueue, c)},
           result' \in [Call -> Source \cup {None}],
           \A d \in Call : d # c => result'[d] = result[d],
           l = "done" => Lasting(result'[c]),
           l = "waiting" /\ ~IsEvent(s) => ~IsClosed(PeriodOf(s))
    PROVE  IInv'
<1>1. /\ TypeOK /\ SnapshotTypeOK /\ SourceKnown /\ TransactionOK
      /\ AnswersLast /\ LateOK
  BY DEF IInv
<1>2. phase' \in [Call -> Phase] /\ phase'[c] = l /\ phase[c] = "idle"
      /\ \A d \in Call : d # c => phase'[d] = phase[d]
  BY <1>1 DEF TypeOK, Goto, Phase, Ask
<1>3. UNCHANGED <<entries, bindings, periods, consumed, approvals, snapshot, late>>
  BY DEF Ask, books
<1>4. \A d \in Call : InTransaction(d)' => d # c /\ InTransaction(d)
  BY <1>2 DEF InTransaction
<1>5. TypeOK'
  <2>1. lockQueue \in Seq(Call)
    BY <1>1 DEF TypeOK
  <2>2. Append(lockQueue, c) \in Seq(Call)
    BY <2>1, AppendProperties
  <2>3. lockQueue' \in Seq(Call)
    BY <2>1, <2>2
  <2> QED
    BY <1>1, <1>2, <1>3, <2>3, AskType DEF TypeOK
<1>6. SnapshotTypeOK' /\ SourceKnown'
  BY <1>1, <1>2, <1>3, AskType DEF SnapshotTypeOK, SourceKnown
<1>7. TransactionOK'
  <2>1. lockQueue # <<>> => lockQueue' # <<>> /\ Head(lockQueue') = Head(lockQueue)
    BY <1>1, AppendProperties, HeadTailAppend DEF TypeOK
  <2> QED
    BY <1>1, <1>2, <1>3, <1>4, <2>1, AskType DEF TransactionOK, HoldsLock
<1>8. AnswersLast'
  <2>1. \A x : Lasting(x) => Lasting(x)'
    BY <1>3, <1>4 DEF Lasting
  <2> QED
    BY <1>1, <1>2, <1>3, <2>1, AskType DEF AnswersLast
<1>9. LateOK'
  BY <1>1, <1>2, <1>3, AskType DEF LateOK, PastCheck, IsClosed, IsEvent
<1> QED
  BY <1>5, <1>6, <1>7, <1>8, <1>9 DEF IInv

LEMMA PostJournalIInv ==
    ASSUME IInv, NEW c \in Call, NEW s \in Source, NEW k \in Key \cup {None}, PostJournal(c, s, k)
    PROVE  IInv'
<1>1. TypeOK /\ AnswersLast
  BY DEF IInv
<1>2. CASE KeyAnswers(s, k) /\ Answer(c, Bound(k)) /\ UNCHANGED lockQueue
  <2>1. k \in Key /\ Bound(k) = bindings[k] /\ Lasting(bindings[k])
    BY <1>1, <1>2 DEF KeyAnswers, Bound, AnswersLast
  <2>2. result' = [result EXCEPT ![c] = bindings[k]] /\ bindings[k] \in Source \cup {None}
    BY <1>1, <1>2, <2>1 DEF Answer, TypeOK
  <2> QED
    BY <1>1, <1>2, <2>1, <2>2, AskIInv DEF PostJournal, Answer, TypeOK
<1>3. CASE Goto(c, "refused") /\ UNCHANGED <<lockQueue, result>>
  BY <1>1, <1>3, AskIInv DEF PostJournal, TypeOK
<1>4. CASE MayPost(s) /\ Queue(c)
  BY <1>1, <1>4, AskIInv DEF PostJournal, TypeOK, MayPost, Queue
<1> QED
  BY <1>2, <1>3, <1>4 DEF PostJournal

LEMMA PostEventIInv ==
    ASSUME IInv, NEW c \in Call, NEW s \in Source, NEW k \in Key \cup {None}, PostEvent(c, s, k)
    PROVE  IInv'
BY AskIInv DEF PostEvent, Queue, IInv, TypeOK

LEMMA EnterIInv ==
    ASSUME IInv, NEW c \in Call, Enter(c)
    PROVE  IInv'
<1>1. /\ TypeOK /\ SnapshotTypeOK /\ SourceKnown /\ TransactionOK
      /\ AnswersLast /\ LateOK
  BY DEF IInv
<1>2. phase' \in [Call -> Phase] /\ phase'[c] = "running" /\ phase[c] = "waiting"
      /\ \A d \in Call : d # c => phase'[d] = phase[d]
  BY <1>1 DEF TypeOK, Goto, Phase, Enter
<1>3. snapshot' = <<entries, bindings, periods>>
      /\ UNCHANGED <<entries, bindings, periods, consumed, approvals, lockQueue,
                     source, key, result, late>>
  BY DEF Enter, books
<1>4. \A d \in Call : InTransaction(d)' => d = c
  \* whoever else is in its transaction would be the head of the queue too
  BY <1>1, <1>2 DEF InTransaction, TransactionOK, HoldsLock, Enter
<1>5. TypeOK' /\ SnapshotTypeOK' /\ SourceKnown'
  BY <1>1, <1>2, <1>3 DEF TypeOK, SnapshotTypeOK, SourceKnown, PeriodStates
<1>6. TransactionOK'
  BY <1>1, <1>2, <1>3, <1>4 DEF TransactionOK, HoldsLock, Enter, AnswersLast, Lasting
<1>7. AnswersLast'
  BY <1>1, <1>2, <1>3 DEF AnswersLast, Lasting
<1>8. LateOK'
  BY <1>1, <1>2, <1>3 DEF LateOK, PastCheck, IsClosed, IsEvent
<1> QED
  BY <1>5, <1>6, <1>7, <1>8 DEF IInv

-----------------------------------------------------------------------------
(* Steps in the transaction that touch neither the lock nor the journal.   *)
LEMMA InsideIInv ==
    ASSUME IInv, NEW c \in Call, InTransaction(c),
           NEW l \in {"awaiting", "posting", "posted"}, Goto(c, l),
           entries = snapshot[1] \/ l = "posted",
           l = "posted" => source[c] \in entries,
           l = "posting" => ~IsClosed(PeriodOf(source[c])),
           consumed' \in [Source -> {"none", "in_progress", "completed"}],
           \A s \in Source : consumed'[s] = "completed" => consumed[s] = "completed",
           UNCHANGED <<books, approvals, lockQueue, snapshot, source, key, result, late>>
    PROVE  IInv'
<1>1. /\ TypeOK /\ SnapshotTypeOK /\ SourceKnown /\ TransactionOK
      /\ AnswersLast /\ LateOK
  BY DEF IInv
<1>2. phase' \in [Call -> Phase] /\ phase'[c] = l
      /\ \A d \in Call : d # c => phase'[d] = phase[d]
  BY <1>1 DEF TypeOK, Goto, Phase
<1>3. UNCHANGED <<entries, bindings, periods>>
  BY DEF books
<1>4. \A d \in Call : InTransaction(d)' => d = c
  BY <1>2, AloneInTransaction DEF InTransaction
<1>5. TypeOK' /\ SnapshotTypeOK' /\ SourceKnown'
  BY <1>1, <1>2, <1>3 DEF TypeOK, SnapshotTypeOK, SourceKnown, InTransaction
<1>6. TransactionOK'
  BY <1>1, <1>2, <1>3, <1>4 DEF TransactionOK, HoldsLock
<1>7. AnswersLast'
  BY <1>1, <1>2, <1>3, <1>4 DEF AnswersLast, Lasting
<1>8. LateOK'
  BY <1>1, <1>2, <1>3 DEF LateOK, PastCheck, IsClosed, IsEvent
<1> QED
  BY <1>5, <1>6, <1>7, <1>8 DEF IInv

LEMMA CommitJournalIInv ==
    ASSUME IInv, NEW c \in Call, CommitJournal(c)
    PROVE  IInv'
<1>1. TypeOK
  BY DEF IInv
<1>2. InTransaction(c)
  BY DEF CommitJournal, InTransaction
<1>3. CASE ValidLines(LinesOf[source[c]])
  <2>1. entries' = entries \cup {source[c]} /\ Release /\ Goto(c, "binding")
        /\ UNCHANGED <<bindings, periods, late, consumed, approvals, snapshot,
                       source, key, result>>
    BY <1>3 DEF CommitJournal
  <2> QED
    BY <1>1, <1>2, <2>1, CommitIInv DEF TypeOK
<1>4. CASE ~ValidLines(LinesOf[source[c]])
  BY <1>1, <1>2, <1>4, RollBackIInv DEF CommitJournal, TypeOK
<1> QED
  BY <1>3, <1>4

LEMMA BindJournalIInv ==
    ASSUME IInv, NEW c \in Call, BindJournal(c)
    PROVE  IInv'
<1>1. /\ TypeOK /\ SnapshotTypeOK /\ SourceKnown /\ TransactionOK
      /\ AnswersLast /\ LateOK
  BY DEF IInv
<1>2. phase[c] = "binding" /\ source[c] \in Source /\ Lasting(source[c])
  BY <1>1 DEF BindJournal, SourceKnown, AnswersLast
<1>3. phase' \in [Call -> Phase] /\ phase'[c] \in {"done", "refused"}
      /\ \A d \in Call : d # c => phase'[d] = phase[d]
  BY <1>1 DEF TypeOK, BindJournal, Answer, Goto, Phase
<1>4. \A d \in Call : InTransaction(d)' => d # c /\ InTransaction(d)
  BY <1>3 DEF InTransaction
<1>5. UNCHANGED <<entries, periods, consumed, approvals, lockQueue, snapshot, source, key, late>>
  BY DEF BindJournal
<1>6. /\ bindings' \in [Key -> Source \cup {None}]
      /\ \A k \in Key : bindings'[k] \in {bindings[k], source[c]}
  BY <1>1, <1>2 DEF BindJournal, BindKey, TypeOK
<1>7. /\ result' \in [Call -> Source \cup {None}]
      /\ phase'[c] = "done" => result'[c] = source[c]
      /\ \A d \in Call : d # c => result'[d] = result[d]
  BY <1>1, <1>2 DEF BindJournal, Answer, Goto, TypeOK
<1>8. TypeOK' /\ SnapshotTypeOK' /\ SourceKnown'
  BY <1>1, <1>2, <1>3, <1>5, <1>6, <1>7 DEF TypeOK, SnapshotTypeOK, SourceKnown
<1>9. TransactionOK'
  BY <1>1, <1>3, <1>4, <1>5 DEF TransactionOK, HoldsLock
<1>10. AnswersLast'
  <2>1. \A x : Lasting(x) => Lasting(x)'
    BY <1>4, <1>5 DEF Lasting
  <2> QED
    BY <1>1, <1>2, <1>3, <1>5, <1>6, <1>7, <2>1 DEF AnswersLast
<1>11. LateOK'
  BY <1>1, <1>3, <1>5 DEF LateOK, PastCheck, IsClosed, IsEvent
<1> QED
  BY <1>8, <1>9, <1>10, <1>11 DEF IInv

LEMMA RefuseIInv ==
    ASSUME IInv, NEW c \in Call, InTransaction(c), Refuse(c),
           UNCHANGED <<approvals, snapshot, source, key>>
    PROVE  IInv'
BY RollBackIInv DEF Refuse, IInv, TypeOK

LEMMA ReturnEntryIInv ==
    ASSUME IInv, NEW c \in Call, InTransaction(c), NEW s \in entries, ReturnEntry(c, s),
           UNCHANGED <<approvals, snapshot, source, key>>
    PROVE  IInv'
<1>1. TypeOK
  BY DEF IInv
<1>2. /\ Release /\ Goto(c, "done") /\ UNCHANGED <<entries, bindings, periods, consumed, late>>
      /\ result' = [result EXCEPT ![c] = s]
  BY DEF ReturnEntry, Answer, books
<1> QED
  BY <1>1, <1>2, CommitIInv DEF TypeOK

LEMMA RunEventIInv ==
    ASSUME IInv, NEW c \in Call, RunEvent(c)
    PROVE  IInv'
<1>1. TypeOK /\ SourceKnown /\ TransactionOK /\ AnswersLast
  BY DEF IInv
<1>2. InTransaction(c) /\ source[c] \in Source /\ key[c] \in Key \cup {None}
      /\ UNCHANGED <<approvals, snapshot, source, key>> /\ entries = snapshot[1]
  BY <1>1 DEF RunEvent, InTransaction, SourceKnown, TransactionOK, TypeOK
<1>3. CASE Refuse(c)
  BY <1>2, <1>3, RefuseIInv
<1>4. CASE Bound(key[c]) # None /\ ReturnEntry(c, Bound(key[c]))
  <2>1. Bound(key[c]) \in entries
    BY <1>1, <1>2, <1>4 DEF Bound, AnswersLast, Lasting
  <2> QED
    BY <1>2, <1>4, <2>1, ReturnEntryIInv
<1>5. CASE Consume(c)
  <2>1. CASE consumed[source[c]] = "completed" /\ ReturnEntry(c, source[c])
    BY <1>1, <1>2, <2>1, ReturnEntryIInv DEF AnswersLast, Lasting
  <2>2. CASE Goto(c, "awaiting") /\ UNCHANGED <<books, late, consumed, lockQueue, result>>
    BY <1>1, <1>2, <2>2, InsideIInv DEF TypeOK
  <2>3. CASE Refuse(c)
    BY <1>2, <2>3, RefuseIInv
  <2>4. CASE /\ source[c] \in entries \/ MayPost(source[c])
             /\ consumed' = [consumed EXCEPT ![source[c]] = "in_progress"]
             /\ Goto(c, IF source[c] \in entries THEN "posted" ELSE "posting")
             /\ UNCHANGED <<books, late, lockQueue, result>>
    BY <1>1, <1>2, <2>4, InsideIInv DEF TypeOK, MayPost
  <2> QED
    BY <1>5, <2>1, <2>2, <2>3, <2>4 DEF Consume
<1> QED
  BY <1>3, <1>4, <1>5 DEF RunEvent

LEMMA PostNestedIInv ==
    ASSUME IInv, NEW c \in Call, PostNested(c)
    PROVE  IInv'
<1>1. /\ TypeOK /\ SnapshotTypeOK /\ SourceKnown /\ TransactionOK
      /\ AnswersLast /\ LateOK
  BY DEF IInv
<1>2. InTransaction(c) /\ source[c] \in Source
  BY <1>1 DEF PostNested, InTransaction, SourceKnown
<1>3. CASE ValidLines(LinesOf[source[c]])
  <2>1. /\ entries' = entries \cup {source[c]}
        /\ UNCHANGED <<bindings, periods, late, lockQueue, consumed, approvals,
                       snapshot, source, key, result>>
    BY <1>3 DEF PostNested
  <2>2. phase' \in [Call -> Phase] /\ phase[c] = "posting" /\ phase'[c] = "posted"
        /\ \A d \in Call : d # c => phase'[d] = phase[d]
    <3>1. phase[c] = "posting" /\ Goto(c, "posted")
      BY <1>3 DEF PostNested
    <3> QED
      BY <1>1, <3>1 DEF TypeOK, Goto, Phase
  <2>3. \A d \in Call : InTransaction(d)' => d = c
    BY <1>2, <2>2, AloneInTransaction DEF InTransaction
  <2>4. TypeOK' /\ SnapshotTypeOK' /\ SourceKnown'
    BY <1>1, <1>2, <2>1, <2>2 DEF TypeOK, SnapshotTypeOK, SourceKnown
  <2>5. TransactionOK'
    BY <1>1, <1>2, <2>1, <2>2, <2>3 DEF TransactionOK, HoldsLock
  <2>6. AnswersLast'
    <3>1. \A x : Lasting(x) => Lasting(x)'
      BY <1>2, <2>1, <2>3 DEF Lasting
    <3> QED
      BY <1>1, <2>1, <2>2, <3>1 DEF AnswersLast
  <2>7. LateOK'
    BY <1>1, <2>1, <2>2 DEF LateOK, PastCheck, IsClosed, IsEvent
  <2> QED
    BY <2>4, <2>5, <2>6, <2>7 DEF IInv
<1>4. CASE ~ValidLines(LinesOf[source[c]])
  BY <1>1, <1>2, <1>4, RollBackIInv DEF PostNested, TypeOK
<1> QED
  BY <1>3, <1>4

LEMMA FinishEventIInv ==
    ASSUME IInv, NEW c \in Call, FinishEvent(c)
    PROVE  IInv'
<1>1. TypeOK /\ SourceKnown /\ TransactionOK
  BY DEF IInv
<1>2. InTransaction(c) /\ source[c] \in Source /\ source[c] \in entries
  BY <1>1 DEF FinishEvent, InTransaction, SourceKnown, TransactionOK
<1>3. UNCHANGED <<approvals, snapshot, source, key>>
  BY DEF FinishEvent
<1>4. CASE Binds(key[c], source[c])
  <2>1. /\ BindKey(key[c], source[c])
        /\ consumed' = [consumed EXCEPT ![source[c]] = "completed"]
        /\ Goto(c, "done") /\ result' = [result EXCEPT ![c] = source[c]]
        /\ Release /\ UNCHANGED <<entries, periods, late>>
    BY <1>4 DEF FinishEvent, Answer
  <2>2. /\ bindings' \in [Key -> Source \cup {None}]
        /\ \A k \in Key : bindings'[k] \in {None, bindings[k]} \cup entries'
    BY <1>1, <1>2, <2>1 DEF BindKey, TypeOK
  <2>3. /\ consumed' \in [Source -> {"none", "in_progress", "completed"}]
        /\ \A s \in Source : consumed'[s] = "completed"
                             => consumed[s] = "completed" \/ s \in entries'
    BY <1>1, <1>2, <2>1 DEF TypeOK
  <2>4. /\ result' \in [Call -> Source \cup {None}] /\ result'[c] \in entries'
        /\ \A d \in Call : d # c => result'[d] = result[d]
    BY <1>1, <1>2, <2>1 DEF TypeOK
  <2> QED
    BY <1>2, <1>3, <2>1, <2>2, <2>3, <2>4, CommitIInv
<1>5. CASE ~Binds(key[c], source[c])
  BY <1>1, <1>2, <1>3, <1>5, RollBackIInv DEF FinishEvent, TypeOK
<1> QED
  BY <1>4, <1>5

LEMMA FailConsumerIInv ==
    ASSUME IInv, NEW c \in Call, FailConsumer(c)
    PROVE  IInv'
<1>1. /\ TypeOK /\ SnapshotTypeOK /\ SourceKnown /\ TransactionOK
      /\ AnswersLast /\ LateOK
  BY DEF IInv
<1>2. phase' \in [Call -> Phase] /\ phase'[c] = "refused" /\ phase[c] = "unwinding"
      /\ \A d \in Call : d # c => phase'[d] = phase[d]
  BY <1>1 DEF FailConsumer, TypeOK, Goto, Phase
<1>3. /\ consumed' \in [Source -> {"none", "in_progress", "completed"}]
      /\ \A s \in Source : consumed'[s] = "completed" => consumed[s] = "completed"
  BY <1>1 DEF FailConsumer, TypeOK
<1>4. UNCHANGED <<entries, bindings, periods, approvals, lockQueue, snapshot,
                 source, key, result, late>>
  BY DEF FailConsumer, books
<1>5. \A d \in Call : InTransaction(d)' <=> InTransaction(d)
  BY <1>2 DEF InTransaction
<1>6. TypeOK' /\ SnapshotTypeOK' /\ SourceKnown'
  BY <1>1, <1>2, <1>3, <1>4 DEF TypeOK, SnapshotTypeOK, SourceKnown
<1>7. TransactionOK'
  BY <1>1, <1>2, <1>4, <1>5 DEF TransactionOK, HoldsLock, InTransaction
<1>8. AnswersLast'
  <2>1. \A x : Lasting(x) => Lasting(x)'
    BY <1>4, <1>5 DEF Lasting
  <2> QED
    BY <1>1, <1>2, <1>3, <1>4, <2>1 DEF AnswersLast
<1>9. LateOK'
  BY <1>1, <1>2, <1>4 DEF LateOK, PastCheck, IsClosed, IsEvent
<1> QED
  BY <1>6, <1>7, <1>8, <1>9 DEF IInv

LEMMA WakeUpIInv ==
    ASSUME IInv, NEW c \in Call, WakeUp(c)
    PROVE  IInv'
BY RefuseIInv DEF WakeUp, InTransaction

(* Periods change outside any transaction.                                 *)
LEMMA OutsideIInv ==
    ASSUME IInv, Outside, periods' \in PeriodStates, approvals' \in 0..MaxApprovals,
           RecordLate \/ (UNCHANGED late /\ \A p \in Period : IsClosed(p)' => IsClosed(p))
    PROVE  IInv'
<1>1. /\ TypeOK /\ SnapshotTypeOK /\ SourceKnown /\ TransactionOK
      /\ AnswersLast /\ LateOK
  BY DEF IInv
<1>2. TypeOK'
  <2>1. CASE RecordLate
    BY <1>1, <2>1 DEF TypeOK, RecordLate, Outside, PeriodStates
  <2>2. CASE UNCHANGED late
    BY <1>1, <2>2 DEF TypeOK, Outside, PeriodStates
  <2> QED
    BY <2>1, <2>2
<1>3. SnapshotTypeOK' /\ SourceKnown' /\ TransactionOK' /\ AnswersLast'
  BY <1>1 DEF Outside, SnapshotTypeOK, SourceKnown, TransactionOK, InTransaction,
              HoldsLock, AnswersLast, Lasting
<1>4. LateOK'
  <2>1. \A c \in Call : PastCheck(c)' => /\ PastCheck(c)
                                        /\ source'[c] = source[c]
                                        /\ PeriodOf(source[c]) \in Period
    BY <1>1, PeriodType DEF Outside, PastCheck, SourceKnown
  <2> QED
    BY <1>1, <2>1 DEF LateOK, RecordLate, IsClosed
<1> QED
  BY <1>2, <1>3, <1>4 DEF IInv

LEMMA SavePeriodType ==
    ASSUME IInv, NEW p \in Period, NEW st \in {"closed", "reopened"}, SavePeriod(p, st)
    PROVE  /\ periods' \in PeriodStates
           /\ st = "reopened" => \A q \in Period : IsClosed(q)' => IsClosed(q)
<1>1. periods \in PeriodStates
  BY DEF IInv, TypeOK, PeriodStates
<1>2. /\ periods[p].version \in Nat /\ periods[p].version + 1 \in 0..MaxVersion
  BY <1>1, LedgerAssumption DEF PeriodStates, SavePeriod
<1>3. periods' = [periods EXCEPT ![p] = [status |-> st, version |-> periods[p].version + 1]]
  BY <1>1 DEF SavePeriod, PeriodStates
<1> QED
  BY <1>1, <1>2, <1>3 DEF PeriodStates, IsClosed

LEMMA ClosePeriodIInv ==
    ASSUME IInv, NEW p \in Period, ClosePeriod(p)
    PROVE  IInv'
BY SavePeriodType, OutsideIInv DEF ClosePeriod, IInv, TypeOK

LEMMA ReopenPeriodIInv ==
    ASSUME IInv, NEW p \in Period, ReopenPeriod(p)
    PROVE  IInv'
<1>1. approvals' \in 0..MaxApprovals
  BY LedgerAssumption DEF ReopenPeriod, IInv, TypeOK
<1>2. CASE SavePeriod(p, "reopened")
  BY <1>1, <1>2, SavePeriodType, OutsideIInv DEF ReopenPeriod
<1>3. CASE UNCHANGED periods
  <2>1. periods' \in PeriodStates /\ \A q \in Period : IsClosed(q)' => IsClosed(q)
    BY <1>3 DEF IInv, TypeOK, PeriodStates, IsClosed
  <2> QED
    BY <1>1, <2>1, OutsideIInv DEF ReopenPeriod
<1> QED
  BY <1>2, <1>3 DEF ReopenPeriod

LEMMA StutterIInv ==
    ASSUME IInv, UNCHANGED vars
    PROVE  IInv'
<1>1. UNCHANGED <<entries, bindings, periods, consumed, approvals, lockQueue,
                 snapshot, phase, source, key, result, late>>
  BY DEF vars
<1> QED
  BY <1>1 DEF IInv, TypeOK, SnapshotTypeOK, SourceKnown, TransactionOK, InTransaction,
              HoldsLock, AnswersLast, Lasting, LateOK, PastCheck, IsClosed, IsEvent

LEMMA NextIInv == IInv /\ [Next]_vars => IInv'
<1> SUFFICES ASSUME IInv, [Next]_vars PROVE IInv'
  OBVIOUS
<1>1. ASSUME NEW c \in Call, NEW s \in Source, NEW k \in Key \cup {None},
             PostJournal(c, s, k) \/ PostEvent(c, s, k)
      PROVE  IInv'
  BY <1>1, PostJournalIInv, PostEventIInv
<1>2. ASSUME NEW c \in Call, Work(c) PROVE IInv'
  BY <1>2, EnterIInv, CommitJournalIInv, BindJournalIInv, RunEventIInv,
     PostNestedIInv, FinishEventIInv, FailConsumerIInv, WakeUpIInv DEF Work
<1>3. ASSUME NEW p \in Period, ClosePeriod(p) \/ ReopenPeriod(p) PROVE IInv'
  BY <1>3, ClosePeriodIInv, ReopenPeriodIInv
<1>4. CASE UNCHANGED vars
  BY <1>4, StutterIInv
<1> QED
  BY <1>1, <1>2, <1>3, <1>4 DEF Next, Rest

-----------------------------------------------------------------------------
(* The journal, its indexes and the calls stay in the state of their types. *)
THEOREM TypeCorrect == Spec => []TypeOK
<1>1. IInv => TypeOK
  BY DEF IInv
<1> QED
  BY InitIInv, NextIInv, <1>1, PTL DEF Spec

(* LedgerService: whatever the calls, their interleaving and their errors, *)
(* the entry a posting was answered with, a request key is bound to or a   *)
(* consumed event stands for is in the journal.                            *)
THEOREM AnswersStand == Spec => []AnswersAreEntries
<1>1. IInv => AnswersAreEntries
  BY DEF IInv, AnswersLast, Lasting, AnswersAreEntries
<1> QED
  BY InitIInv, NextIInv, <1>1, PTL DEF Spec

(* What a step may do to the journal: a posting that is past its check adds *)
(* its entry, and a rollback takes away the entry of its own call only.    *)
Posts(c) == /\ entries' = entries \cup {source[c]}
            /\ PastCheck(c) /\ source[c] \in Source /\ ValidLines(LinesOf[source[c]])

TakesBack(c) == /\ entries' \subseteq entries
                /\ entries \ entries' \subseteq {source[c]}
                /\ phase[c] = "posted" /\ phase'[c] = "refused"

LEMMA RollBackTakesBack ==
    ASSUME IInv, NEW c \in Call, InTransaction(c), RollBack,
           NEW l \in {"refused", "unwinding"}, Goto(c, l),
           phase[c] = "posted" => l = "refused"
    PROVE  entries' = entries \/ TakesBack(c)
<1>1. /\ snapshot[1] \subseteq entries /\ entries \subseteq snapshot[1] \cup {source[c]}
      /\ entries # snapshot[1] => phase[c] = "posted"
  BY DEF IInv, TransactionOK
<1>2. entries' = snapshot[1]
  BY DEF RollBack
<1>3. phase'[c] = l
  BY DEF IInv, TypeOK, Goto
<1> QED
  BY <1>1, <1>2, <1>3 DEF TakesBack

LEMMA JournalStep ==
    ASSUME IInv, [Next]_vars
    PROVE  entries' = entries \/ \E c \in Call : Posts(c) \/ TakesBack(c)
<1>1. ASSUME NEW c \in Call, InTransaction(c), Refuse(c)
      PROVE  entries' = entries \/ TakesBack(c)
  BY <1>1, RollBackTakesBack DEF Refuse
<1>2. ASSUME NEW c \in Call, CommitJournal(c)
      PROVE  entries' = entries \/ Posts(c) \/ TakesBack(c)
  <2>1. InTransaction(c) /\ source[c] \in Source /\ PastCheck(c)
    BY <1>2 DEF CommitJournal, InTransaction, PastCheck, IInv, SourceKnown
  <2> QED
    BY <1>2, <2>1, RollBackTakesBack DEF CommitJournal, Posts
<1>3. ASSUME NEW c \in Call, PostNested(c)
      PROVE  entries' = entries \/ Posts(c) \/ TakesBack(c)
  <2>1. InTransaction(c) /\ source[c] \in Source /\ PastCheck(c) /\ phase[c] # "posted"
    BY <1>3 DEF PostNested, InTransaction, PastCheck, IInv, SourceKnown
  <2> QED
    BY <1>3, <2>1, RollBackTakesBack DEF PostNested, Posts
<1>4. ASSUME NEW c \in Call, FinishEvent(c)
      PROVE  entries' = entries \/ TakesBack(c)
  <2>1. InTransaction(c)
    BY <1>4 DEF FinishEvent, InTransaction
  <2> QED
    BY <1>4, <2>1, RollBackTakesBack DEF FinishEvent
<1>5. ASSUME NEW c \in Call, RunEvent(c) PROVE entries' = entries \/ TakesBack(c)
  <2>1. InTransaction(c)
    BY <1>5 DEF RunEvent, InTransaction
  <2> QED
    BY <1>1, <1>5, <2>1 DEF RunEvent, Consume, ReturnEntry, books
<1>6. ASSUME NEW c \in Call, WakeUp(c) PROVE entries' = entries \/ TakesBack(c)
  <2>1. InTransaction(c)
    BY <1>6 DEF WakeUp, InTransaction
  <2> QED
    BY <1>1, <1>6, <2>1 DEF WakeUp
<1>7. ASSUME NEW c \in Call, Enter(c) \/ BindJournal(c) \/ FailConsumer(c)
      PROVE  entries' = entries
  BY <1>7 DEF Enter, BindJournal, FailConsumer, books
<1>8. ASSUME NEW c \in Call, NEW s \in Source, NEW k \in Key \cup {None},
             PostJournal(c, s, k) \/ PostEvent(c, s, k)
      PROVE  entries' = entries
  BY <1>8 DEF PostJournal, PostEvent, Ask, books
<1>9. ASSUME NEW p \in Period, ClosePeriod(p) \/ ReopenPeriod(p)
      PROVE  entries' = entries
  BY <1>9 DEF ClosePeriod, ReopenPeriod, Outside
<1>10. CASE UNCHANGED vars
  BY <1>10 DEF vars
<1> QED
  BY <1>2, <1>3, <1>4, <1>5, <1>6, <1>7, <1>8, <1>9, <1>10 DEF Next, Work, Rest

(* FinancialTransactionManager's rollback under LedgerService: an entry    *)
(* disappears only with the refusal of the call that posted it, still in   *)
(* its transaction.                                                        *)
THEOREM EntriesStay == Spec => LedgerOnlyGrows
<1>1. ASSUME IInv, [Next]_vars
      PROVE  [\A s \in entries \ entries' :
                \E c \in Call : /\ source[c] = s /\ phase[c] = "posted"
                               /\ phase'[c] = "refused"]_vars
  BY <1>1, JournalStep DEF Posts, TakesBack
<1> QED
  BY InitIInv, NextIInv, <1>1, PTL DEF Spec, LedgerOnlyGrows

(* assertPostingAllowedForPeriod: a closed period takes the postings that  *)
(* had passed the check when it became closed, and no others.              *)
THEOREM ClosedPeriodsHold == Spec => ClosedPeriodTakesOnlyLateCalls
<1>1. ASSUME IInv, [Next]_vars
      PROVE  [\A s \in entries' \ entries :
                IsClosed(PeriodOf(s)) => \E c \in late[PeriodOf(s)] : source[c] = s]_vars
  BY <1>1, JournalStep DEF Posts, TakesBack, IInv, LateOK
<1> QED
  BY InitIInv, NextIInv, <1>1, PTL DEF Spec, ClosedPeriodTakesOnlyLateCalls

-----------------------------------------------------------------------------
(***************************************************************************)
(* The statements.  Every figure is a sum over entries of a sum over their *)
(* lines.  A valid posting balances line by line between the two sides of  *)
(* the balance sheet; the rest is how sums split over disjoint sets: what  *)
(* lies before a span and within it, the sections of the cash flow, and    *)
(* two spans that meet.                                                    *)
(***************************************************************************)
IsJournal(E) ==
    /\ IsFiniteSet(E)
    /\ \A e \in E : ValidLines(e.lines) /\ e.period \in Int

-----------------------------------------------------------------------------
(* Lines.                                                                  *)
LEMMA SignedLine ==
    ASSUME NEW line \in Line
    PROVE  /\ line.amount \in Int /\ line.account \in Account /\ Signed(line) \in Int
           /\ line.direction = "debit" \/ line.direction = "credit"
           /\ line.account \in OfType({"asset"}) \/ line.account \in OfType({"expense"}) =>
                Signed(line) = IF line.direction = "debit" THEN line.amount ELSE 0 - line.amount
           /\ line.account \in OfType({"liability"}) \/ line.account \in OfType({"revenue"}) =>
                Signed(line) = IF line.direction = "debit" THEN 0 - line.amount ELSE line.amount
BY DEF Line, Signed, OfType

\* Every account has one of the four types.
LEMMA FourTypes ==
    ASSUME NEW a \in Account
    PROVE  \/ a \in OfType({"asset"}) /\ a \notin OfType({"expense", "liability", "revenue"})
           \/ a \in OfType({"expense"}) /\ a \notin OfType({"asset", "liability", "revenue"})
           \/ a \in OfType({"liability"}) /\ a \notin OfType({"asset", "expense", "revenue"})
           \/ a \in OfType({"revenue"}) /\ a \notin OfType({"asset", "expense", "liability"})
BY DEF OfType, Account, AccountType

BalancesOf(lines, accounts) ==
    [k \in DOMAIN lines |-> IF lines[k].account \in accounts THEN Signed(lines[k]) ELSE 0]

AmountsOf(lines, direction) ==
    [k \in DOMAIN lines |-> IF lines[k].direction = direction THEN lines[k].amount ELSE 0]

LEMMA LineSums ==
    ASSUME NEW lines \in Seq(Line), NEW accounts, NEW direction
    PROVE  /\ IsFiniteSet(DOMAIN lines)
           /\ BalancesOf(lines, accounts) \in [DOMAIN lines -> Int]
           /\ AmountsOf(lines, direction) \in [DOMAIN lines -> Int]
           /\ LineBalance(lines, accounts) = SumFunction(BalancesOf(lines, accounts))
           /\ SumOf(lines, direction) = SumFunction(AmountsOf(lines, direction))
           /\ LineBalance(lines, accounts) \in Int
<1>1. IsFiniteSet(DOMAIN lines)
  <2>1. DOMAIN lines = 1 .. Len(lines) /\ Len(lines) \in Nat
    OBVIOUS
  <2> QED
    BY <2>1, FS_Interval
<1>2. \A k \in DOMAIN lines : lines[k] \in Line
  OBVIOUS
<1>3. BalancesOf(lines, accounts) \in [DOMAIN lines -> Int]
  BY <1>2, SignedLine DEF BalancesOf
<1>4. AmountsOf(lines, direction) \in [DOMAIN lines -> Int]
  BY <1>2, SignedLine DEF AmountsOf
<1>5. LineBalance(lines, accounts) = SumFunction(BalancesOf(lines, accounts))
  BY Zenon DEF LineBalance, BalancesOf
<1>6. SumOf(lines, direction) = SumFunction(AmountsOf(lines, direction))
  BY Zenon DEF SumOf, AmountsOf
<1>7. LineBalance(lines, accounts) \in Int
  <2>1. PICK D : D = DOMAIN lines
    OBVIOUS
  <2>2. PICK f \in [D -> Int] : f = BalancesOf(lines, accounts)
    BY <1>3, <2>1
  <2>3. SumFunction(f) \in Int
    BY <1>1, <2>1, SumIsInt
  <2> QED
    BY <1>5, <2>2, <2>3
<1> QED
  BY <1>1, <1>3, <1>4, <1>5, <1>6, <1>7

LEMMA LinesBalance ==
    ASSUME NEW lines, ValidLines(lines)
    PROVE  LineBalance(lines, OfType({"asset"})) + LineBalance(lines, OfType({"expense"}))
             = LineBalance(lines, OfType({"liability"})) + LineBalance(lines, OfType({"revenue"}))
<1>1. lines \in Seq(Line) /\ SumOf(lines, "debit") = SumOf(lines, "credit")
  BY DEF ValidLines
<1>2. PICK D : D = DOMAIN lines
  OBVIOUS
<1>3. PICK a, x, l, r, d, c :
        /\ a = BalancesOf(lines, OfType({"asset"})) /\ x = BalancesOf(lines, OfType({"expense"}))
        /\ l = BalancesOf(lines, OfType({"liability"})) /\ r = BalancesOf(lines, OfType({"revenue"}))
        /\ d = AmountsOf(lines, "debit") /\ c = AmountsOf(lines, "credit")
  OBVIOUS
<1>4. /\ IsFiniteSet(D)
      /\ a \in [D -> Int] /\ x \in [D -> Int] /\ l \in [D -> Int] /\ r \in [D -> Int]
      /\ d \in [D -> Int] /\ c \in [D -> Int]
  BY <1>1, <1>2, <1>3, LineSums
<1>5. PICK p, q : p = [k \in D |-> l[k] + r[k]] /\ q = [k \in D |-> a[k] + x[k]]
  OBVIOUS
<1>6. AddsPointwise(p, l, r, D) /\ AddsPointwise(q, a, x, D)
  BY <1>4, <1>5 DEF AddsPointwise
<1>7. p \in [D -> Int] /\ q \in [D -> Int]
  BY <1>6 DEF AddsPointwise
<1>8. \A k \in D : d[k] + p[k] = c[k] + q[k]
  <2> SUFFICES ASSUME NEW k \in D PROVE d[k] + p[k] = c[k] + q[k]
    OBVIOUS
  <2>1. PICK line \in Line : line = lines[k]
    BY <1>1, <1>2
  <2>2. PICK n \in Int : n = line.amount
    BY SignedLine
  <2>3. PICK s \in Int : s = Signed(line)
    BY SignedLine
  <2>4. /\ d[k] = IF line.direction = "debit" THEN n ELSE 0
        /\ c[k] = IF line.direction = "credit" THEN n ELSE 0
    BY <1>2, <1>3, <2>1, <2>2 DEF AmountsOf
  <2>5. /\ a[k] = IF line.account \in OfType({"asset"}) THEN s ELSE 0
        /\ x[k] = IF line.account \in OfType({"expense"}) THEN s ELSE 0
        /\ l[k] = IF line.account \in OfType({"liability"}) THEN s ELSE 0
        /\ r[k] = IF line.account \in OfType({"revenue"}) THEN s ELSE 0
    BY <1>2, <1>3, <2>1, <2>3 DEF BalancesOf
  <2>6. p[k] = l[k] + r[k] /\ q[k] = a[k] + x[k]
    BY <1>5
  <2>7. /\ line.account \in Account
        /\ line.direction = "debit" \/ line.direction = "credit"
        /\ line.account \in OfType({"asset"}) \/ line.account \in OfType({"expense"}) =>
             s = IF line.direction = "debit" THEN n ELSE 0 - n
        /\ line.account \in OfType({"liability"}) \/ line.account \in OfType({"revenue"}) =>
             s = IF line.direction = "debit" THEN 0 - n ELSE n
    BY <2>2, <2>3, SignedLine
  <2>8. \/ a[k] = s /\ x[k] = 0 /\ l[k] = 0 /\ r[k] = 0 /\ s = IF line.direction = "debit" THEN n ELSE 0 - n
        \/ a[k] = 0 /\ x[k] = s /\ l[k] = 0 /\ r[k] = 0 /\ s = IF line.direction = "debit" THEN n ELSE 0 - n
        \/ a[k] = 0 /\ x[k] = 0 /\ l[k] = s /\ r[k] = 0 /\ s = IF line.direction = "debit" THEN 0 - n ELSE n
        \/ a[k] = 0 /\ x[k] = 0 /\ l[k] = 0 /\ r[k] = s /\ s = IF line.direction = "debit" THEN 0 - n ELSE n
    BY <2>5, <2>7, FourTypes DEF OfType
  <2> QED
    BY <2>4, <2>6, <2>7, <2>8
<1>9. SumFunction(d) + SumFunction(p) = SumFunction(c) + SumFunction(q)
  BY <1>4, <1>7, <1>8, SumsAgree
<1>10. SumFunction(p) = SumFunction(l) + SumFunction(r) /\ SumFunction(q) = SumFunction(a) + SumFunction(x)
  BY <1>6, SumAdds
<1>11. SumFunction(d) = SumFunction(c)
  BY <1>1, <1>3, LineSums
<1>12. PICK sa \in Int, sx \in Int, sl \in Int, sr \in Int, sd \in Int :
         /\ sa = SumFunction(a) /\ sx = SumFunction(x) /\ sl = SumFunction(l)
         /\ sr = SumFunction(r) /\ sd = SumFunction(d)
  <2>1. SumFunction(a) \in Int /\ SumFunction(x) \in Int /\ SumFunction(l) \in Int
        /\ SumFunction(r) \in Int /\ SumFunction(d) \in Int
    BY <1>4, SumIsInt
  <2> QED
    BY <2>1
<1>13. SumFunction(a) + SumFunction(x) = SumFunction(l) + SumFunction(r)
  <2>1. sd + (sl + sr) = sd + (sa + sx)
    BY <1>9, <1>10, <1>11, <1>12, Zenon
  <2>2. sa + sx = sl + sr
    BY <2>1
  <2> QED
    BY <1>12, <2>2, Zenon
<1> QED
  BY <1>1, <1>3, <1>13, LineSums

-----------------------------------------------------------------------------
(* Entries.                                                                *)
EntryBalances(E, accounts) == [e \in E |-> LineBalance(e.lines, accounts)]
EntryInflows(E) == [e \in E |-> Larger(0, NetCash(e))]
EntryOutflows(E) == [e \in E |-> Larger(0, 0 - NetCash(e))]

LEMMA SubJournal == ASSUME NEW E, IsJournal(E), NEW D \in SUBSET E PROVE IsJournal(D)
BY FS_Subset DEF IsJournal

LEMMA EntrySums ==
    ASSUME NEW E, IsJournal(E), NEW accounts
    PROVE  /\ EntryBalances(E, accounts) \in [E -> Int]
           /\ EntryInflows(E) \in [E -> Int] /\ EntryOutflows(E) \in [E -> Int]
           /\ \A e \in E : NetCash(e) \in Int
           /\ Balance(E, accounts) = SumFunction(EntryBalances(E, accounts))
           /\ Inflows(E) = SumFunction(EntryInflows(E))
           /\ Outflows(E) = SumFunction(EntryOutflows(E))
<1>1. ASSUME NEW e \in E, NEW any PROVE LineBalance(e.lines, any) \in Int
  <2>1. PICK lines \in Seq(Line) : lines = e.lines
    BY DEF IsJournal, ValidLines
  <2> QED
    BY <2>1, LineSums
<1>2. \A e \in E : NetCash(e) \in Int
  BY <1>1 DEF NetCash
<1>3. EntryBalances(E, accounts) \in [E -> Int]
  BY <1>1 DEF EntryBalances
<1>4. EntryInflows(E) \in [E -> Int] /\ EntryOutflows(E) \in [E -> Int]
  BY <1>2 DEF EntryInflows, EntryOutflows, Larger
<1>5. /\ Balance(E, accounts) = SumFunction(EntryBalances(E, accounts))
      /\ Inflows(E) = SumFunction(EntryInflows(E)) /\ Outflows(E) = SumFunction(EntryOutflows(E))
  BY Zenon DEF Balance, Inflows, Outflows, EntryBalances, EntryInflows, EntryOutflows
<1> QED
  BY <1>2, <1>3, <1>4, <1>5

LEMMA EntrySumsAreInt ==
    ASSUME NEW E, IsJournal(E), NEW accounts
    PROVE  Balance(E, accounts) \in Int /\ Inflows(E) \in Int /\ Outflows(E) \in Int
<1>1. IsFiniteSet(E)
  BY DEF IsJournal
<1>2. PICK b \in [E -> Int] : b = EntryBalances(E, accounts)
  BY EntrySums
<1>3. PICK i \in [E -> Int] : i = EntryInflows(E)
  BY EntrySums
<1>4. PICK o \in [E -> Int] : o = EntryOutflows(E)
  BY EntrySums
<1>5. SumFunction(b) \in Int /\ SumFunction(i) \in Int /\ SumFunction(o) \in Int
  BY <1>1, SumIsInt
<1> QED
  BY <1>2, <1>3, <1>4, <1>5, EntrySums

\* Assets are liabilities and equity.
LEMMA SidesBalance ==
    ASSUME NEW E, IsJournal(E)
    PROVE  Balance(E, OfType({"asset"})) =
             Balance(E, OfType({"liability"}))
               + (Balance(E, OfType({"revenue"})) - Balance(E, OfType({"expense"})))
<1>1. PICK a \in [E -> Int], x \in [E -> Int], l \in [E -> Int], r \in [E -> Int] :
        /\ a = EntryBalances(E, OfType({"asset"})) /\ x = EntryBalances(E, OfType({"expense"}))
        /\ l = EntryBalances(E, OfType({"liability"})) /\ r = EntryBalances(E, OfType({"revenue"}))
  BY EntrySums
<1>2. IsFiniteSet(E)
  BY DEF IsJournal
<1>3. \A e \in E : a[e] + x[e] = l[e] + r[e]
  <2> SUFFICES ASSUME NEW e \in E PROVE a[e] + x[e] = l[e] + r[e]
    OBVIOUS
  <2>1. /\ a[e] = LineBalance(e.lines, OfType({"asset"})) /\ x[e] = LineBalance(e.lines, OfType({"expense"}))
        /\ l[e] = LineBalance(e.lines, OfType({"liability"})) /\ r[e] = LineBalance(e.lines, OfType({"revenue"}))
    BY <1>1 DEF EntryBalances
  <2>2. ValidLines(e.lines)
    BY DEF IsJournal
  <2> QED
    BY <2>1, <2>2, LinesBalance
<1>4. SumFunction(a) + SumFunction(x) = SumFunction(l) + SumFunction(r)
  BY <1>2, <1>3, SumsAgree
<1>5. PICK A \in Int, X \in Int, L \in Int, R \in Int :
        /\ A = Balance(E, OfType({"asset"})) /\ X = Balance(E, OfType({"expense"}))
        /\ L = Balance(E, OfType({"liability"})) /\ R = Balance(E, OfType({"revenue"}))
  BY EntrySumsAreInt
<1>6. A = SumFunction(a) /\ X = SumFunction(x) /\ L = SumFunction(l) /\ R = SumFunction(r)
  BY <1>1, <1>5, EntrySums
<1>7. A + X = L + R
  BY <1>4, <1>6, Zenon
<1>8. A = L + (R - X)
  BY <1>7
<1> QED
  BY <1>5, <1>8, Zenon

\* Cash moves by what flows in less what flows out.
LEMMA FlowsAreNet ==
    ASSUME NEW E, IsJournal(E)
    PROVE  Inflows(E) - Outflows(E) = Balance(E, CashAccounts)
<1>1. PICK i \in [E -> Int], o \in [E -> Int], b \in [E -> Int] :
        i = EntryInflows(E) /\ o = EntryOutflows(E) /\ b = EntryBalances(E, CashAccounts)
  BY EntrySums
<1>2. AddsPointwise(i, o, b, E)
  <2>1. ASSUME NEW e \in E PROVE i[e] = o[e] + b[e]
    <3>1. PICK n \in Int : n = NetCash(e)
      BY EntrySums
    <3>2. i[e] = Larger(0, n) /\ o[e] = Larger(0, 0 - n) /\ b[e] = n
      BY <1>1, <3>1 DEF EntryInflows, EntryOutflows, EntryBalances, NetCash
    <3> QED
      BY <3>2 DEF Larger
  <2> QED
    BY <2>1 DEF AddsPointwise, IsJournal
<1>3. SumFunction(i) = SumFunction(o) + SumFunction(b)
  BY <1>2, SumAdds
<1>4. PICK I \in Int, O \in Int, B \in Int :
        I = Inflows(E) /\ O = Outflows(E) /\ B = Balance(E, CashAccounts)
  BY EntrySumsAreInt
<1>5. I = O + B
  BY <1>1, <1>3, <1>4, EntrySums
<1>6. I - O = B
  BY <1>5
<1> QED
  BY <1>4, <1>6, Zenon

JournalInTwo(E, X, Y) == IsJournal(E) /\ E = X \union Y /\ X \cap Y = {}

LEMMA EntriesSplit ==
    ASSUME NEW E, NEW X, NEW Y, JournalInTwo(E, X, Y), NEW accounts
    PROVE  /\ Balance(E, accounts) = Balance(X, accounts) + Balance(Y, accounts)
           /\ Inflows(E) = Inflows(X) + Inflows(Y)
           /\ Outflows(E) = Outflows(X) + Outflows(Y)
<1>1. /\ E = X \union Y /\ X \cap Y = {} /\ IsFiniteSet(E)
      /\ IsJournal(E) /\ IsJournal(X) /\ IsJournal(Y)
  BY SubJournal DEF IsJournal, JournalInTwo
<1>2. Balance(E, accounts) = Balance(X, accounts) + Balance(Y, accounts)
  <2>1. PICK f : f = EntryBalances(E, accounts)
    OBVIOUS
  <2>2. InTwoParts(f, X, Y)
    BY <1>1, <2>1, EntrySums DEF InTwoParts
  <2>3. SumFunction(f) = SumFunction(Restrict(f, X)) + SumFunction(Restrict(f, Y))
    BY <2>2, SumOfTwoParts
  <2>4. Restrict(f, X) = EntryBalances(X, accounts) /\ Restrict(f, Y) = EntryBalances(Y, accounts)
    BY <1>1, <2>1 DEF EntryBalances, Restrict
  <2> QED
    BY <1>1, <2>1, <2>3, <2>4, EntrySums
<1>3. Inflows(E) = Inflows(X) + Inflows(Y)
  <2>1. PICK f : f = EntryInflows(E)
    OBVIOUS
  <2>2. InTwoParts(f, X, Y)
    BY <1>1, <2>1, EntrySums DEF InTwoParts
  <2>3. SumFunction(f) = SumFunction(Restrict(f, X)) + SumFunction(Restrict(f, Y))
    BY <2>2, SumOfTwoParts
  <2>4. Restrict(f, X) = EntryInflows(X) /\ Restrict(f, Y) = EntryInflows(Y)
    BY <1>1, <2>1 DEF EntryInflows, Restrict
  <2> QED
    BY <1>1, <2>1, <2>3, <2>4, EntrySums
<1>4. Outflows(E) = Outflows(X) + Outflows(Y)
  <2>1. PICK f : f = EntryOutflows(E)
    OBVIOUS
  <2>2. InTwoParts(f, X, Y)
    BY <1>1, <2>1, EntrySums DEF InTwoParts
  <2>3. SumFunction(f) = SumFunction(Restrict(f, X)) + SumFunction(Restrict(f, Y))
    BY <2>2, SumOfTwoParts
  <2>4. Restrict(f, X) = EntryOutflows(X) /\ Restrict(f, Y) = EntryOutflows(Y)
    BY <1>1, <2>1 DEF EntryOutflows, Restrict
  <2> QED
    BY <1>1, <2>1, <2>3, <2>4, EntrySums
<1> QED
  BY <1>2, <1>3, <1>4

\* The flows do not depend on the accounts.
LEMMA FlowsSplit ==
    ASSUME NEW E, NEW X, NEW Y, JournalInTwo(E, X, Y)
    PROVE  /\ Inflows(E) = Inflows(X) + Inflows(Y)
           /\ Outflows(E) = Outflows(X) + Outflows(Y)
<1>1. PICK accounts : accounts = CashAccounts
  OBVIOUS
<1> QED
  BY <1>1, EntriesSplit

\* Entries that do not move cash.
LEMMA NothingFlows ==
    ASSUME NEW E, IsJournal(E), \A e \in E : NetCash(e) = 0
    PROVE  Inflows(E) = 0 /\ Outflows(E) = 0
<1>1. PICK i \in [E -> Int], o \in [E -> Int] : i = EntryInflows(E) /\ o = EntryOutflows(E)
  BY EntrySums
<1>2. \A e \in E : i[e] = 0 /\ o[e] = 0
  BY <1>1 DEF EntryInflows, EntryOutflows, Larger
<1>3. SumFunction(i) = 0 /\ SumFunction(o) = 0
  BY <1>2, SumOfZeros DEF IsJournal
<1> QED
  BY <1>1, <1>3, EntrySums

-----------------------------------------------------------------------------
(* Slices.                                                                 *)
SectionOf(E, s) == {e \in E : NetCash(e) # 0 /\ Section(e) = s}
Within(E, from, to) == {e \in E : from <= e.period /\ e.period <= to}
Before(E, start, from) == {e \in E : start <= e.period /\ e.period < from}

\* What moves cash does so in one section.
LEMMA SectionsAddUp ==
    ASSUME NEW E, IsJournal(E)
    PROVE  /\ Inflows(E) = Inflows(SectionOf(E, "operating")) + Inflows(SectionOf(E, "investing"))
                             + Inflows(SectionOf(E, "financing"))
           /\ Outflows(E) = Outflows(SectionOf(E, "operating")) + Outflows(SectionOf(E, "investing"))
                              + Outflows(SectionOf(E, "financing"))
<1>1. PICK still, op, inv, fin :
        /\ still = {e \in E : NetCash(e) = 0} /\ op = SectionOf(E, "operating")
        /\ inv = SectionOf(E, "investing") /\ fin = SectionOf(E, "financing")
  OBVIOUS
<1>2. PICK rest, moving : rest = inv \union fin /\ moving = op \union rest
  OBVIOUS
<1>3. \A e : Section(e) \in {"operating", "investing", "financing"}
  BY DEF Section
<1>4. E = still \union moving /\ still \cap moving = {} /\ op \cap rest = {} /\ inv \cap fin = {}
  BY <1>1, <1>2, <1>3 DEF SectionOf
<1>5. IsJournal(still) /\ IsJournal(moving) /\ IsJournal(rest) /\ IsJournal(op)
      /\ IsJournal(inv) /\ IsJournal(fin)
  BY <1>1, <1>2, SubJournal DEF SectionOf
<1>51. JournalInTwo(E, still, moving) /\ JournalInTwo(moving, op, rest) /\ JournalInTwo(rest, inv, fin)
  BY <1>2, <1>4, <1>5 DEF JournalInTwo
<1>6. Inflows(still) = 0 /\ Outflows(still) = 0
  BY <1>1, <1>5, NothingFlows
<1>7. PICK io \in Int, ii \in Int, if \in Int, oo \in Int, oi \in Int, of \in Int :
        /\ io = Inflows(op) /\ ii = Inflows(inv) /\ if = Inflows(fin)
        /\ oo = Outflows(op) /\ oi = Outflows(inv) /\ of = Outflows(fin)
  BY <1>5, EntrySumsAreInt
<1>8. Inflows(rest) = ii + if /\ Outflows(rest) = oi + of
  BY <1>51, <1>7, FlowsSplit
<1>9. Inflows(moving) = io + (ii + if) /\ Outflows(moving) = oo + (oi + of)
  BY <1>51, <1>7, <1>8, FlowsSplit
<1>10. Inflows(E) = 0 + (io + (ii + if)) /\ Outflows(E) = 0 + (oo + (oi + of))
  BY <1>51, <1>6, <1>9, FlowsSplit
<1>11. /\ 0 + (io + (ii + if)) = io + ii + if
       /\ 0 + (oo + (oi + of)) = oo + oi + of
  OBVIOUS
<1> QED
  BY <1>1, <1>7, <1>10, <1>11, Zenon

LEMMA SliceFields ==
    ASSUME NEW E, NEW from, NEW to, NEW s, s = Slice(E, from, to),
           NEW start, start = FiscalYearStart(from)
    PROVE  /\ s.assets = Balance(Within(E, start, to), OfType({"asset"}))
           /\ s.liabilities = Balance(Within(E, start, to), OfType({"liability"}))
           /\ s.equity = Balance(Within(E, start, to), OfType({"revenue"}))
                           - Balance(Within(E, start, to), OfType({"expense"}))
           /\ s.netIncome = Balance(Within(E, from, to), OfType({"revenue"}))
                              - Balance(Within(E, from, to), OfType({"expense"}))
           /\ s.openingCash = Balance(Before(E, start, from), CashAccounts)
           /\ s.closingCash = Balance(Within(E, start, to), CashAccounts)
           /\ s.inflows = Inflows(Within(E, from, to))
           /\ s.outflows = Outflows(Within(E, from, to))
           /\ \A x \in {"operating", "investing", "financing"} :
                /\ s.sections[x].inflows = Inflows(SectionOf(Within(E, from, to), x))
                /\ s.sections[x].outflows = Outflows(SectionOf(Within(E, from, to), x))
BY DEF Slice, Within, Before, SectionOf

LEMMA YearStart ==
    ASSUME NEW m \in Nat
    PROVE  FiscalYearStart(m) \in Int /\ FiscalYearStart(m) <= m
<1>1. m % MonthsPerYear \in 0 .. MonthsPerYear - 1
  BY MonthsPerYearAssumption
<1> QED
  BY <1>1, MonthsPerYearAssumption DEF FiscalYearStart

\* What lies before a span, and the span.
LEMMA SpansMeet ==
    ASSUME NEW E, IsJournal(E), NEW a \in Int, NEW b \in Int, NEW c \in Int, a <= b, b <= c + 1
    PROVE  /\ Within(E, a, c) = Before(E, a, b) \union Within(E, b, c)
           /\ Before(E, a, b) \cap Within(E, b, c) = {}
           /\ Before(E, a, b) = Within(E, a, b - 1)
           /\ IsJournal(Within(E, a, c)) /\ IsJournal(Before(E, a, b)) /\ IsJournal(Within(E, b, c))
<1>1. \A e \in E : e.period \in Int
  BY DEF IsJournal
<1>2. Within(E, a, c) \in SUBSET E /\ Before(E, a, b) \in SUBSET E /\ Within(E, b, c) \in SUBSET E
  BY DEF Within, Before
<1>3. IsJournal(Within(E, a, c)) /\ IsJournal(Before(E, a, b)) /\ IsJournal(Within(E, b, c))
  BY <1>2, SubJournal
<1>4. Within(E, a, c) = Before(E, a, b) \union Within(E, b, c)
  BY <1>1 DEF Within, Before
<1>5. Before(E, a, b) \cap Within(E, b, c) = {}
  BY <1>1 DEF Within, Before
<1>6. Before(E, a, b) = Within(E, a, b - 1)
  BY <1>1 DEF Within, Before
<1> QED
  BY <1>3, <1>4, <1>5, <1>6

LEMMA SliceRight ==
    ASSUME NEW E, IsJournal(E), NEW from \in Nat, NEW to \in Nat, from <= to
    PROVE  SliceReconciles(Slice(E, from, to))
<1>1. PICK start \in Int : start = FiscalYearStart(from) /\ start <= from
  BY YearStart
<1>2. PICK s : s = Slice(E, from, to)
  OBVIOUS
<1>3. PICK W, B, I : /\ W = Within(E, start, to) /\ B = Before(E, start, from)
                     /\ I = Within(E, from, to)
  OBVIOUS
<1>4. IsJournal(W) /\ IsJournal(B) /\ IsJournal(I) /\ W = B \union I /\ B \cap I = {}
  BY <1>1, <1>3, SpansMeet
<1>5. JournalInTwo(W, B, I)
  BY <1>4 DEF JournalInTwo
<1>6. s.assets = s.liabilities + s.equity
  <2>1. /\ s.assets = Balance(W, OfType({"asset"}))
        /\ s.liabilities = Balance(W, OfType({"liability"}))
        /\ s.equity = Balance(W, OfType({"revenue"})) - Balance(W, OfType({"expense"}))
    BY <1>1, <1>2, <1>3, SliceFields
  <2> QED
    BY <1>4, <2>1, SidesBalance
<1>7. s.inflows - s.outflows = s.closingCash - s.openingCash
  <2>1. /\ s.inflows = Inflows(I) /\ s.outflows = Outflows(I)
        /\ s.closingCash = Balance(W, CashAccounts) /\ s.openingCash = Balance(B, CashAccounts)
    BY <1>1, <1>2, <1>3, SliceFields
  <2>2. PICK b \in Int, n \in Int : b = Balance(B, CashAccounts) /\ n = Balance(I, CashAccounts)
    BY <1>4, EntrySumsAreInt
  <2>3. Balance(W, CashAccounts) = b + n
    BY <1>5, <2>2, EntriesSplit
  <2>4. Inflows(I) - Outflows(I) = n
    BY <1>4, <2>2, FlowsAreNet
  <2>5. (b + n) - b = n
    OBVIOUS
  <2> QED
    BY <2>1, <2>2, <2>3, <2>4, <2>5, Zenon
<1>8. /\ s.inflows = Inflows(I) /\ s.outflows = Outflows(I)
      /\ \A x \in {"operating", "investing", "financing"} :
           /\ s.sections[x].inflows = Inflows(SectionOf(I, x))
           /\ s.sections[x].outflows = Outflows(SectionOf(I, x))
  BY <1>1, <1>2, <1>3, SliceFields
<1>9. /\ s.inflows = s.sections["operating"].inflows + s.sections["investing"].inflows
                       + s.sections["financing"].inflows
      /\ s.outflows = s.sections["operating"].outflows + s.sections["investing"].outflows
                        + s.sections["financing"].outflows
  BY <1>4, <1>8, SectionsAddUp
<1> QED
  BY <1>2, <1>6, <1>7, <1>9 DEF SliceReconciles

\* Two spans of one fiscal year that follow each other.
LEMMA SlicesJoin ==
    ASSUME NEW E, IsJournal(E), NEW from \in Nat, NEW to \in Nat, NEW last \in Nat,
           from <= to, to < last, FiscalYearStart(to + 1) = FiscalYearStart(from)
    PROVE  /\ Slice(E, to + 1, last).openingCash = Slice(E, from, to).closingCash
           /\ Slice(E, from, last).netIncome
                = Slice(E, from, to).netIncome + Slice(E, to + 1, last).netIncome
           /\ Slice(E, from, last).inflows
                = Slice(E, from, to).inflows + Slice(E, to + 1, last).inflows
<1>1. PICK start \in Int : /\ start = FiscalYearStart(from) /\ start <= from
                           /\ start = FiscalYearStart(to + 1)
  BY YearStart
<1>2. PICK mid \in Nat : mid = to + 1
  OBVIOUS
<1>3. PICK s, n, w : /\ s = Slice(E, from, to) /\ n = Slice(E, mid, last)
                     /\ w = Slice(E, from, last)
  OBVIOUS
<1>4. n.openingCash = s.closingCash
  <2>1. start = FiscalYearStart(mid) /\ n = Slice(E, mid, last)
    BY <1>1, <1>2, <1>3
  <2>2. n.openingCash = Balance(Before(E, start, mid), CashAccounts)
    BY <2>1, SliceFields
  <2>3. start = FiscalYearStart(from) /\ s = Slice(E, from, to)
    BY <1>1, <1>3
  <2>4. s.closingCash = Balance(Within(E, start, to), CashAccounts)
    BY <2>3, SliceFields
  <2>5. mid - 1 = to /\ start <= mid /\ mid <= last + 1
    BY <1>1, <1>2
  <2>6. Before(E, start, mid) = Within(E, start, mid - 1)
    BY <2>5, SpansMeet
  <2> QED
    BY <2>2, <2>4, <2>5, <2>6
<1>5. PICK S, N, W : /\ S = Within(E, from, to) /\ N = Within(E, mid, last)
                     /\ W = Within(E, from, last)
  OBVIOUS
<1>6. JournalInTwo(W, S, N) /\ IsJournal(S) /\ IsJournal(N)
  <2>1. /\ mid - 1 = to /\ from <= mid /\ mid <= last + 1
        /\ from \in Int /\ mid \in Int /\ last \in Int
    BY <1>2
  <2>2. /\ Within(E, from, last) = Before(E, from, mid) \union Within(E, mid, last)
        /\ Before(E, from, mid) \cap Within(E, mid, last) = {}
        /\ IsJournal(Within(E, from, last)) /\ IsJournal(Before(E, from, mid))
        /\ IsJournal(Within(E, mid, last))
    BY <2>1, SpansMeet
  <2>3. Before(E, from, mid) = Within(E, from, mid - 1)
    BY <2>1, SpansMeet
  <2> QED
    BY <1>5, <2>1, <2>2, <2>3 DEF JournalInTwo
<1>7. w.inflows = s.inflows + n.inflows
  <2>1. w.inflows = Inflows(W) /\ s.inflows = Inflows(S) /\ n.inflows = Inflows(N)
    BY <1>3, <1>5, SliceFields
  <2> QED
    BY <1>6, <2>1, FlowsSplit
<1>8. w.netIncome = s.netIncome + n.netIncome
  <2>1. PICK revenue, expense : revenue = OfType({"revenue"}) /\ expense = OfType({"expense"})
    OBVIOUS
  <2>2. PICK rs \in Int, rn \in Int, xs \in Int, xn \in Int :
          /\ rs = Balance(S, revenue) /\ rn = Balance(N, revenue)
          /\ xs = Balance(S, expense) /\ xn = Balance(N, expense)
    BY <1>6, EntrySumsAreInt
  <2>3. Balance(W, revenue) = rs + rn /\ Balance(W, expense) = xs + xn
    BY <1>6, <2>2, EntriesSplit
  <2>4. /\ s.netIncome = rs - xs /\ n.netIncome = rn - xn
        /\ w.netIncome = Balance(W, revenue) - Balance(W, expense)
    BY <1>3, <1>5, <2>1, <2>2, SliceFields
  <2>5. (rs + rn) - (xs + xn) = (rs - xs) + (rn - xn)
    OBVIOUS
  <2> QED
    BY <2>3, <2>4, <2>5, Zenon
<1> QED
  BY <1>2, <1>3, <1>4, <1>7, <1>8

LEMMA JournalReconciles ==
    ASSUME NEW E, IsJournal(E), NEW months \in SUBSET Nat
    PROVE  Reconciles(E, months)
<1> SUFFICES ASSUME NEW from \in months, NEW to \in months, from <= to
             PROVE  /\ SliceReconciles(Slice(E, from, to))
                    /\ \A last \in months :
                         (to < last /\ FiscalYearStart(to + 1) = FiscalYearStart(from)) =>
                           /\ Slice(E, to + 1, last).openingCash = Slice(E, from, to).closingCash
                           /\ Slice(E, from, last).netIncome
                                = Slice(E, from, to).netIncome + Slice(E, to + 1, last).netIncome
                           /\ Slice(E, from, last).inflows
                                = Slice(E, from, to).inflows + Slice(E, to + 1, last).inflows
  BY DEF Reconciles
<1>1. from \in Nat /\ to \in Nat /\ \A last \in months : last \in Nat
  OBVIOUS
<1>2. SliceReconciles(Slice(E, from, to))
  BY <1>1, SliceRight, Zenon
<1>3. ASSUME NEW last \in months, to < last, FiscalYearStart(to + 1) = FiscalYearStart(from)
      PROVE  /\ Slice(E, to + 1, last).openingCash = Slice(E, from, to).closingCash
             /\ Slice(E, from, last).netIncome
                  = Slice(E, from, to).netIncome + Slice(E, to + 1, last).netIncome
             /\ Slice(E, from, last).inflows
                  = Slice(E, from, to).inflows + Slice(E, to + 1, last).inflows
  BY <1>1, <1>3, SlicesJoin, Zenon
<1> QED
  BY <1>2, <1>3, Zenon

-----------------------------------------------------------------------------
(* What is in the journal is a finite number of valid postings.            *)
JournalInv == IsFiniteSet(entries) /\ \A s \in entries : ValidLines(LinesOf[s])

LEMMA JournalInvStep ==
    ASSUME IInv, JournalInv, [Next]_vars
    PROVE  JournalInv'
<1>1. CASE entries' = entries
  BY <1>1 DEF JournalInv
<1>2. ASSUME NEW c \in Call, Posts(c) PROVE JournalInv'
  BY <1>2, FS_AddElement DEF JournalInv, Posts
<1>3. ASSUME NEW c \in Call, TakesBack(c) PROVE JournalInv'
  BY <1>3, FS_Subset DEF JournalInv, TakesBack
<1> QED
  BY <1>1, <1>2, <1>3, JournalStep

\* The entries the statements are computed from.
EntryOf(s) == [id |-> s, period |-> PeriodOf(s), lines |-> LinesOf[s]]

LEMMA EntriesAreJournal ==
    ASSUME TypeOK, JournalInv
    PROVE  IsJournal({EntryOf(s) : s \in entries})
<1>1. PICK D, I : D = entries /\ I = {EntryOf(s) : s \in entries}
  OBVIOUS
<1>2. IsFiniteSet(I)
  <2>1. PICK f : f = [s \in D |-> EntryOf(s)]
    OBVIOUS
  <2>2. f \in Surjection(D, I)
    BY <1>1, <2>1 DEF Surjection
  <2>3. IsFiniteSet(D)
    BY <1>1 DEF JournalInv
  <2> QED
    BY <2>2, <2>3, FS_Surjection
<1>3. ASSUME NEW e \in I PROVE ValidLines(e.lines) /\ e.period \in Int
  <2>1. PICK s \in entries : e = EntryOf(s)
    BY <1>1
  <2>2. e.lines = LinesOf[s] /\ e.period = PeriodOf(s)
    BY <2>1 DEF EntryOf
  <2>3. PeriodOf(s) \in Int
    <3>1. s \in Source
      BY DEF TypeOK
    <3>2. PeriodOf(s) \in Period
      BY <3>1, PeriodType
    <3>3. \A p \in Period : p \in Int
      BY LedgerAssumption
    <3> QED
      BY <3>2, <3>3, Zenon
  <2> QED
    BY <2>2, <2>3 DEF JournalInv
<1> QED
  BY <1>1, <1>2, <1>3 DEF IsJournal

(* FinancialStatementsService: at whatever moment they are computed, the   *)
(* statements of every span of months balance, agree with one another and  *)
(* join up with those of the next span.                                    *)
THEOREM StatementsAlwaysReconcile == Spec => []StatementsReconcile
<1>1. Init => JournalInv
  BY FS_EmptySet DEF Init, JournalInv
<1>2. IInv /\ JournalInv => StatementsReconcile
  <2> SUFFICES ASSUME IInv, JournalInv PROVE StatementsReconcile
    OBVIOUS
  <2>1. IsJournal({EntryOf(s) : s \in entries})
    BY EntriesAreJournal DEF IInv
  <2>2. Month \in SUBSET Nat
    BY LedgerAssumption
  <2>3. Reconciles({EntryOf(s) : s \in entries}, Month)
    BY <2>1, <2>2, JournalReconciles
  <2> QED
    BY <2>3 DEF StatementsReconcile, EntryOf
<1> QED
  BY InitIInv, NextIInv, JournalInvStep, <1>1, <1>2, PTL DEF Spec
=============================================================================
