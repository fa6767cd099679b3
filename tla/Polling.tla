------------------------------ MODULE Polling ------------------------------
(***************************************************************************)
(* IntegrationsSchedulerService, PollingService and PollingRepository for  *)
(* one tenant and connector: pulls of pages of an external feed, which     *)
(* wait for the provider between the reading of the checkpoint and the     *)
(* processing of the response, started by the schedule or directly, with   *)
(* several under way at a time.                                            *)
(*                                                                         *)
(* A record is known by its object id and the hash of its raw payload; the *)
(* fields that may be malformed are outside the payload, so a provider can *)
(* send the same payload again with the field repaired.                    *)
(***************************************************************************)
EXTENDS Integers, Sequences, FiniteSetsExt

CONSTANTS
    Feed,       \* what the provider has to send: [object, content, wellFormed]
    PageSize,   \* records in a response
    Pull,       \* pulls that may be under way at a time
    MaxTime,    \* bound on the clock
    Interval,   \* ticks of the clock in a slot
    NoCursor    \* a response without next_cursor

ASSUME PollingAssumption ==
    /\ Feed \in Seq({Feed[i] : i \in DOMAIN Feed})
    /\ PageSize \in Nat \ {0} /\ Interval \in Nat \ {0} /\ MaxTime \in Nat
    /\ NoCursor \notin Nat

VARIABLES
    available,   \* how much of the feed the provider shows
    raw,         \* keys of the raw responses stored
    normalized,  \* those with a normalized record and its event in the log
    checkpoint,  \* the cursor stored: records of the feed behind it
    slots,       \* slots marked as run
    clock,
    pulls        \* [Pull -> state of the pull]

pollingVars == <<available, raw, normalized, checkpoint, slots, clock, pulls>>

Key(i) == <<Feed[i].object, Feed[i].content>>
Keys(from, upto) == {Key(i) : i \in from..upto}
Cursor == 0..Len(Feed)

Idle == [phase |-> "idle"]

PollingTypeOK ==
    /\ available \in Cursor /\ checkpoint \in Cursor
    /\ raw \subseteq Keys(1, Len(Feed))
    /\ normalized \subseteq raw
    /\ \A p \in Pull :
         \/ pulls[p] = Idle
         \/ pulls[p].phase = "asked" /\ pulls[p].cursor \in Cursor
         \/ /\ pulls[p].phase = "answered"
            /\ pulls[p].cursor \in Cursor /\ pulls[p].upto \in Cursor
            /\ pulls[p].next \in Cursor \cup {NoCursor}

PollingInit ==
    /\ available = 0 /\ checkpoint = 0
    /\ raw = {} /\ normalized = {}
    /\ slots = {} /\ clock = 0
    /\ pulls = [p \in Pull |-> Idle]

-----------------------------------------------------------------------------
(* The provider and the clock *)

Publish ==
    /\ available < Len(Feed)
    /\ available' = available + 1
    /\ UNCHANGED <<raw, normalized, checkpoint, slots, clock, pulls>>

Tick ==
    /\ clock < MaxTime
    /\ clock' = clock + 1
    /\ UNCHANGED <<available, raw, normalized, checkpoint, slots, pulls>>

\* The provider answers with the page behind the cursor.  At the end of its
\* feed it may leave the next cursor out.
Answer(p) ==
    LET asked == pulls[p].cursor
        upto == Min({asked + PageSize, available})
    IN  /\ pulls[p].phase = "asked"
        /\ \E next \in {upto, NoCursor} :
             /\ next = NoCursor => upto = available
             /\ pulls' = [pulls EXCEPT ![p] = [phase |-> "answered", cursor |-> asked,
                                                upto |-> upto, next |-> next]]
        /\ UNCHANGED <<available, raw, normalized, checkpoint, slots, clock>>

\* The call to the provider fails.
FailPull(p) ==
    /\ pulls[p].phase = "asked"
    /\ pulls' = [pulls EXCEPT ![p] = Idle]
    /\ UNCHANGED <<available, raw, normalized, checkpoint, slots, clock>>

-----------------------------------------------------------------------------
\* pullFromApi, up to its await: the checkpoint is read.
PullFromApi(p) ==
    /\ pulls[p] = Idle
    /\ pulls' = [pulls EXCEPT ![p] = [phase |-> "asked", cursor |-> checkpoint]]
    /\ UNCHANGED <<available, raw, normalized, checkpoint, clock>>

StartPull(p) == PullFromApi(p) /\ UNCHANGED slots

\* runSlot: the slot is marked before the pull, so a pull that fails is not
\* tried again in its slot.
FloorToSlot == clock - (clock % Interval)

RunSlot(p) ==
    /\ FloorToSlot \notin slots
    /\ PullFromApi(p)
    /\ slots' = slots \cup {FloorToSlot}

-----------------------------------------------------------------------------
(* executePull and the rest of pullFromApi.  A record that is not stored   *)
(* yet is stored raw and then normalized; normalizeRecord throws where a   *)
(* field is malformed, and the records behind it are left.                 *)

\* Positions of the page whose record is stored neither before nor by the page.
New(p) ==
    LET page == (pulls[p].cursor + 1)..pulls[p].upto
    IN  {i \in page : Key(i) \notin raw \cup Keys(pulls[p].cursor + 1, i - 1)}

Malformed(p) == {i \in New(p) : ~Feed[i].wellFormed}

\* Where the processing stops: behind the page, or at the first malformed one.
Stop(p) == Min(Malformed(p) \cup {pulls[p].upto + 1})

\* The checkpoint after the pull; it is left alone when executePull throws.
CheckpointAfter(p) ==
    IF Malformed(p) # {} THEN checkpoint
    ELSE IF pulls[p].next = NoCursor THEN pulls[p].cursor ELSE pulls[p].next

FinishPull(p) ==
    LET stored == {Key(i) : i \in {n \in New(p) : n <= Stop(p)}}
        good == {Key(i) : i \in {n \in New(p) : n < Stop(p)}}
    IN  /\ pulls[p].phase = "answered"
        /\ raw' = raw \cup stored
        /\ normalized' = normalized \cup good
        /\ checkpoint' = CheckpointAfter(p)
        /\ pulls' = [pulls EXCEPT ![p] = Idle]
        /\ UNCHANGED <<available, slots, clock>>

PollingNext ==
    \/ Publish
    \/ Tick
    \/ \E p \in Pull :
         \/ StartPull(p)
         \/ RunSlot(p)
         \/ Answer(p)
         \/ FailPull(p)
         \/ FinishPull(p)

-----------------------------------------------------------------------------
\* Nothing of the feed is passed over: whatever the pulls under way overwrote,
\* every record behind the checkpoint is stored raw, and one that is stored is
\* normalized and has its event unless the provider sent it malformed
\* (PollingService.pullFromApi, executePull).
FeedIsTakenWhole ==
    /\ \A i \in 1..checkpoint : Key(i) \in raw
    /\ \A k \in raw \ normalized : \E i \in 1..Len(Feed) : Key(i) = k /\ ~Feed[i].wellFormed
=============================================================================
