--------------------------- MODULE Reconciliation ---------------------------
(***************************************************************************)
(* ReconciliationService with its repository: the results of a run with    *)
(* their candidates, which a user may override behind the approval gate,   *)
(* and the items a user matches by hand.  An item that is sent again (only *)
(* tests do) replaces the one there is, with its status.                   *)
(***************************************************************************)
EXTENDS Approvals

CONSTANTS
    Result,        \* ids of reconciliation results
    Candidate,     \* candidate ids
    Item,          \* ids of reconciliation items
    ItemContent    \* [currency, amount] of an item

ResultRecord == [candidates : SUBSET Candidate, suggested : Candidate \cup {NoId},
                 selected : Candidate \cup {NoId}, status : {"suggested", "manually_matched"}]
ItemRecord == [content : ItemContent, status : {"unmatched", "matched"}]

ASSUME ReconciliationAssumption ==
    /\ NoId \notin Candidate \cup ResultRecord \cup ItemRecord
    /\ \A c \in ItemContent : c.amount \in Nat \ {0}
    /\ \A c, d \in ItemContent : (c.currency = d.currency /\ c.amount = d.amount) => c = d

VARIABLES
    results,  \* [Result -> result or NoId]
    items,    \* [Item -> item or NoId]
    matches,  \* the manual matches, as sets of two items
    resent    \* history: items that were replaced after they were matched

reconVars == <<results, items, matches, resent>>

ReconciliationTypeOK ==
    /\ results \in [Result -> ResultRecord \cup {NoId}]
    /\ items \in [Item -> ItemRecord \cup {NoId}]
    /\ matches \subseteq SUBSET Item /\ resent \subseteq Item

ReconciliationInit ==
    /\ ApprovalsInit
    /\ results = [r \in Result |-> NoId]
    /\ items = [i \in Item |-> NoId]
    /\ matches = {} /\ resent = {}

-----------------------------------------------------------------------------
\* createSuggestion
CreateSuggestion(r, candidates, suggested) ==
    /\ results[r] = NoId
    /\ results' = [results EXCEPT ![r] =
                     [candidates |-> candidates, suggested |-> suggested,
                      selected |-> suggested, status |-> "suggested"]]
    /\ UNCHANGED <<approvalVars, items, matches, resent>>

\* applyManualOverride: the gate comes first, the checks after it; a reason
\* may be missing.
MayOverride(r, selected, reasoned) ==
    /\ reasoned
    /\ results[r] # NoId
    /\ selected \in results[r].candidates
    /\ selected # results[r].suggested

ApplyManualOverride(r, selected, reasoned, a) ==
    /\ Execute("reconciliation_override", 0, a, MayOverride(r, selected, reasoned))
    /\ results' = IF MayOverride(r, selected, reasoned)
                  THEN [results EXCEPT ![r].selected = selected,
                                       ![r].status = "manually_matched"]
                  ELSE results
    /\ UNCHANGED <<items, matches, resent>>

UpsertItem(i, content) ==
    /\ items' = [items EXCEPT ![i] = [content |-> content, status |-> "unmatched"]]
    /\ resent' = IF items[i] # NoId /\ items[i].status = "matched" THEN resent \cup {i} ELSE resent
    /\ UNCHANGED <<approvalVars, results, matches>>

\* createManualMatch
MayMatch(i, j) ==
    /\ i # j /\ items[i] # NoId /\ items[j] # NoId
    /\ items[i].status = "unmatched" /\ items[j].status = "unmatched"
    /\ items[i].content.currency = items[j].content.currency
    /\ items[i].content.amount = items[j].content.amount

CreateManualMatch(i, j) ==
    /\ MayMatch(i, j)
    /\ items' = [items EXCEPT ![i].status = "matched", ![j].status = "matched"]
    /\ matches' = matches \cup {{i, j}}
    /\ UNCHANGED <<approvalVars, results, resent>>

\* Approvals are requested, decided and spent by others meanwhile.
OverridesNext ==
    \/ ApprovalsNext /\ UNCHANGED reconVars
    \/ \E r \in Result, selected \in Candidate :
         \/ \E candidates \in SUBSET Candidate, suggested \in Candidate \cup {NoId} :
              CreateSuggestion(r, candidates, suggested)
         \/ \E reasoned \in BOOLEAN, a \in ApprovalId :
              ApplyManualOverride(r, selected, reasoned, a)

MatchesNext ==
    \/ \E i \in Item, content \in ItemContent : UpsertItem(i, content)
    \/ \E i, j \in Item : CreateManualMatch(i, j)

-----------------------------------------------------------------------------
\* Items are matched in pairs: as long as nobody replaces a matched item, an
\* item is matched exactly when it is in one match, with one other item of
\* its currency and amount; and a result departs from the suggestion of the
\* system only where an approved override put it
\* (ReconciliationService.createManualMatch, applyManualOverride).
MatchesPairOff ==
    /\ \A i \in Item \ resent : items[i] # NoId =>
         (items[i].status = "matched" <=> Cardinality({m \in matches : i \in m}) = 1)
    /\ \A m \in matches : m \cap resent = {} =>
         Cardinality(m) = 2 /\ Cardinality({items[i].content : i \in m}) = 1
    /\ Cardinality({r \in Result : results[r] # NoId /\ results[r].selected # results[r].suggested})
         <= Cardinality({e \in executed : e.action = "reconciliation_override"})
=============================================================================
