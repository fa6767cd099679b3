-------------------------- MODULE BackOfficeProofs --------------------------
(***************************************************************************)
(* Theorems about the modules of the back office, side by side as in       *)
(* MCBackOffice: that one approval lets one action through and matches     *)
(* pair off and add up, that what is delivered again counts once, that no  *)
(* listing loses a record, that a date is billed once and within the term  *)
(* and taxes add up, that the positions of bills agree with their events,  *)
(* with the ledger and with one another, and that every state has the      *)
(* types it should.                                                        *)
(*                                                                         *)
(* Each section has the inductive invariant of a module, the lemmas that   *)
(* it holds at the start and that the module's steps keep it, and what the *)
(* module promises from it.  The modules share no variable, so at the end  *)
(* a part that does not move keeps its invariant because it stays.         *)
(***************************************************************************)
EXTENDS MCBackOffice, CollectionLemmas

(***************************************************************************)
(* Approvals.  What the log says of a request follows its status, and a    *)
(* request that let an action through is spent, so that the gate never     *)
(* opens for it again.                                                     *)
(***************************************************************************)
Logs(a, what) == <<a, what>> \in audit

ApprovalsInv ==
    /\ requests \in [ApprovalId -> Request \cup {NoId}]
    /\ threshold \in Threshold \cup {NoId}
    /\ IsFiniteSet(executed)
    /\ \A a \in ApprovalId :
         /\ Logs(a, "approved") <=> ApprovalStatus(a) \in {"approved", "consumed"}
         /\ Logs(a, "rejected") <=> ApprovalStatus(a) = "rejected"
         /\ ApprovalStatus(a) # "absent" => Logs(a, "requested")
    /\ \A e \in executed :
         /\ e.action \in SensitiveAction /\ e.request \in ApprovalId
         /\ requests[e.request].action = e.action
         /\ ApprovalStatus(e.request) = "consumed"
         /\ Logs(e.request, "consumed")
         /\ \A f \in executed : f.request = e.request => f = e

LEMMA StatusOf ==
    ASSUME ApprovalsInv, NEW a \in ApprovalId
    PROVE  /\ a # NoId
           /\ requests[a] = NoId => ApprovalStatus(a) = "absent"
           /\ requests[a] # NoId => /\ requests[a] \in Request
                                    /\ ApprovalStatus(a) = requests[a].status
                                    /\ ApprovalStatus(a) # "absent"
<1>1. a # NoId
  BY ApprovalsAssumption
<1>2. requests[a] # NoId => requests[a] \in Request
  BY DEF ApprovalsInv
<1> QED
  BY <1>1, <1>2 DEF ApprovalStatus, Request

\* A step that gives one request a new status and adds to the log what goes
\* with it.
LEMMA RequestMoves ==
    ASSUME ApprovalsInv, NEW a \in ApprovalId, NEW r \in Request,
           requests' = [requests EXCEPT ![a] = r],
           audit \subseteq audit'
    PROVE  /\ requests' \in [ApprovalId -> Request \cup {NoId}]
           /\ ApprovalStatus(a)' = r.status
           /\ \A b \in ApprovalId \ {a} : requests'[b] = requests[b]
                                          /\ ApprovalStatus(b)' = ApprovalStatus(b)
<1>1. requests \in [ApprovalId -> Request \cup {NoId}]
  BY DEF ApprovalsInv
<1>2. /\ requests' \in [ApprovalId -> Request \cup {NoId}]
      /\ requests'[a] = r /\ \A b \in ApprovalId \ {a} : requests'[b] = requests[b]
  BY <1>1
<1>3. a # NoId /\ r # NoId
  BY ApprovalsAssumption
<1> QED
  BY <1>2, <1>3 DEF ApprovalStatus

LEMMA ApprovalsStart == ApprovalsInit => ApprovalsInv
<1> SUFFICES ASSUME ApprovalsInit PROVE ApprovalsInv
  OBVIOUS
<1>1. \A a \in ApprovalId : ApprovalStatus(a) = "absent"
  BY DEF ApprovalsInit, ApprovalStatus
<1>2. IsFiniteSet(executed)
  BY FS_EmptySet DEF ApprovalsInit
<1> QED
  BY <1>1, <1>2 DEF ApprovalsInit, ApprovalsInv, Logs

LEMMA RequestKeeps ==
    ASSUME ApprovalsInv, NEW a \in ApprovalId, NEW action \in SensitiveAction,
           RequestApproval(a, action)
    PROVE  ApprovalsInv'
<1> DEFINE r == [action |-> action, status |-> "pending"]
<1>1. /\ ApprovalStatus(a) = "absent" /\ requests' = [requests EXCEPT ![a] = r]
      /\ audit' = audit \cup {<<a, "requested">>} /\ UNCHANGED <<threshold, executed>>
  BY DEF RequestApproval
<1>2. r \in Request /\ r.status = "pending" /\ audit \subseteq audit'
  BY <1>1 DEF Request
<1> HIDE DEF r
<1>3. /\ requests' \in [ApprovalId -> Request \cup {NoId}]
      /\ ApprovalStatus(a)' = "pending"
      /\ \A b \in ApprovalId \ {a} : requests'[b] = requests[b]
                                     /\ ApprovalStatus(b)' = ApprovalStatus(b)
  BY <1>1, <1>2, RequestMoves
<1>4. ASSUME NEW b \in ApprovalId
      PROVE  /\ Logs(b, "approved")' <=> ApprovalStatus(b)' \in {"approved", "consumed"}
             /\ Logs(b, "rejected")' <=> ApprovalStatus(b)' = "rejected"
             /\ ApprovalStatus(b)' # "absent" => Logs(b, "requested")'
  BY <1>1, <1>3, <1>4 DEF ApprovalsInv, Logs
<1>5. \A e \in executed : e.request # a
  BY <1>1 DEF ApprovalsInv
<1> QED
  BY <1>1, <1>3, <1>4, <1>5 DEF ApprovalsInv, Logs

LEMMA DecisionKeeps ==
    ASSUME ApprovalsInv, NEW a \in ApprovalId, NEW target \in {"approved", "rejected"},
           Transition(a, target)
    PROVE  ApprovalsInv'
<1>1. /\ ApprovalStatus(a) = "pending" /\ requests' = [requests EXCEPT ![a].status = target]
      /\ audit' = audit \cup {<<a, target>>} /\ UNCHANGED <<threshold, executed>>
  BY DEF Transition
<1>2. PICK r : r = [requests[a] EXCEPT !.status = target]
  OBVIOUS
<1>3. requests' = [requests EXCEPT ![a] = r]
  BY <1>1, <1>2
<1>4. r \in Request /\ r.status = target /\ audit \subseteq audit'
  <2>1. requests[a] \in Request
    BY <1>1, StatusOf
  <2> QED
    BY <1>1, <1>2, <2>1 DEF Request
<1>5. /\ requests' \in [ApprovalId -> Request \cup {NoId}]
      /\ ApprovalStatus(a)' = target
      /\ \A b \in ApprovalId \ {a} : requests'[b] = requests[b]
                                     /\ ApprovalStatus(b)' = ApprovalStatus(b)
  BY <1>3, <1>4, RequestMoves
<1>6. ASSUME NEW b \in ApprovalId
      PROVE  /\ Logs(b, "approved")' <=> ApprovalStatus(b)' \in {"approved", "consumed"}
             /\ Logs(b, "rejected")' <=> ApprovalStatus(b)' = "rejected"
             /\ ApprovalStatus(b)' # "absent" => Logs(b, "requested")'
  BY <1>1, <1>5, <1>6 DEF ApprovalsInv, Logs
<1>7. \A e \in executed : e.request # a
  BY <1>1 DEF ApprovalsInv
<1> QED
  BY <1>1, <1>5, <1>6, <1>7 DEF ApprovalsInv, Logs

\* An action at the gate.  Whatever gets through with a request is recorded
\* once more than before; what needs no request leaves everything as it is.
LEMMA ExecuteKeeps ==
    ASSUME ApprovalsInv, NEW action \in SensitiveAction, NEW amount,
           NEW a \in ApprovalId \cup {NoId}, NEW takesEffect \in BOOLEAN,
           Execute(action, amount, a, takesEffect)
    PROVE  /\ ApprovalsInv'
           /\ \/ executed' = executed /\ ~(takesEffect /\ action \in AlwaysRequired)
              \/ \E e : e \notin executed /\ e.action = action /\ executed' = executed \cup {e}
<1>1. CASE ~Requires(action, amount)
  <2>1. UNCHANGED <<requests, audit, executed, threshold>> /\ action \notin AlwaysRequired
    BY <1>1 DEF Execute, Requires
  <2>2. ApprovalsInv'
    BY <2>1 DEF ApprovalsInv, ApprovalStatus, Logs
  <2> QED
    BY <2>1, <2>2
<1>2. CASE Requires(action, amount)
  <2>1. /\ ApprovalStatus(a) = "approved" /\ requests[a].action = action
        /\ requests' = [requests EXCEPT ![a].status = "consumed"]
        /\ audit' = IF takesEffect \/ action \notin InTransaction
                    THEN audit \cup {<<a, "consumed">>} ELSE audit
        /\ executed' = IF takesEffect
                       THEN executed \cup {[action |-> action, request |-> a,
                                            nth |-> Cardinality(executed) + 1]}
                       ELSE executed
        /\ UNCHANGED threshold
    BY <1>2 DEF Execute, Opens, Spent
  <2>2. a \in ApprovalId
    BY <2>1 DEF ApprovalStatus
  <2>3. PICK r : r = [requests[a] EXCEPT !.status = "consumed"]
    OBVIOUS
  <2>4. requests' = [requests EXCEPT ![a] = r]
    BY <2>1, <2>3
  <2>5. r \in Request /\ r.status = "consumed" /\ r.action = action /\ audit \subseteq audit'
    <3>1. requests[a] \in Request
      BY <2>1, <2>2, StatusOf
    <3> QED
      BY <2>1, <2>3, <3>1 DEF Request
  <2>6. /\ requests' \in [ApprovalId -> Request \cup {NoId}]
        /\ ApprovalStatus(a)' = "consumed"
        /\ \A b \in ApprovalId \ {a} : requests'[b] = requests[b]
                                       /\ ApprovalStatus(b)' = ApprovalStatus(b)
    BY <2>2, <2>4, <2>5, RequestMoves
  <2>7. requests'[a].action = action
    BY <2>2, <2>4, <2>5 DEF ApprovalsInv
  <2>8. ASSUME NEW b \in ApprovalId
        PROVE  /\ Logs(b, "approved")' <=> ApprovalStatus(b)' \in {"approved", "consumed"}
               /\ Logs(b, "rejected")' <=> ApprovalStatus(b)' = "rejected"
               /\ ApprovalStatus(b)' # "absent" => Logs(b, "requested")'
    <3>1. /\ Logs(b, "approved")' <=> Logs(b, "approved")
          /\ Logs(b, "rejected")' <=> Logs(b, "rejected")
          /\ Logs(b, "requested")' <=> Logs(b, "requested")
      BY <2>1 DEF Logs
    <3> QED
      BY <2>1, <2>6, <3>1 DEF ApprovalsInv
  <2>9. \A e \in executed : e.request # a
    BY <2>1 DEF ApprovalsInv
  <2>10. CASE ~takesEffect
    <3>1. executed' = executed
      BY <2>1, <2>10
    <3>2. ApprovalsInv'
      BY <2>1, <2>5, <2>6, <2>8, <2>9, <3>1 DEF ApprovalsInv, Logs
    <3> QED
      BY <2>10, <3>1, <3>2
  <2>11. CASE takesEffect
    <3>1. PICK e : e = [action |-> action, request |-> a, nth |-> Cardinality(executed) + 1]
      OBVIOUS
    <3>2. /\ executed' = executed \cup {e} /\ e.request = a /\ e.action = action
          /\ e \notin executed
      BY <2>1, <2>9, <2>11, <3>1
    <3>3. Logs(a, "consumed")'
      BY <2>1, <2>11 DEF Logs
    <3>4. IsFiniteSet(executed')
      BY <3>2, FS_AddElement DEF ApprovalsInv
    <3>5. ASSUME NEW f \in executed'
          PROVE  /\ f.action \in SensitiveAction /\ f.request \in ApprovalId
                 /\ requests'[f.request].action = f.action
                 /\ ApprovalStatus(f.request)' = "consumed"
                 /\ Logs(f.request, "consumed")'
                 /\ \A g \in executed' : g.request = f.request => g = f
      <4>1. CASE f = e
        BY <2>2, <2>6, <2>7, <2>9, <3>2, <3>3, <4>1
      <4>2. CASE f \in executed
        <5>1. f.request \in ApprovalId \ {a} /\ Logs(f.request, "consumed")
          BY <2>9, <4>2 DEF ApprovalsInv
        <5>2. Logs(f.request, "consumed")'
          BY <2>5, <5>1 DEF Logs
        <5> QED
          BY <2>6, <3>2, <4>2, <5>1, <5>2 DEF ApprovalsInv
      <4> QED
        BY <3>2, <4>1, <4>2
    <3>6. ApprovalsInv'
      BY <2>1, <2>6, <2>8, <3>4, <3>5 DEF ApprovalsInv
    <3> QED
      BY <3>2, <3>6
  <2> QED
    BY <2>10, <2>11
<1> QED
  BY <1>1, <1>2

LEMMA ApprovalsKeep ==
    ASSUME ApprovalsInv, ApprovalsNext
    PROVE  ApprovalsInv' /\ executed \subseteq executed'
<1>1. CASE \E n \in Threshold : ConfigureThreshold(n)
  BY <1>1 DEF ConfigureThreshold, ApprovalsInv, ApprovalStatus, Logs
<1>2. CASE \E a \in ApprovalId, action \in SensitiveAction : RequestApproval(a, action)
  <2>1. executed' = executed
    BY <1>2 DEF RequestApproval
  <2> QED
    BY <1>2, <2>1, RequestKeeps
<1>3. CASE \E a \in ApprovalId, target \in {"approved", "rejected"} : Transition(a, target)
  <2>1. executed' = executed
    BY <1>3 DEF Transition
  <2> QED
    BY <1>3, <2>1, DecisionKeeps
<1>4. CASE \E action \in SensitiveAction, a \in ApprovalId \cup {NoId}, amount \in GatedAmount :
             \E takesEffect \in BOOLEAN : Execute(action, amount, a, takesEffect)
  BY <1>4, ExecuteKeeps
<1> QED
  BY <1>1, <1>2, <1>3, <1>4 DEF ApprovalsNext

LEMMA SpentOnce == ApprovalsInv => ApprovalsAreSpentOnce
<1> SUFFICES ASSUME ApprovalsInv PROVE ApprovalsAreSpentOnce
  OBVIOUS
<1>1. ASSUME NEW e \in executed
      PROVE  /\ requests[e.request].action = e.action
             /\ requests[e.request].status = "consumed"
             /\ {<<e.request, "requested">>, <<e.request, "approved">>, <<e.request, "consumed">>}
                  \subseteq audit
             /\ \A f \in executed : f.request = e.request => f = e
  <2>1. e.request \in ApprovalId /\ ApprovalStatus(e.request) = "consumed"
    BY DEF ApprovalsInv
  <2>2. /\ requests[e.request].status = "consumed"
        /\ Logs(e.request, "requested") /\ Logs(e.request, "approved")
    BY <2>1, StatusOf DEF ApprovalsInv
  <2> QED
    BY <2>2 DEF ApprovalsInv, Logs
<1>2. \A a \in ApprovalId : Logs(a, "rejected") => ~Logs(a, "approved")
  BY DEF ApprovalsInv
<1> QED
  BY <1>1, <1>2 DEF ApprovalsAreSpentOnce, Logs

(***************************************************************************)
(* Overrides.  A result departs from its suggestion only together with an  *)
(* override that passed the gate.                                          *)
(***************************************************************************)
Departed == {r \in Result : results[r] # NoId /\ results[r].selected # results[r].suggested}
Overrides == {e \in executed : e.action = "reconciliation_override"}

OverridesInv ==
    /\ ApprovalsInv
    /\ results \in [Result -> ResultRecord \cup {NoId}]
    /\ IsFiniteSet(Departed)
    /\ Cardinality(Departed) <= Cardinality(Overrides)

\* What took effect stays in effect, so the overrides can only become more.
LEMMA OverridesGrow ==
    ASSUME executed \subseteq executed', IsFiniteSet(executed')
    PROVE  /\ Cardinality(Overrides) \in Nat /\ Cardinality(Overrides') \in Nat
           /\ Cardinality(Overrides) <= Cardinality(Overrides')
<1>1. IsFiniteSet(Overrides') /\ Overrides \subseteq Overrides'
  <2>1. Overrides' \subseteq executed'
    BY DEF Overrides
  <2> QED
    BY <2>1, FS_Subset DEF Overrides
<1>2. IsFiniteSet(Overrides) /\ Cardinality(Overrides) <= Cardinality(Overrides')
  BY <1>1, FS_Subset
<1> QED
  BY <1>1, <1>2, FS_CardinalityType

LEMMA OverrideCounts ==
    ASSUME IsFiniteSet(executed), NEW e, e \notin executed, executed' = executed \cup {e},
           e.action = "reconciliation_override"
    PROVE  /\ Cardinality(Overrides) \in Nat
           /\ Cardinality(Overrides') = Cardinality(Overrides) + 1
<1>1. Overrides' = Overrides \cup {e} /\ e \notin Overrides
  BY DEF Overrides
<1>2. IsFiniteSet(Overrides)
  BY FS_Subset DEF Overrides
<1>3. Cardinality(Overrides \cup {e}) = Cardinality(Overrides) + 1
  BY <1>1, <1>2, FS_AddElement
<1>4. Cardinality(Overrides) \in Nat
  BY <1>2, FS_CardinalityType
<1> QED
  BY <1>1, <1>3, <1>4, Zenon

LEMMA OverridesStart == ReconciliationInit => OverridesInv
<1> SUFFICES ASSUME ReconciliationInit PROVE OverridesInv
  OBVIOUS
<1>1. ApprovalsInv /\ executed = {}
  BY ApprovalsStart DEF ReconciliationInit, ApprovalsInit
<1>2. results = [r \in Result |-> NoId] /\ Departed = {} /\ Overrides = {}
  BY <1>1 DEF ReconciliationInit, Departed, Overrides
<1> QED
  BY <1>1, <1>2, FS_EmptySet DEF OverridesInv

LEMMA SuggestionKeeps ==
    ASSUME OverridesInv, NEW r \in Result, NEW candidates \in SUBSET Candidate,
           NEW suggested \in Candidate \cup {NoId}, CreateSuggestion(r, candidates, suggested)
    PROVE  OverridesInv'
<1> DEFINE new == [candidates |-> candidates, suggested |-> suggested,
                   selected |-> suggested, status |-> "suggested"]
<1>1. new \in ResultRecord /\ new.selected = new.suggested
  BY DEF ResultRecord
<1>2. results[r] = NoId /\ results' = [results EXCEPT ![r] = new] /\ UNCHANGED approvalVars
  BY DEF CreateSuggestion
<1> HIDE DEF new
<1>3. results' \in [Result -> ResultRecord \cup {NoId}] /\ Departed' = Departed
  BY <1>1, <1>2 DEF OverridesInv, Departed
<1>4. UNCHANGED <<requests, threshold, audit, executed>>
  BY <1>2 DEF approvalVars
<1>5. ApprovalsInv' /\ Overrides' = Overrides
  BY <1>4 DEF OverridesInv, ApprovalsInv, ApprovalStatus, Logs, Overrides
<1> QED
  BY <1>3, <1>5 DEF OverridesInv

LEMMA OverrideKeeps ==
    ASSUME OverridesInv, NEW r \in Result, NEW selected \in Candidate,
           NEW reasoned \in BOOLEAN, NEW a \in ApprovalId,
           ApplyManualOverride(r, selected, reasoned, a)
    PROVE  OverridesInv'
<1>1. PICK takesEffect \in BOOLEAN : takesEffect <=> MayOverride(r, selected, reasoned)
  OBVIOUS
<1>2. Execute("reconciliation_override", 0, a, takesEffect)
  <2>1. CASE MayOverride(r, selected, reasoned)
    BY <1>1, <2>1 DEF ApplyManualOverride, Execute
  <2>2. CASE ~MayOverride(r, selected, reasoned)
    BY <1>1, <2>2 DEF ApplyManualOverride, Execute
  <2> QED
    BY <2>1, <2>2
<1>3. "reconciliation_override" \in AlwaysRequired
  BY DEF AlwaysRequired, SensitiveAction
<1>4. /\ ApprovalsInv'
      /\ \/ executed' = executed /\ ~takesEffect
         \/ \E e : /\ e \notin executed /\ e.action = "reconciliation_override"
                   /\ executed' = executed \cup {e}
  BY <1>2, <1>3, ExecuteKeeps DEF OverridesInv, AlwaysRequired
<1>5. IsFiniteSet(executed)
  BY DEF OverridesInv, ApprovalsInv
<1>6. CASE ~takesEffect
  <2>1. results' = results
    BY <1>1, <1>6 DEF ApplyManualOverride
  <2>2. Departed' = Departed
    BY <2>1 DEF Departed
  <2>3. Cardinality(Overrides) <= Cardinality(Overrides') /\ Cardinality(Overrides') \in Nat
        /\ Cardinality(Overrides) \in Nat
    <3>1. executed \subseteq executed' /\ IsFiniteSet(executed')
      BY <1>4 DEF ApprovalsInv
    <3> QED
      BY <3>1, OverridesGrow
  <2>4. Cardinality(Departed) \in Nat
    BY FS_CardinalityType DEF OverridesInv
  <2> QED
    BY <1>4, <2>1, <2>2, <2>3, <2>4 DEF OverridesInv
<1>7. CASE takesEffect
  <2>1. PICK e : /\ e \notin executed /\ e.action = "reconciliation_override"
                 /\ executed' = executed \cup {e}
    BY <1>4, <1>7
  <2>2. /\ Cardinality(Overrides') = Cardinality(Overrides) + 1
        /\ Cardinality(Overrides) \in Nat
    BY <1>5, <2>1, OverrideCounts
  <2>3. PICK new : new = [results[r] EXCEPT !.selected = selected, !.status = "manually_matched"]
    OBVIOUS
  <2>4. results[r] # NoId /\ results' = [results EXCEPT ![r] = new]
    BY <1>1, <1>7, <2>3 DEF ApplyManualOverride, MayOverride, OverridesInv
  <2>5. new \in ResultRecord
    BY <2>3, <2>4 DEF OverridesInv, ResultRecord
  <2>6. /\ results' \in [Result -> ResultRecord \cup {NoId}]
        /\ Departed' \subseteq Departed \cup {r}
    BY <2>4, <2>5 DEF OverridesInv, Departed
  <2>7. /\ IsFiniteSet(Departed \cup {r}) /\ Cardinality(Departed) \in Nat
        /\ Cardinality(Departed \cup {r}) <= Cardinality(Departed) + 1
    <3>1. IsFiniteSet(Departed)
      BY DEF OverridesInv
    <3>2. Cardinality(Departed) \in Nat
      BY <3>1, FS_CardinalityType
    <3>3. PICK D : D = Departed
      OBVIOUS
    <3>4. /\ IsFiniteSet(D \cup {r})
          /\ Cardinality(D \cup {r}) = IF r \in D THEN Cardinality(D) ELSE Cardinality(D) + 1
      BY <3>1, <3>3, FS_AddElement
    <3> QED
      BY <3>2, <3>3, <3>4
  <2>8. /\ IsFiniteSet(Departed') /\ Cardinality(Departed') <= Cardinality(Departed \cup {r})
        /\ Cardinality(Departed') \in Nat /\ Cardinality(Departed \cup {r}) \in Nat
    BY <2>6, <2>7, FS_Subset, FS_CardinalityType
  <2> QED
    BY <1>4, <2>2, <2>6, <2>7, <2>8 DEF OverridesInv
<1> QED
  BY <1>6, <1>7

LEMMA OverridesKeep ==
    ASSUME OverridesInv, OverridesNext PROVE OverridesInv'
<1>1. CASE ApprovalsNext /\ UNCHANGED reconVars
  <2>1. results' = results /\ Departed' = Departed
    BY <1>1 DEF reconVars, Departed
  <2>2. /\ ApprovalsInv'
        /\ executed \subseteq executed'
    BY <1>1, ApprovalsKeep DEF OverridesInv
  <2>3. executed \subseteq executed' /\ IsFiniteSet(executed')
    BY <2>2 DEF ApprovalsInv
  <2>4. /\ Cardinality(Overrides) <= Cardinality(Overrides') /\ Cardinality(Overrides') \in Nat
        /\ Cardinality(Overrides) \in Nat
    BY <2>3, OverridesGrow
  <2>5. Cardinality(Departed) \in Nat
    BY FS_CardinalityType DEF OverridesInv
  <2> QED
    BY <2>1, <2>2, <2>4, <2>5 DEF OverridesInv
<1>2. CASE \E r \in Result, selected \in Candidate :
             \/ \E candidates \in SUBSET Candidate, suggested \in Candidate \cup {NoId} :
                  CreateSuggestion(r, candidates, suggested)
             \/ \E reasoned \in BOOLEAN, a \in ApprovalId :
                  ApplyManualOverride(r, selected, reasoned, a)
  BY <1>2, SuggestionKeeps, OverrideKeeps
<1> QED
  BY <1>1, <1>2 DEF OverridesNext

(***************************************************************************)
(* Manual matches.  Only a match marks an item as matched, and only an     *)
(* item sent again loses the mark.                                         *)
(***************************************************************************)
MatchesOf(i) == {m \in matches : i \in m}

ItemsInv ==
    /\ items \in [Item -> ItemRecord \cup {NoId}]
    /\ \A m \in matches : \E i, j \in Item : i # j /\ m = {i, j}
    /\ \A m \in matches : \A i \in m : items[i] # NoId
    /\ \A m \in matches : m \cap resent = {} => \A i, j \in m : items[i].content = items[j].content
    /\ \A i \in Item \ resent : items[i] # NoId =>
         \/ items[i].status = "unmatched" /\ MatchesOf(i) = {}
         \/ items[i].status = "matched" /\ \E m \in matches : MatchesOf(i) = {m}

LEMMA ItemsStart == ReconciliationInit => ItemsInv
BY DEF ReconciliationInit, ItemsInv, MatchesOf

LEMMA UpsertKeeps ==
    ASSUME ItemsInv, NEW i \in Item, NEW content \in ItemContent, UpsertItem(i, content)
    PROVE  ItemsInv'
<1>1. PICK new : new = [content |-> content, status |-> "unmatched"]
  OBVIOUS
<1>2. new \in ItemRecord /\ new.status = "unmatched" /\ new # NoId
  BY <1>1, ReconciliationAssumption DEF ItemRecord
<1>3. /\ items' = [items EXCEPT ![i] = new] /\ matches' = matches
      /\ resent \subseteq resent' /\ resent' \subseteq resent \cup {i}
      /\ (items[i] # NoId /\ items[i].status = "matched") => i \in resent'
  BY <1>1 DEF UpsertItem
<1>4. /\ items' \in [Item -> ItemRecord \cup {NoId}] /\ items'[i] = new
      /\ \A j \in Item \ {i} : items'[j] = items[j]
  BY <1>2, <1>3 DEF ItemsInv
<1>5. \A j : MatchesOf(j)' = MatchesOf(j)
  BY <1>3 DEF MatchesOf
<1>6. \A m \in matches' : \A j \in m : j \in Item /\ items'[j] # NoId
  BY <1>2, <1>3, <1>4 DEF ItemsInv
<1>7. i \notin resent' => MatchesOf(i) = {}
  <2> SUFFICES ASSUME i \notin resent' PROVE MatchesOf(i) = {}
    OBVIOUS
  <2>1. CASE items[i] = NoId
    BY <2>1 DEF ItemsInv, MatchesOf
  <2>2. CASE items[i] # NoId
    BY <1>3, <2>2 DEF ItemsInv
  <2> QED
    BY <2>1, <2>2
<1>8. ASSUME NEW m \in matches, m \cap resent' = {} PROVE \A j, k \in m : items'[j].content = items'[k].content
  <2>1. m \cap resent = {} /\ i \notin m
    BY <1>3, <1>7, <1>8 DEF MatchesOf
  <2> QED
    BY <1>4, <1>6, <1>3, <2>1 DEF ItemsInv
<1>9. ASSUME NEW j \in Item \ resent', items'[j] # NoId
      PROVE  \/ items'[j].status = "unmatched" /\ MatchesOf(j)' = {}
             \/ items'[j].status = "matched" /\ \E m \in matches' : MatchesOf(j)' = {m}
  <2>1. CASE j = i
    BY <1>2, <1>4, <1>5, <1>7, <2>1
  <2>2. CASE j # i
    BY <1>3, <1>4, <1>5, <1>9, <2>2 DEF ItemsInv
  <2> QED
    BY <2>1, <2>2
<1> QED
  BY <1>3, <1>4, <1>6, <1>8, <1>9 DEF ItemsInv

LEMMA MatchKeeps ==
    ASSUME ItemsInv, NEW i \in Item, NEW j \in Item, CreateManualMatch(i, j)
    PROVE  ItemsInv'
<1>1. /\ i # j /\ items[i] # NoId /\ items[j] # NoId
      /\ items[i].status = "unmatched" /\ items[j].status = "unmatched"
      /\ items[i].content.currency = items[j].content.currency
      /\ items[i].content.amount = items[j].content.amount
      /\ matches' = matches \cup {{i, j}} /\ resent' = resent
      /\ items' = [items EXCEPT ![i].status = "matched", ![j].status = "matched"]
  BY DEF CreateManualMatch, MayMatch
<1>2. items[i] \in ItemRecord /\ items[j] \in ItemRecord
  BY <1>1 DEF ItemsInv
<1>3. items[i].content = items[j].content
  BY <1>1, <1>2, ReconciliationAssumption DEF ItemRecord
<1>4. /\ items' \in [Item -> ItemRecord \cup {NoId}]
      /\ \A k \in Item \ {i, j} : items'[k] = items[k]
      /\ \A k \in {i, j} : /\ items'[k].status = "matched" /\ items'[k].content = items[k].content
                           /\ items'[k] \in ItemRecord
  <2>1. PICK a : a = [items[i] EXCEPT !.status = "matched"]
    OBVIOUS
  <2>2. PICK b : b = [items[j] EXCEPT !.status = "matched"]
    OBVIOUS
  <2>3. items' = [items EXCEPT ![i] = a, ![j] = b]
    BY <1>1, <2>1, <2>2 DEF ItemsInv
  <2>4. /\ a \in ItemRecord /\ a.status = "matched" /\ a.content = items[i].content
        /\ b \in ItemRecord /\ b.status = "matched" /\ b.content = items[j].content
    BY <1>2, <2>1, <2>2 DEF ItemRecord
  <2>5. items' = [k \in Item |-> IF k = j THEN b ELSE IF k = i THEN a ELSE items[k]]
    BY <1>1, <2>3 DEF ItemsInv
  <2> QED
    BY <1>1, <2>4, <2>5 DEF ItemsInv
<1>5. \A k \in Item : items[k] # NoId => items'[k] # NoId
  BY <1>4, ReconciliationAssumption
<1>6. PICK n : n = {i, j}
  OBVIOUS
<1>7. /\ matches' = matches \cup {n} /\ i \in n /\ j \in n /\ \A k \in n : k = i \/ k = j
      /\ \A k : MatchesOf(k)' = IF k \in n THEN MatchesOf(k) \cup {n} ELSE MatchesOf(k)
  BY <1>1, <1>6 DEF MatchesOf
<1>8. \A k \in n : k \notin resent => MatchesOf(k) = {}
  BY <1>1, <1>7 DEF ItemsInv
<1>9. ASSUME NEW m \in matches'
      PROVE  /\ \E x, y \in Item : x # y /\ m = {x, y}
             /\ \A k \in m : items'[k] # NoId
             /\ m \cap resent' = {} => \A x, y \in m : items'[x].content = items'[y].content
  <2>1. CASE m = n
    <3>1. \A k \in m : items'[k] # NoId /\ items'[k].content = items[i].content
      BY <1>1, <1>3, <1>4, <1>5, <1>6, <2>1
    <3> QED
      BY <1>1, <1>6, <2>1, <3>1
  <2>2. CASE m \in matches
    <3>1. \A k \in m : k \in Item /\ items[k] # NoId
      BY <2>2 DEF ItemsInv
    <3>2. \A k \in Item : items'[k].content = items[k].content
      BY <1>4
    <3> QED
      BY <1>1, <1>5, <2>2, <3>1, <3>2 DEF ItemsInv
  <2> QED
    BY <1>7, <2>1, <2>2
<1>10. ASSUME NEW k \in Item \ resent', items'[k] # NoId
       PROVE  \/ items'[k].status = "unmatched" /\ MatchesOf(k)' = {}
              \/ items'[k].status = "matched" /\ \E m \in matches' : MatchesOf(k)' = {m}
  <2>1. CASE k \in n
    <3>1. MatchesOf(k)' = {n} /\ items'[k].status = "matched"
      BY <1>1, <1>4, <1>6, <1>7, <1>8, <2>1
    <3> QED
      BY <1>7, <3>1
  <2>2. CASE k \notin n
    <3>1. items'[k] = items[k] /\ MatchesOf(k)' = MatchesOf(k)
      BY <1>4, <1>6, <1>7, <2>2
    <3> QED
      BY <1>1, <1>7, <1>10, <3>1 DEF ItemsInv
  <2> QED
    BY <2>1, <2>2
<1> QED
  BY <1>4, <1>9, <1>10 DEF ItemsInv

LEMMA ItemsKeep == ASSUME ItemsInv, MatchesNext PROVE ItemsInv'
BY UpsertKeeps, MatchKeeps DEF MatchesNext

LEMMA ItemsPairOff ==
    ASSUME ItemsInv
    PROVE  /\ \A i \in Item \ resent : items[i] # NoId =>
                (items[i].status = "matched" <=> Cardinality({m \in matches : i \in m}) = 1)
           /\ \A m \in matches : m \cap resent = {} =>
                Cardinality(m) = 2 /\ Cardinality({items[i].content : i \in m}) = 1
<1>1. ASSUME NEW i \in Item \ resent, items[i] # NoId
      PROVE  items[i].status = "matched" <=> Cardinality({m \in matches : i \in m}) = 1
  <2>1. CASE items[i].status = "unmatched" /\ MatchesOf(i) = {}
    <3>1. Cardinality(MatchesOf(i)) = 0
      BY <2>1, FS_EmptySet
    <3> QED
      BY <2>1, <3>1 DEF MatchesOf
  <2>2. CASE items[i].status = "matched" /\ \E m \in matches : MatchesOf(i) = {m}
    <3>1. Cardinality(MatchesOf(i)) = 1
      BY <2>2, FS_Singleton
    <3> QED
      BY <2>2, <3>1 DEF MatchesOf
  <2> QED
    BY <1>1, <2>1, <2>2 DEF ItemsInv
<1>2. ASSUME NEW m \in matches, m \cap resent = {}
      PROVE  Cardinality(m) = 2 /\ Cardinality({items[i].content : i \in m}) = 1
  <2>1. PICK i \in Item, j \in Item : i # j /\ m = {i, j}
    BY DEF ItemsInv
  <2>2. Cardinality(m) = 2
    <3>1. IsFiniteSet({i}) /\ Cardinality({i}) = 1 /\ j \notin {i} /\ m = {i} \cup {j}
      BY <2>1, FS_Singleton
    <3>2. Cardinality({i} \cup {j}) = Cardinality({i}) + 1
      BY <3>1, FS_AddElement
    <3> QED
      BY <3>1, <3>2
  <2>3. {items[k].content : k \in m} = {items[i].content}
    BY <1>2, <2>1 DEF ItemsInv
  <2> QED
    BY <2>2, <2>3, FS_Singleton
<1> QED
  BY <1>1, <1>2

(***************************************************************************)
(* Polling.  A pull under way may store an older checkpoint than the one   *)
(* there is, but never one with a gap behind it: what is behind the cursor *)
(* a pull was asked for is stored, and the pull stores its page.           *)
(***************************************************************************)
Behind(c) == \A i \in 1 .. c : Key(i) \in raw

PullState ==
    {Idle} \cup [phase : {"asked"}, cursor : Cursor]
           \cup [phase : {"answered"}, cursor : Cursor, upto : Cursor, next : Cursor \cup {NoCursor}]

PollingInv ==
    /\ available \in Cursor /\ checkpoint \in Cursor
    /\ raw \subseteq Keys(1, Len(Feed)) /\ normalized \subseteq raw
    /\ pulls \in [Pull -> PullState]
    /\ Behind(checkpoint)
    /\ \A p \in Pull :
         /\ pulls[p] # Idle => Behind(pulls[p].cursor)
         /\ pulls[p].phase = "answered" => pulls[p].next \in {pulls[p].upto, NoCursor}
    /\ \A k \in raw \ normalized : \E i \in 1 .. Len(Feed) : Key(i) = k /\ ~Feed[i].wellFormed

LEMMA FeedLength == Len(Feed) \in Nat /\ \A c \in Cursor : c \in Nat /\ c <= Len(Feed)
<1>1. Len(Feed) \in Nat
  BY PollingAssumption
<1> QED
  BY <1>1 DEF Cursor

LEMMA MinIsLeast ==
    ASSUME NEW T \in SUBSET Nat, T # {}
    PROVE  Min(T) \in T /\ \A x \in T : Min(T) <= x
BY LeastElement DEF Min

LEMMA PollingStart == PollingInit => PollingInv
<1> SUFFICES ASSUME PollingInit PROVE PollingInv
  OBVIOUS
<1>1. 0 \in Cursor
  BY FeedLength DEF Cursor
<1>2. Behind(0) /\ Idle \in PullState /\ Idle.phase = "idle"
  BY DEF Behind, PullState, Idle
<1> QED
  BY <1>1, <1>2 DEF PollingInit, PollingInv

\* A step of one pull that stores nothing.
LEMMA PullMoves ==
    ASSUME PollingInv, NEW p \in Pull, NEW s \in PullState, pulls' = [pulls EXCEPT ![p] = s],
           s # Idle => Behind(s.cursor), s.phase = "answered" => s.next \in {s.upto, NoCursor},
           UNCHANGED <<available, raw, normalized, checkpoint>>
    PROVE  PollingInv'
<1>1. \A c : Behind(c)' = Behind(c)
  BY DEF Behind
<1>2. pulls' \in [Pull -> PullState] /\ pulls'[p] = s /\ \A q \in Pull \ {p} : pulls'[q] = pulls[q]
  BY DEF PollingInv
<1>3. Behind(checkpoint)'
  BY <1>1 DEF PollingInv, Behind
<1>4. ASSUME NEW q \in Pull
      PROVE  /\ pulls'[q] # Idle => Behind(pulls[q].cursor)'
             /\ pulls'[q].phase = "answered" => pulls'[q].next \in {pulls'[q].upto, NoCursor}
  <2>1. CASE q = p
    BY <1>2, <2>1 DEF Behind
  <2>2. CASE q # p
    BY <1>2, <2>2 DEF PollingInv, Behind
  <2> QED
    BY <2>1, <2>2
<1> QED
  BY <1>2, <1>3, <1>4 DEF PollingInv

LEMMA AskKeeps ==
    ASSUME PollingInv, NEW p \in Pull, PullFromApi(p) PROVE PollingInv'
<1>1. PICK s : s = [phase |-> "asked", cursor |-> checkpoint]
  OBVIOUS
<1>2. s \in PullState /\ s.phase = "asked" /\ Behind(s.cursor)
  BY <1>1 DEF PollingInv, PullState
<1> QED
  BY <1>1, <1>2, PullMoves DEF PullFromApi

LEMMA AnswerKeeps ==
    ASSUME PollingInv, NEW p \in Pull, Answer(p) PROVE PollingInv'
<1>1. PICK upto : upto = Min({pulls[p].cursor + PageSize, available})
  OBVIOUS
<1>2. PICK next \in {upto, NoCursor} :
         pulls' = [pulls EXCEPT ![p] = [phase |-> "answered", cursor |-> pulls[p].cursor,
                                        upto |-> upto, next |-> next]]
  BY <1>1 DEF Answer
<1>3. PICK s : s = [phase |-> "answered", cursor |-> pulls[p].cursor, upto |-> upto, next |-> next]
  OBVIOUS
<1>4. pulls[p].cursor \in Cursor /\ pulls[p] # Idle /\ Behind(pulls[p].cursor)
  BY DEF Answer, PollingInv, PullState, Idle
<1>5. upto \in Cursor
  <2>1. /\ pulls[p].cursor \in Nat /\ available \in Nat /\ available <= Len(Feed)
        /\ PageSize \in Nat
    BY <1>4, FeedLength, PollingAssumption DEF PollingInv
  <2>2. PICK T : T = {pulls[p].cursor + PageSize, available}
    OBVIOUS
  <2>3. T \in SUBSET Nat /\ T # {} /\ available \in T
    BY <2>1, <2>2
  <2>4. Min(T) \in T /\ Min(T) <= available
    BY <2>3, MinIsLeast
  <2> QED
    BY <1>1, <2>1, <2>2, <2>3, <2>4, FeedLength DEF Cursor
<1>6. s \in PullState /\ Behind(s.cursor) /\ s.next \in {s.upto, NoCursor}
  BY <1>2, <1>3, <1>4, <1>5 DEF PullState
<1> QED
  BY <1>2, <1>3, <1>6, PullMoves DEF Answer

LEMMA StopIsNumber ==
    ASSUME NEW p, pulls[p].cursor \in Nat, pulls[p].upto \in Nat
    PROVE  Stop(p) \in Nat /\ Stop(p) \in Malformed(p) \cup {pulls[p].upto + 1}
<1>1. PICK T : T = Malformed(p) \cup {pulls[p].upto + 1}
  OBVIOUS
<1>2. T \in SUBSET Nat /\ T # {}
  BY <1>1 DEF Malformed, New
<1>3. Min(T) \in T
  BY <1>2, MinIsLeast
<1> QED
  BY <1>1, <1>2, <1>3 DEF Stop

LEMMA StopAtEnd ==
    ASSUME NEW p, pulls[p].cursor \in Nat, pulls[p].upto \in Nat, Malformed(p) = {}
    PROVE  Stop(p) = pulls[p].upto + 1
BY StopIsNumber

\* Up to where the processing stops, every record of the page is stored.
LEMMA PageIsStored ==
    ASSUME PollingInv, NEW p \in Pull, FinishPull(p),
           NEW i \in pulls[p].cursor + 1 .. pulls[p].upto, i <= Stop(p)
    PROVE  Key(i) \in raw'
<1>1. pulls[p].cursor \in Nat /\ pulls[p].upto \in Nat
  BY FeedLength DEF FinishPull, PollingInv, PullState, Idle
<1>2. PICK T : T = {j \in pulls[p].cursor + 1 .. i : Key(j) = Key(i)}
  OBVIOUS
<1>3. T \in SUBSET Nat /\ i \in T
  BY <1>1, <1>2
<1>4. PICK j \in T : \A k \in T : j <= k
  BY <1>3, LeastElement
<1>5. j \in pulls[p].cursor + 1 .. pulls[p].upto /\ j <= i /\ Key(j) = Key(i) /\ j \in Nat
  BY <1>1, <1>2, <1>3, <1>4
<1>6. Key(j) \notin Keys(pulls[p].cursor + 1, j - 1)
  <2> SUFFICES ASSUME NEW k \in pulls[p].cursor + 1 .. j - 1, Key(k) = Key(j) PROVE FALSE
    BY DEF Keys
  <2>1. k \in T /\ k < j /\ k \in Nat
    BY <1>1, <1>2, <1>5
  <2> QED
    BY <1>4, <1>5, <2>1
<1>7. CASE Key(j) \in raw
  BY <1>5, <1>7 DEF FinishPull
<1>8. CASE Key(j) \notin raw
  <2>1. j \in New(p)
    BY <1>5, <1>6, <1>8 DEF New
  <2>2. j <= Stop(p)
    <3>1. Stop(p) \in Nat
      BY <1>1, StopIsNumber
    <3> QED
      BY <1>1, <1>5, <3>1
  <2> QED
    BY <1>5, <2>1, <2>2 DEF FinishPull
<1> QED
  BY <1>7, <1>8

LEMMA FinishKeeps ==
    ASSUME PollingInv, NEW p \in Pull, FinishPull(p) PROVE PollingInv'
<1>1. /\ pulls[p].phase = "answered" /\ pulls[p] # Idle
      /\ pulls[p].cursor \in Cursor /\ pulls[p].upto \in Cursor
      /\ pulls[p].cursor \in Nat /\ pulls[p].upto \in Nat
      /\ pulls[p].upto <= Len(Feed) /\ Len(Feed) \in Nat
      /\ pulls[p].next \in {pulls[p].upto, NoCursor}
      /\ Behind(pulls[p].cursor)
  BY FeedLength DEF FinishPull, PollingInv, PullState, Idle
<1>2. /\ raw \subseteq raw' /\ normalized' \subseteq raw' /\ UNCHANGED available
      /\ pulls' = [pulls EXCEPT ![p] = Idle] /\ checkpoint' = CheckpointAfter(p)
  <2>1. PICK reached : reached = {Key(i) : i \in {n \in New(p) : n <= Stop(p)}}
    OBVIOUS
  <2>2. PICK good : good = {Key(i) : i \in {n \in New(p) : n < Stop(p)}}
    OBVIOUS
  <2>3. good \subseteq reached
    <3>1. \A n \in New(p) : n \in Nat
      BY <1>1 DEF New
    <3>2. Stop(p) \in Nat
      BY <1>1, StopIsNumber
    <3> QED
      BY <2>1, <2>2, <3>1, <3>2
  <2>4. raw' = raw \cup reached /\ normalized' = normalized \cup good
    BY <2>1, <2>2 DEF FinishPull
  <2> QED
    BY <2>3, <2>4 DEF FinishPull, PollingInv
<1>3. raw' \subseteq Keys(1, Len(Feed))
  <2>1. \A n \in New(p) : n \in 1 .. Len(Feed)
    BY <1>1 DEF New
  <2>2. \A n \in New(p) : Key(n) \in Keys(1, Len(Feed))
    BY <2>1 DEF Keys
  <2> QED
    BY <2>2 DEF FinishPull, PollingInv
<1>4. \A c : Behind(c) => Behind(c)'
  BY <1>2 DEF Behind
<1>5. Behind(checkpoint)'
  <2>1. CASE Malformed(p) # {}
    <3>1. checkpoint' = checkpoint
      BY <1>2, <2>1 DEF CheckpointAfter
    <3> QED
      BY <1>2, <3>1 DEF PollingInv, Behind
  <2>2. CASE Malformed(p) = {} /\ pulls[p].next = NoCursor
    <3>1. checkpoint' = pulls[p].cursor
      BY <1>2, <2>2 DEF CheckpointAfter
    <3> QED
      BY <1>1, <1>2, <3>1 DEF Behind
  <2>3. CASE Malformed(p) = {} /\ pulls[p].next # NoCursor
    <3>1. checkpoint' = pulls[p].upto
      BY <1>1, <1>2, <2>3 DEF CheckpointAfter
    <3>2. Stop(p) = pulls[p].upto + 1
      BY <1>1, <2>3, StopAtEnd
    <3>3. ASSUME NEW i \in 1 .. pulls[p].upto PROVE Key(i) \in raw'
      <4>1. CASE i \in 1 .. pulls[p].cursor
        BY <1>1, <1>2, <4>1 DEF Behind
      <4>2. CASE i \in pulls[p].cursor + 1 .. pulls[p].upto
        <5>1. i <= Stop(p)
          BY <1>1, <3>2, <4>2
        <5> QED
          BY <4>2, <5>1, PageIsStored
      <4> QED
        BY <1>1, <4>1, <4>2
    <3> QED
      BY <3>1, <3>3 DEF Behind
  <2> QED
    BY <2>1, <2>2, <2>3
<1>6. checkpoint' \in Cursor
  BY <1>1, <1>2 DEF CheckpointAfter, PollingInv
<1>7. /\ pulls' \in [Pull -> PullState] /\ pulls'[p] = Idle
      /\ \A q \in Pull \ {p} : pulls'[q] = pulls[q]
  BY <1>2 DEF PollingInv, PullState
<1>8. ASSUME NEW q \in Pull
      PROVE  /\ pulls'[q] # Idle => Behind(pulls[q].cursor)'
             /\ pulls'[q].phase = "answered" => pulls'[q].next \in {pulls'[q].upto, NoCursor}
  <2>1. CASE q = p
    BY <1>7, <2>1 DEF Idle
  <2>2. CASE q # p
    BY <1>2, <1>7, <2>2 DEF PollingInv, Behind
  <2> QED
    BY <2>1, <2>2
<1>9. ASSUME NEW k \in raw' \ normalized'
      PROVE  \E i \in 1 .. Len(Feed) : Key(i) = k /\ ~Feed[i].wellFormed
  <2>1. CASE k \in raw
    BY <1>9, <2>1 DEF FinishPull, PollingInv
  <2>2. CASE k \notin raw
    <3>1. PICK i \in New(p) : i <= Stop(p) /\ k = Key(i) /\ ~(i < Stop(p))
      BY <1>9, <2>2 DEF FinishPull
    <3>2. i \in 1 .. Len(Feed) /\ i <= pulls[p].upto
      BY <1>1 DEF New
    <3>3. Stop(p) \in Malformed(p) \cup {pulls[p].upto + 1} /\ Stop(p) \in Nat
      BY <1>1, StopIsNumber
    <3>4. i = Stop(p) /\ i # pulls[p].upto + 1
      BY <1>1, <3>1, <3>2, <3>3
    <3>5. i \in Malformed(p)
      BY <3>3, <3>4
    <3> QED
      BY <3>1, <3>2, <3>5 DEF Malformed
  <2> QED
    BY <2>1, <2>2
<1> QED
  BY <1>2, <1>3, <1>5, <1>6, <1>7, <1>8, <1>9 DEF PollingInv

LEMMA PollingKeeps == ASSUME PollingInv, PollingNext PROVE PollingInv'
<1>1. CASE Publish
  <2>1. available' \in Cursor
    <3>1. Len(Feed) \in Nat /\ available \in 0 .. Len(Feed)
      BY FeedLength DEF PollingInv, Cursor
    <3> QED
      BY <1>1, <3>1 DEF Publish, Cursor
  <2> QED
    BY <1>1, <2>1 DEF Publish, PollingInv, Behind
<1>2. CASE Tick
  BY <1>2 DEF Tick, PollingInv, Behind
<1>3. CASE \E p \in Pull : StartPull(p) \/ RunSlot(p)
  BY <1>3, AskKeeps DEF StartPull, RunSlot
<1>4. CASE \E p \in Pull : Answer(p)
  BY <1>4, AnswerKeeps
<1>5. CASE \E p \in Pull : FailPull(p)
  <2>1. Idle \in PullState /\ Idle.phase = "idle"
    BY DEF PullState, Idle
  <2> QED
    BY <1>5, <2>1, PullMoves DEF FailPull
<1>6. CASE \E p \in Pull : FinishPull(p)
  BY <1>6, FinishKeeps
<1> QED
  BY <1>1, <1>2, <1>3, <1>4, <1>5, <1>6 DEF PollingNext

LEMMA FeedIsWhole == PollingInv => FeedIsTakenWhole
BY DEF PollingInv, Behind, FeedIsTakenWhole

(***************************************************************************)
(* Ingestion.  What is stored under a key was the first delivery with that *)
(* key, and two deliveries have one key just when they are the same, or    *)
(* events of two source systems that share an id.                          *)
(***************************************************************************)
Deliverable == Inbound \cup Anonymous

KeyOf(channel, d) ==
    CASE channel = "webhook" -> WebhookKey(d)
      [] channel = "stripe" -> StripeKey(d)
      [] channel = "bank_feed" -> BankFeedKey(d)
      [] OTHER -> EventKey(channel, d)

Answered(channel, d, e) == [channel |-> channel, delivery |-> d, answer |-> e]

IngestionInv ==
    /\ webhooks \in [ExternalId -> {"none", "completed", "failed"}]
    /\ \A k \in DOMAIN kept :
         /\ kept[k] \in Deliverable /\ k[1] \in Channel /\ KeyOf(k[1], kept[k]) = k
         /\ Answered(k[1], kept[k], kept[k]) \in answers
    /\ \A a \in answers :
         \E c \in Channel, d \in Deliverable :
           KeyOf(c, d) \in DOMAIN kept /\ a = Answered(c, d, kept[KeyOf(c, d)])

LEMMA KeyNamesChannel ==
    ASSUME NEW c \in Channel, NEW d PROVE KeyOf(c, d)[1] = c
BY DEF Channel, KeyOf, WebhookKey, StripeKey, BankFeedKey, EventKey

LEMMA OneKeyOneDelivery ==
    ASSUME NEW c \in Channel, NEW d \in Deliverable, NEW e \in Deliverable
    PROVE  KeyOf(c, d) = KeyOf(c, e) <=> SameDelivery(c, d, e) \/ SharesId(c, d, e)
<1>1. CASE c = "bank_feed"
  <2>1. /\ KeyOf(c, d) = IF d.id = Nothing THEN <<c, d>> ELSE <<c, d.source, d.id, d.content>>
        /\ KeyOf(c, e) = IF e.id = Nothing THEN <<c, e>> ELSE <<c, e.source, e.id, e.content>>
    BY <1>1 DEF KeyOf, BankFeedKey
  <2>2. SameDelivery(c, d, e) \/ SharesId(c, d, e)
          <=> IF d.id = Nothing THEN d = e ELSE [d EXCEPT !.detail = e.detail] = e
    BY <1>1 DEF SameDelivery, SharesId
  <2>3. CASE d.id = Nothing
    <3>1. CASE e.id = Nothing
      BY <2>1, <2>2, <2>3, <3>1
    <3>2. CASE e.id # Nothing
      <4>1. Len(<<c, d>>) = 2 /\ Len(<<c, e.source, e.id, e.content>>) = 4
        OBVIOUS
      <4>2. <<c, d>> # <<c, e.source, e.id, e.content>>
        BY <4>1
      <4> QED
        BY <2>1, <2>2, <2>3, <3>2, <4>2
    <3> QED
      BY <3>1, <3>2
  <2>4. CASE d.id # Nothing /\ e.id = Nothing
    <3>1. Len(<<c, e>>) = 2 /\ Len(<<c, d.source, d.id, d.content>>) = 4
      OBVIOUS
    <3>2. <<c, e>> # <<c, d.source, d.id, d.content>>
      BY <3>1
    <3>3. [d EXCEPT !.detail = e.detail].id = d.id
      BY DEF Deliverable, Inbound, Anonymous
    <3> QED
      BY <2>1, <2>2, <2>4, <3>2, <3>3
  <2>5. CASE d.id # Nothing /\ e.id # Nothing
    <3>1. d \in Inbound /\ e \in Inbound
      BY <2>5 DEF Deliverable, Inbound, Anonymous
    <3>2. [d EXCEPT !.detail = e.detail] = e
            <=> d.source = e.source /\ d.id = e.id /\ d.content = e.content
      BY <3>1 DEF Inbound
    <3> QED
      BY <2>1, <2>2, <2>5, <3>2
  <2> QED
    BY <2>3, <2>4, <2>5
<1>2. CASE c \in {"webhook", "stripe"}
  BY <1>2 DEF KeyOf, SameDelivery, SharesId, WebhookKey, StripeKey
<1>3. CASE c \in {"payment", "bank_transaction"}
  BY <1>3 DEF KeyOf, SameDelivery, SharesId, EventKey
<1> QED
  BY <1>1, <1>2, <1>3 DEF Channel

LEMMA IngestionStart == IngestionInit => IngestionInv
<1> SUFFICES ASSUME IngestionInit PROVE IngestionInv
  OBVIOUS
<1>1. DOMAIN kept = {}
  BY DEF IngestionInit
<1> QED
  BY <1>1 DEF IngestionInit, IngestionInv

LEMMA KeepKeeps ==
    ASSUME IngestionInv, NEW c \in Channel, NEW d \in Deliverable, KeepFirst(c, KeyOf(c, d), d),
           webhooks' \in [ExternalId -> {"none", "completed", "failed"}]
    PROVE  IngestionInv'
<1>1. PICK key : key = KeyOf(c, d)
  OBVIOUS
<1>2. /\ DOMAIN kept' = DOMAIN kept \cup {key}
      /\ \A k \in DOMAIN kept : kept'[k] = kept[k]
      /\ key \notin DOMAIN kept => kept'[key] = d
      /\ answers' = answers \cup {Answered(c, d, kept'[key])}
  BY <1>1 DEF KeepFirst, Answered
<1>3. key[1] = c
  BY <1>1, KeyNamesChannel
<1>4. ASSUME NEW k \in DOMAIN kept'
      PROVE  /\ kept'[k] \in Deliverable /\ k[1] \in Channel /\ KeyOf(k[1], kept'[k]) = k
             /\ Answered(k[1], kept'[k], kept'[k]) \in answers'
  <2>1. CASE k \in DOMAIN kept
    BY <1>2, <2>1 DEF IngestionInv
  <2>2. CASE k \notin DOMAIN kept
    <3>1. k = key /\ kept'[k] = d
      BY <1>2, <2>2
    <3> QED
      BY <1>1, <1>2, <1>3, <3>1
  <2> QED
    BY <2>1, <2>2
<1>5. ASSUME NEW a \in answers'
      PROVE  \E b \in Channel, e \in Deliverable :
               KeyOf(b, e) \in DOMAIN kept' /\ a = Answered(b, e, kept'[KeyOf(b, e)])
  <2>1. CASE a \in answers
    BY <1>2, <2>1 DEF IngestionInv
  <2>2. CASE a \notin answers
    BY <1>1, <1>2, <2>2
  <2> QED
    BY <2>1, <2>2
<1> QED
  BY <1>4, <1>5 DEF IngestionInv

IngestionNext ==
    WebhooksNext \/ StripeNext \/ PaymentsNext \/ SyncNext \/ BankFeedNext \/ AnonymousFeedNext

LEMMA IngestionKeeps == ASSUME IngestionInv, IngestionNext PROVE IngestionInv'
<1> DEFINE WebhookStates == [ExternalId -> {"none", "completed", "failed"}]
<1>1. \A d \in Inbound : d \in Deliverable
  BY DEF Deliverable
<1>2. webhooks \in WebhookStates
  BY DEF IngestionInv
<1>3. CASE WebhooksNext
  <2>1. PICK d \in Inbound : KeepFirst("webhook", KeyOf("webhook", d), d) /\ UNCHANGED webhooks
    BY <1>3 DEF WebhooksNext, IngestWebhook, KeyOf
  <2> QED
    BY <1>1, <1>2, <2>1, KeepKeeps DEF Channel
<1>4. CASE StripeNext
  <2>1. PICK d \in Inbound : HandleStripe(d)
    BY <1>4 DEF StripeNext
  <2>2. webhooks' \in WebhookStates
    BY <1>2, <2>1 DEF HandleStripe
  <2>3. CASE UNCHANGED <<kept, answers>>
    BY <2>2, <2>3 DEF IngestionInv
  <2>4. CASE KeepFirst("stripe", StripeKey(d), d)
    <3>1. KeepFirst("stripe", KeyOf("stripe", d), d)
      BY <2>4 DEF KeyOf
    <3> QED
      BY <1>1, <2>2, <3>1, KeepKeeps DEF Channel
  <2> QED
    BY <2>1, <2>3, <2>4 DEF HandleStripe
<1>5. CASE PaymentsNext
  <2>1. PICK d \in Inbound : KeepFirst("payment", KeyOf("payment", d), d) /\ UNCHANGED webhooks
    BY <1>5 DEF PaymentsNext, IngestExternalPayment, KeyOf
  <2> QED
    BY <1>1, <1>2, <2>1, KeepKeeps DEF Channel
<1>6. CASE SyncNext
  <2>1. PICK d \in Inbound : /\ KeepFirst("bank_transaction", KeyOf("bank_transaction", d), d)
                             /\ UNCHANGED webhooks
    BY <1>6 DEF SyncNext, SyncBankTransaction, KeyOf
  <2> QED
    BY <1>1, <1>2, <2>1, KeepKeeps DEF Channel
<1>7. CASE BankFeedNext \/ AnonymousFeedNext
  <2>1. PICK d \in Deliverable : /\ KeepFirst("bank_feed", KeyOf("bank_feed", d), d)
                                 /\ UNCHANGED webhooks
    BY <1>7 DEF BankFeedNext, AnonymousFeedNext, IngestTransaction, KeyOf, Deliverable
  <2> QED
    BY <1>2, <2>1, KeepKeeps DEF Channel
<1> QED
  BY <1>3, <1>4, <1>5, <1>6, <1>7 DEF IngestionNext

LEMMA FirstStands == IngestionInv => FirstDeliveryStands
<1> SUFFICES ASSUME IngestionInv PROVE FirstDeliveryStands
  OBVIOUS
<1>1. ASSUME NEW a \in answers, NEW b \in answers, a.channel = b.channel,
             SameDelivery(a.channel, a.delivery, b.delivery)
      PROVE  a.answer = b.answer
  <2>1. PICK c \in Channel, d \in Deliverable : a = Answered(c, d, kept[KeyOf(c, d)])
    BY DEF IngestionInv
  <2>2. PICK x \in Channel, e \in Deliverable : b = Answered(x, e, kept[KeyOf(x, e)])
    BY DEF IngestionInv
  <2>3. x = c /\ SameDelivery(c, d, e)
    BY <1>1, <2>1, <2>2 DEF Answered
  <2>4. KeyOf(c, d) = KeyOf(c, e)
    BY <2>3, OneKeyOneDelivery
  <2> QED
    BY <2>1, <2>2, <2>3, <2>4 DEF Answered
<1>2. ASSUME NEW a \in answers
      PROVE  /\ SameDelivery(a.channel, a.delivery, a.answer) \/ SharesId(a.channel, a.delivery, a.answer)
             /\ [a EXCEPT !.delivery = a.answer] \in answers
  <2>1. PICK c \in Channel, d \in Deliverable :
           KeyOf(c, d) \in DOMAIN kept /\ a = Answered(c, d, kept[KeyOf(c, d)])
    BY DEF IngestionInv
  <2>2. PICK e : e = kept[KeyOf(c, d)]
    OBVIOUS
  <2>3. KeyOf(c, d)[1] = c
    BY KeyNamesChannel
  <2>4. e \in Deliverable /\ KeyOf(c, e) = KeyOf(c, d) /\ Answered(c, e, e) \in answers
    BY <2>1, <2>2, <2>3 DEF IngestionInv
  <2>5. a.channel = c /\ a.delivery = d /\ a.answer = e /\ [a EXCEPT !.delivery = a.answer] = Answered(c, e, e)
    BY <2>1, <2>2 DEF Answered
  <2> QED
    BY <2>4, <2>5, OneKeyOneDelivery
<1> QED
  BY <1>1, <1>2 DEF FirstDeliveryStands

(***************************************************************************)
(* The event log.  A transaction only adds to the log, and nothing it adds *)
(* is published before its commit, except what a caller outside it logs: a *)
(* rollback takes back no published event but those.                       *)
(***************************************************************************)
LoggedEvent == {NewEvent(input, id) : input \in {i \in Input : Valid(i)}, id \in EventId}

SoundLog(s) ==
    /\ s \in Seq(LoggedEvent)
    /\ \A m, n \in DOMAIN s : s[m].id = s[n].id => m = n
    /\ \A m, n \in DOMAIN s : (s[m].tenant = s[n].tenant /\ s[m].key = s[n].key) => m = n

EventLogInv ==
    /\ SoundLog(log)
    /\ \/ saved = <<>> /\ published \ exposed \subseteq ToSet(log)
       \/ \E s : /\ saved = <<s>> /\ SoundLog(s) /\ ToSet(s) \subseteq ToSet(log)
                 /\ published \ exposed \subseteq ToSet(s)
    /\ outbox \subseteq ToSet(log)

\* A validated event lacks nothing a projection computes with.
LEMMA NothingLacks ==
    ASSUME NEW e \in LoggedEvent PROVE e.lacks \cap Reads(e.type) = {}
<1>1. PICK input \in Input, id \in EventId : Valid(input) /\ e = NewEvent(input, id)
  BY DEF LoggedEvent
<1>2. e.lacks = input.lacks /\ e.type = input.type
  BY <1>1 DEF NewEvent
<1>3. Reads(input.type) \subseteq Required(input.type)
  <2>1. CASE input.type = "invoice.issued"
    BY <2>1 DEF Reads, Required
  <2>2. CASE input.type = "invoice.voided"
    BY <2>2 DEF Reads, Required
  <2>3. CASE input.type \in {"payment.allocated", "payment.refunded"}
    BY <2>3 DEF Reads, Required
  <2>4. CASE input.type \in {"bill.created", "bill.approved"}
    BY <2>4 DEF Reads, Required
  <2>5. CASE input.type = "bill.paid"
    BY <2>5 DEF Reads, Required
  <2>6. CASE input.type \notin {"invoice.issued", "invoice.voided", "payment.allocated", "payment.refunded",
                                "bill.created", "bill.approved", "bill.paid"}
    BY <2>6 DEF Reads
  <2> QED
    BY <2>1, <2>2, <2>3, <2>4, <2>5, <2>6
<1> QED
  BY <1>1, <1>2, <1>3 DEF Valid

LEMMA EventLogStart == LogInit => EventLogInv
<1> SUFFICES ASSUME LogInit PROVE EventLogInv
  OBVIOUS
<1>1. log = <<>> /\ log \in Seq(LoggedEvent) /\ DOMAIN log = {}
  BY DEF LogInit
<1> QED
  BY <1>1 DEF LogInit, EventLogInv, SoundLog

LEMMA LogGrows ==
    ASSUME SoundLog(log), NEW input \in Input, Valid(input), Existing(input) = {},
           NEW id \in EventId \ Ids, log' = Append(log, NewEvent(input, id))
    PROVE  SoundLog(log') /\ ToSet(log') = ToSet(log) \cup {NewEvent(input, id)}
<1>1. PICK e : e = NewEvent(input, id)
  OBVIOUS
<1>2. e \in LoggedEvent
  BY <1>1 DEF LoggedEvent
<1>3. e.id = id /\ e.tenant = input.tenant /\ e.key = IdempotencyKey(input)
  BY <1>1 DEF NewEvent
<1>4. /\ log' \in Seq(LoggedEvent) /\ log' = Append(log, e)
      /\ DOMAIN log = 1 .. Len(log) /\ DOMAIN log' = 1 .. Len(log) + 1 /\ Len(log) \in Nat
      /\ \A i \in DOMAIN log : log'[i] = log[i]
      /\ log'[Len(log) + 1] = e
  BY <1>1, <1>2, AppendElements DEF SoundLog
<1>5. \A n \in DOMAIN log : log[n].id # id /\ ~(log[n].tenant = input.tenant /\ log[n].key = IdempotencyKey(input))
  <2> SUFFICES ASSUME NEW n \in DOMAIN log
               PROVE  log[n].id # id /\ ~(log[n].tenant = input.tenant /\ log[n].key = IdempotencyKey(input))
    OBVIOUS
  <2>1. log[n] \in ToSet(log)
    BY DEF ToSet
  <2>2. log[n].id \in Ids
    BY <2>1 DEF Ids, IdsOf
  <2> QED
    BY <2>1, <2>2 DEF Existing
<1>6. \A i \in DOMAIN log' : i \in DOMAIN log \/ i = Len(log) + 1
  BY <1>4
<1>7. \A m, n \in DOMAIN log' : log'[m].id = log'[n].id => m = n
  BY <1>3, <1>4, <1>5, <1>6 DEF SoundLog
<1>8. \A m, n \in DOMAIN log' :
        (log'[m].tenant = log'[n].tenant /\ log'[m].key = log'[n].key) => m = n
  BY <1>3, <1>4, <1>5, <1>6 DEF SoundLog
<1>9. ToSet(log') = ToSet(log) \cup {e}
  BY <1>2, <1>4, AppendElements DEF SoundLog
<1> QED
  BY <1>1, <1>4, <1>7, <1>8, <1>9 DEF SoundLog

\* A step that logs or finds an event and announces it, inside the open
\* transaction or outside.
LEMMA AnnounceKeeps ==
    ASSUME EventLogInv, SoundLog(log'), ToSet(log) \subseteq ToSet(log'),
           NEW e \in ToSet(log'), NEW inside \in BOOLEAN, Announce(e, inside), UNCHANGED saved
    PROVE  EventLogInv'
<1>1. outbox' \subseteq ToSet(log')
  BY DEF EventLogInv, Announce
<1>2. CASE saved = <<>>
  <2>1. published' = published \cup {e} /\ exposed' = exposed
    BY <1>2 DEF Announce
  <2>2. published \ exposed \subseteq ToSet(log)
    BY <1>2 DEF EventLogInv
  <2> QED
    BY <1>1, <1>2, <2>1, <2>2 DEF EventLogInv
<1>3. CASE saved # <<>>
  <2>1. PICK s : /\ saved = <<s>> /\ SoundLog(s) /\ ToSet(s) \subseteq ToSet(log)
                 /\ published \ exposed \subseteq ToSet(s)
    BY <1>3 DEF EventLogInv
  <2>2. \/ UNCHANGED <<published, exposed>>
        \/ published' = published \cup {e} /\ exposed' = exposed \cup ({e} \ ToSet(s))
    BY <1>3, <2>1 DEF Announce
  <2>3. published' \ exposed' \subseteq ToSet(s)
    BY <2>1, <2>2
  <2>4. saved' = <<s>> /\ ToSet(s) \subseteq ToSet(log')
    BY <2>1
  <2> QED
    BY <1>1, <2>1, <2>3, <2>4 DEF EventLogInv
<1> QED
  BY <1>2, <1>3

LEMMA EventLogRest ==
    ASSUME EventLogInv, UNCHANGED <<log, saved, outbox, published, exposed>> PROVE EventLogInv'
BY DEF EventLogInv

LEMMA EventLogKeeps == ASSUME EventLogInv, LogNext PROVE EventLogInv'
<1>1. CASE \E input \in Input, inside \in BOOLEAN : LogEvent(input, inside)
  <2>1. PICK input \in Input, inside \in BOOLEAN : LogEvent(input, inside)
    BY <1>1
  <2>2. CASE \E e \in Existing(input) : Announce(e, inside) /\ UNCHANGED log
    <3>1. PICK e \in Existing(input) : Announce(e, inside) /\ UNCHANGED log
      BY <2>2
    <3>2. e \in ToSet(log') /\ SoundLog(log') /\ ToSet(log) \subseteq ToSet(log')
      BY <3>1 DEF Existing, EventLogInv
    <3> QED
      BY <2>1, <3>1, <3>2, AnnounceKeeps DEF LogEvent
  <2>3. CASE /\ Existing(input) = {}
             /\ \E id \in EventId \ (Ids \cup IdsOf(published)) :
                  log' = Append(log, NewEvent(input, id)) /\ Announce(NewEvent(input, id), inside)
    <3>1. PICK id \in EventId \ Ids :
             log' = Append(log, NewEvent(input, id)) /\ Announce(NewEvent(input, id), inside)
      BY <2>3
    <3>2. PICK e : e = NewEvent(input, id)
      OBVIOUS
    <3>3. SoundLog(log') /\ ToSet(log') = ToSet(log) \cup {e}
      BY <2>1, <2>3, <3>1, <3>2, LogGrows DEF LogEvent, EventLogInv
    <3>4. Announce(e, inside) /\ UNCHANGED saved
      BY <2>1, <3>1, <3>2 DEF LogEvent
    <3> QED
      BY <3>3, <3>4, AnnounceKeeps
  <2> QED
    BY <2>1, <2>2, <2>3 DEF LogEvent
<1>2. CASE CreateSnapshot
  <2>1. saved' = <<log>> /\ published \ exposed \subseteq ToSet(log) /\ SoundLog(log)
    BY <1>2 DEF CreateSnapshot, EventLogInv
  <2> QED
    BY <1>2, <2>1 DEF CreateSnapshot, EventLogInv
<1>3. CASE Commit
  <2>1. published' \ exposed' \subseteq ToSet(log)
    BY <1>3 DEF Commit, EventLogInv
  <2>2. saved' = <<>> /\ outbox' = {} /\ log' = log /\ SoundLog(log)
    BY <1>3 DEF Commit, EventLogInv
  <2> QED
    BY <2>1, <2>2 DEF EventLogInv
<1>4. CASE RestoreSnapshot
  <2>1. PICK s : saved = <<s>> /\ SoundLog(s) /\ published \ exposed \subseteq ToSet(s)
    BY <1>4 DEF RestoreSnapshot, EventLogInv
  <2>2. log' = s /\ saved' = <<>> /\ outbox' = {} /\ UNCHANGED <<published, exposed>>
    BY <1>4, <2>1 DEF RestoreSnapshot
  <2> QED
    BY <2>1, <2>2 DEF EventLogInv
<1>5. CASE \E e \in published : Project(e) \/ PostReference(e)
  BY <1>5, EventLogRest DEF Project, PostReference
<1> QED
  BY <1>1, <1>2, <1>3, <1>4, <1>5 DEF LogNext

LEMMA LogSound == EventLogInv => LogIsSound
<1> SUFFICES ASSUME EventLogInv PROVE LogIsSound
  OBVIOUS
<1>1. \A m, n \in DOMAIN log :
        (log[m].tenant = log[n].tenant /\ log[m].key = log[n].key) => m = n
  BY DEF EventLogInv, SoundLog
<1>2. \A n \in DOMAIN log : log[n].lacks \cap Reads(log[n].type) = {}
  <2>1. \A n \in DOMAIN log : log[n] \in LoggedEvent
    BY DEF EventLogInv, SoundLog
  <2> QED
    BY <2>1, NothingLacks
<1>3. published \ exposed \subseteq ToSet(IF saved = <<>> THEN log ELSE saved[1])
  BY DEF EventLogInv
<1> QED
  BY <1>1, <1>2, <1>3 DEF LogIsSound

-----------------------------------------------------------------------------
(***************************************************************************)
(* Customer balances.  There is one delta for every event that names its   *)
(* customer, and it is the delta of that event.  Since the id of the event *)
(* is part of the key, the sum over the keys of a customer is the sum over *)
(* its events.                                                             *)
(***************************************************************************)
Naming == {e \in delivered : e.customer # Nobody}

BalancesInv ==
    /\ IsFiniteSet(delivered) /\ delivered \subseteq BalanceEvent
    /\ eventDeltas \in [{EventDeltaKey(e) : e \in Naming} -> Int]
    /\ \A e \in Naming : eventDeltas[EventDeltaKey(e)] = Delta(e)

LEMMA NetIsInt ==
    ASSUME NEW e \in BalanceEvent
    PROVE  Net(e) \in Int /\ Magnitude(Net(e)) \in Int /\ Delta(e) \in Int
<1>1. PICK f : f = [c \in e.changes |-> c.amount]
  OBVIOUS
<1>2. f \in [e.changes -> Int] /\ IsFiniteSet(e.changes)
  BY <1>1, BalancesAssumption
<1>3. SumFunction(f) \in Int
  BY <1>2, SumIsInt
<1>4. Net(e) \in Int
  BY <1>1, <1>3 DEF Net
<1> QED
  BY <1>4 DEF Magnitude, Delta

LEMMA OneDeltaKeyEach ==
    ASSUME NEW e \in BalanceEvent, NEW f \in BalanceEvent, EventDeltaKey(e) = EventDeltaKey(f)
    PROVE  e = f
<1>1. e.id = f.id
  BY DEF EventDeltaKey
<1> QED
  BY <1>1, BalancesAssumption

LEMMA BalancesStart == BalancesInit => BalancesInv
BY FS_EmptySet DEF BalancesInit, BalancesInv, Naming

LEMMA BalancesKeep == ASSUME BalancesInv, BalancesNext PROVE BalancesInv'
<1>1. PICK e \in BalanceEvent : Deliver(e)
  BY DEF BalancesNext
<1>2. delivered' = delivered \union {e}
  BY <1>1 DEF Deliver
<1>3. IsFiniteSet(delivered') /\ delivered' \subseteq BalanceEvent
  BY <1>2, FS_AddElement DEF BalancesInv
<1>4. Delta(e) \in Int
  BY NetIsInt
<1>5. CASE e.customer = Nobody
  <2>1. Naming' = Naming /\ eventDeltas' = eventDeltas
    BY <1>1, <1>2, <1>5 DEF Deliver, Naming
  <2> QED
    BY <1>3, <2>1 DEF BalancesInv
<1>6. CASE e.customer # Nobody
  <2>1. Naming' = Naming \union {e} /\ Naming \subseteq BalanceEvent
    BY <1>2, <1>6 DEF Naming, BalancesInv
  <2>2. CASE EventDeltaKey(e) \in DOMAIN eventDeltas
    <3>1. eventDeltas' = eventDeltas
      BY <1>1, <1>6, <2>2 DEF Deliver, ApplyEventDelta
    <3>2. e \in Naming
      BY <2>1, <2>2, OneDeltaKeyEach DEF BalancesInv
    <3> QED
      BY <1>3, <2>1, <3>1, <3>2 DEF BalancesInv
  <2>3. CASE EventDeltaKey(e) \notin DOMAIN eventDeltas
    <3>1. eventDeltas' = [k \in DOMAIN eventDeltas \union {EventDeltaKey(e)} |->
                            IF k \in DOMAIN eventDeltas THEN eventDeltas[k] ELSE Delta(e)]
      BY <1>1, <1>6, <2>3 DEF Deliver, ApplyEventDelta
    <3>2. {EventDeltaKey(f) : f \in Naming'} = DOMAIN eventDeltas \union {EventDeltaKey(e)}
      BY <2>1 DEF BalancesInv
    <3>3. eventDeltas' \in [{EventDeltaKey(f) : f \in Naming'} -> Int]
      BY <1>4, <3>1, <3>2 DEF BalancesInv
    <3>4. \A f \in Naming' : eventDeltas'[EventDeltaKey(f)] = Delta(f)
      BY <2>1, <2>3, <3>1 DEF BalancesInv
    <3> QED
      BY <1>3, <3>3, <3>4 DEF BalancesInv
  <2> QED
    BY <2>2, <2>3
<1> QED
  BY <1>5, <1>6

LEMMA BalanceIsSumOfDeltas ==
    ASSUME BalancesInv, NEW c \in BalanceCustomer,
           NEW mine, mine = {e \in delivered : e.customer = c}
    PROVE  GetBalance(c) = SumFunction([e \in mine |-> Delta(e)])
<1>1. PICK E : E = {k \in DOMAIN eventDeltas : k[1] = c}
  OBVIOUS
<1>2. PICK f : f = Restrict(eventDeltas, E)
  OBVIOUS
<1>3. PICK g : g = [e \in mine |-> Delta(e)]
  OBVIOUS
<1>4. PICK h : h = [e \in mine |-> EventDeltaKey(e)]
  OBVIOUS
<1>5. mine \subseteq Naming /\ mine \subseteq BalanceEvent /\ IsFiniteSet(mine)
  BY FS_Subset, BalancesAssumption DEF BalancesInv, Naming
<1>6. \A e \in Naming : EventDeltaKey(e)[1] = e.customer
  BY DEF EventDeltaKey
<1>7. h \in [mine -> E] /\ \A k \in E : \E e \in mine : h[e] = k
  BY <1>1, <1>4, <1>5, <1>6 DEF BalancesInv, Naming
<1>8. \A x, y \in mine : h[x] = h[y] => x = y
  BY <1>4, <1>5, OneDeltaKeyEach
<1>10. IsFiniteSet(E)
  <2>1. h \in Surjection(mine, E)
    BY <1>7 DEF Surjection
  <2> QED
    BY <1>5, <2>1, FS_Surjection
<1>11. f \in [E -> Int]
  BY <1>1, <1>2 DEF BalancesInv, Restrict
<1>12. g \in [mine -> Int]
  BY <1>3, <1>5, NetIsInt
<1>13. \A e \in mine : g[e] = f[h[e]]
  BY <1>1, <1>2, <1>3, <1>4, <1>5, <1>7 DEF BalancesInv, Restrict
<1>14. SumFunction(g) = SumFunction(f)
  <2>1. Renames(h, mine, E)
    BY <1>7, <1>8 DEF Renames
  <2> QED
    BY <1>5, <1>10, <1>11, <1>12, <1>13, <2>1, SumRenames
<1>15. GetBalance(c) = SumFunction(f)
  BY <1>1, <1>2 DEF GetBalance
<1> QED
  BY <1>3, <1>14, <1>15

LEMMA CountedOnce == BalancesInv => BalancesCountOnce
<1> SUFFICES ASSUME BalancesInv, NEW c \in BalanceCustomer,
                    NEW mine, mine = {e \in delivered : e.customer = c},
                    NEW ups, ups = {e \in mine : e.type \in InvoiceTypes}
             PROVE  GetBalance(c) = SumFunction([e \in ups |-> Net(e)])
                                    - SumFunction([e \in mine \ ups |-> Magnitude(Net(e))])
  BY DEF BalancesCountOnce
<1>1. PICK paid : paid = mine \ ups
  OBVIOUS
<1>2. /\ IsFiniteSet(mine) /\ mine \subseteq BalanceEvent
      /\ ups \in SUBSET mine /\ paid \in SUBSET mine
      /\ ups \cap paid = {} /\ ups \union paid = mine
  BY <1>1, FS_Subset DEF BalancesInv
<1>3. IsFiniteSet(ups) /\ IsFiniteSet(paid)
  BY <1>2, FS_Subset
<1>4. PICK g : g = [e \in mine |-> Delta(e)]
  OBVIOUS
<1>5. PICK b : b = [e \in ups |-> Net(e)]
  OBVIOUS
<1>6. PICK p : p = [e \in paid |-> Magnitude(Net(e))]
  OBVIOUS
<1>7. PICK m : m = [e \in paid |-> -Magnitude(Net(e))]
  OBVIOUS
<1>8. PICK z : z = [e \in paid |-> 0]
  OBVIOUS
<1>9. \A e \in mine : Net(e) \in Int /\ Magnitude(Net(e)) \in Int /\ Delta(e) \in Int
  BY <1>2, NetIsInt
<1>10. /\ g \in [mine -> Int] /\ b \in [ups -> Int]
       /\ p \in [paid -> Int] /\ m \in [paid -> Int] /\ z \in [paid -> Int]
  BY <1>2, <1>4, <1>5, <1>6, <1>7, <1>8, <1>9
<1>11. Restrict(g, ups) = b
  BY <1>2, <1>4, <1>5 DEF Restrict, Delta
<1>12. Restrict(g, paid) = m
  BY <1>1, <1>2, <1>4, <1>7 DEF Restrict, Delta
<1>13. SumFunction(Restrict(g, ups \union paid)) =
           SumFunction(Restrict(g, ups)) + SumFunction(Restrict(g, paid))
  BY <1>2, <1>10, SumSplits
<1>14. SumFunction(g) = SumFunction(b) + SumFunction(m)
  BY <1>2, <1>10, <1>11, <1>12, <1>13, SumOfAll
<1>15. SumFunction(z) = SumFunction(p) + SumFunction(m)
  <2>1. \A e \in paid : z[e] = p[e] + m[e]
    BY <1>2, <1>6, <1>7, <1>8, <1>9
  <2> QED
    BY <1>3, <1>10, <2>1, SumAdds DEF AddsPointwise
<1>16. SumFunction(z) = 0
  BY <1>3, <1>8, <1>10, SumOfZeros
<1>17. SumFunction(b) \in Int /\ SumFunction(p) \in Int /\ SumFunction(m) \in Int
  BY <1>3, <1>10, SumIsInt
<1>18. SumFunction(g) = SumFunction(b) - SumFunction(p)
  BY <1>14, <1>15, <1>16, <1>17
<1>19. GetBalance(c) = SumFunction(g)
  BY <1>4, BalanceIsSumOfDeltas
<1> QED
  BY <1>1, <1>5, <1>6, <1>18, <1>19

-----------------------------------------------------------------------------
(***************************************************************************)
(* The event bus.  First what Distinct does: it is a fold, so that one     *)
(* more event is one more step of it, and a longer sequence has the        *)
(* distinct events of a shorter one in front.                              *)
(***************************************************************************)
Grown(seen, e) == IF Contains(seen, e) THEN seen ELSE Append(seen, e)

LEMMA MaxOfInterval == ASSUME NEW k \in Nat \ {0} PROVE Max(1 .. k) = k
<1>1. \A x \in 1 .. k : (\A y \in 1 .. k : y <= x) <=> x = k
  OBVIOUS
<1> QED
  BY <1>1 DEF Max

DistinctStep(q, g, s) == IF s = {} THEN <<>> ELSE Grown(g[s \ {Max(s)}], q[Max(s)])

LEMMA DistinctIsFold ==
    ASSUME NEW q
    PROVE  Distinct(q) = (CHOOSE g : g = [s \in SUBSET (DOMAIN q) |-> DistinctStep(q, g, s)])[DOMAIN q]
BY Zenon DEF Distinct, FoldLeft, MapThenFoldSet, DistinctStep, Grown

LEMMA DistinctExists ==
    ASSUME NEW S, NEW q \in Seq(S)
    PROVE  \E g : g = [s \in SUBSET (DOMAIN q) |-> DistinctStep(q, g, s)]
<1>1. PICK D : D = DOMAIN q
  OBVIOUS
<1>2. D = 1 .. Len(q) /\ Len(q) \in Nat /\ q \in [D -> S]
  BY <1>1
<1>3. IsFiniteSet(D)
  BY <1>2, FS_Interval
<1>4. PICK F : F = [z \in D \X Seq(S) |-> Grown(z[2], q[z[1]])]
  OBVIOUS
<1>5. F \in [D \X Seq(S) -> Seq(S)]
  BY <1>2, <1>4 DEF Grown
<1>6. PICK pick : pick = [s \in SUBSET D |-> Max(s)]
  OBVIOUS
<1>7. \A s \in SUBSET D : s # {} => pick[s] \in s
  <2> SUFFICES ASSUME NEW s \in SUBSET D, s # {} PROVE Max(s) \in s
    BY <1>6
  <2>1. D \in SUBSET Nat
    BY <1>2
  <2>2. s \in SUBSET Nat
    BY <2>1
  <2>3. IsFiniteSet(s)
    BY <1>3, FS_Subset
  <2>4. \E x \in s : \A y \in s : y <= x
    BY <2>2, <2>3, GreatestElement
  <2> QED
    BY <2>4 DEF Max
<1>8. PICK base : base = <<>>
  OBVIOUS
<1>9. PICK g \in [SUBSET D -> Seq(S)] : \A s \in SUBSET D :
        g[s] = IF s = {} THEN <<>> ELSE F[<<pick[s], g[s \ {pick[s]}]>>]
  <2>1. PICK T : T = Seq(S)
    OBVIOUS
  <2>2. base \in T /\ F \in [D \X T -> T]
    BY <1>5, <1>8, <2>1
  <2>3. \E g \in [SUBSET D -> T] : IsFold(g, D, base, F, pick)
    BY <1>3, <1>7, <2>2, FoldExists
  <2> QED
    BY <1>8, <2>1, <2>3, Zenon DEF IsFold
<1>10. ASSUME NEW s \in SUBSET D PROVE g[s] = DistinctStep(q, g, s)
  <2>1. CASE s = {}
    BY <1>9, <2>1 DEF DistinctStep
  <2>2. CASE s # {}
    <3>1. <<pick[s], g[s \ {pick[s]}]>> \in D \X Seq(S)
      BY <1>7, <1>9, <2>2
    <3>2. g[s] = Grown(g[s \ {pick[s]}], q[pick[s]])
      BY <1>4, <1>9, <2>2, <3>1
    <3> QED
      BY <1>6, <2>2, <3>2 DEF DistinctStep
  <2> QED
    BY <2>1, <2>2
<1>11. g = [s \in SUBSET D |-> DistinctStep(q, g, s)]
  BY <1>9, <1>10
<1> QED
  BY <1>1, <1>9, <1>11

LEMMA DistinctSteps ==
    ASSUME NEW S, NEW q \in Seq(S)
    PROVE  \E g \in [0 .. Len(q) -> Seq(S)] :
             /\ g[0] = <<>>
             /\ \A k \in 1 .. Len(q) : g[k] = Grown(g[k - 1], q[k])
             /\ Distinct(q) = g[Len(q)]
<1>1. PICK D : D = DOMAIN q
  OBVIOUS
<1>2. D = 1 .. Len(q) /\ Len(q) \in Nat
  BY <1>1
<1>3. PICK h : h = CHOOSE g : g = [s \in SUBSET D |-> DistinctStep(q, g, s)]
  OBVIOUS
<1>4. h = [s \in SUBSET D |-> DistinctStep(q, h, s)]
  <2>1. \E g : g = [s \in SUBSET (DOMAIN q) |-> DistinctStep(q, g, s)]
    BY DistinctExists, Zenon
  <2>2. \E g : g = [s \in SUBSET D |-> DistinctStep(q, g, s)]
    BY <1>1, <2>1, Zenon
  <2> QED
    BY <1>3, <2>2, Zenon
<1>5. Distinct(q) = h[D]
  BY <1>1, <1>3, DistinctIsFold, Zenon
<1>6. h[{}] = <<>>
  BY <1>4 DEF DistinctStep
<1>7. ASSUME NEW k \in 1 .. Len(q) PROVE h[1 .. k] = Grown(h[1 .. k - 1], q[k])
  <2>0. k \in Nat \ {0} /\ k <= Len(q)
    BY <1>2
  <2>1. 1 .. k \in SUBSET D
    BY <1>2, <2>0
  <2>2. 1 .. k # {} /\ (1 .. k) \ {k} = 1 .. k - 1
    BY <2>0
  <2>3. Max(1 .. k) = k
    BY <2>0, MaxOfInterval
  <2>4. h[1 .. k] = DistinctStep(q, h, 1 .. k)
    BY <1>4, <2>1
  <2>5. h[1 .. k] = Grown(h[(1 .. k) \ {Max(1 .. k)}], q[Max(1 .. k)])
    BY <2>2, <2>4, Zenon DEF DistinctStep
  <2> QED
    BY <2>2, <2>3, <2>5, Zenon
<1>8. PICK g : g = [k \in 0 .. Len(q) |-> h[1 .. k]]
  OBVIOUS
<1>9. g[0] = <<>>
  <2>1. 1 .. 0 = {}
    OBVIOUS
  <2> QED
    BY <1>2, <1>6, <1>8, <2>1
<1>10. \A k \in 1 .. Len(q) : g[k] = Grown(g[k - 1], q[k])
  BY <1>2, <1>7, <1>8
<1>11. Distinct(q) = g[Len(q)]
  BY <1>2, <1>5, <1>8
<1>12. \A k \in 0 .. Len(q) : g[k] \in Seq(S)
  <2> DEFINE T == {k \in Nat : k <= Len(q) => g[k] \in Seq(S)}
  <2>1. 0 \in T
    <3>1. <<>> \in Seq(S)
      OBVIOUS
    <3>2. g[0] \in Seq(S)
      BY <1>9, <3>1, Zenon
    <3> QED
      BY <3>2
  <2>2. ASSUME NEW k \in Nat, k \in T PROVE k + 1 \in T
    <3> SUFFICES ASSUME k + 1 <= Len(q) PROVE g[k + 1] \in Seq(S)
      OBVIOUS
    <3>1. k + 1 \in 1 .. Len(q) /\ (k + 1) - 1 = k /\ g[k] \in Seq(S)
      BY <1>2, <2>2
    <3>2. g[k + 1] = Grown(g[k], q[k + 1]) /\ q[k + 1] \in S
      BY <1>10, <3>1
    <3> QED
      BY <3>1, <3>2 DEF Grown
  <2> HIDE DEF T
  <2>3. Nat \subseteq T
    BY <2>1, <2>2, SetInduction
  <2> QED
    BY <1>2, <2>3 DEF T
<1> QED
  BY <1>8, <1>9, <1>10, <1>11, <1>12

LEMMA DistinctOfNone == Distinct(<<>>) = <<>>
<1>1. PICK q : q = <<>>
  OBVIOUS
<1>2. q \in Seq({}) /\ Len(q) = 0
  BY <1>1
<1>3. Distinct(q) = <<>>
  BY <1>2, DistinctSteps
<1> QED
  BY <1>1, <1>3

LEMMA DistinctAppend ==
    ASSUME NEW S, NEW q \in Seq(S), NEW e \in S
    PROVE  Distinct(q) \in Seq(S) /\ Distinct(Append(q, e)) = Grown(Distinct(q), e)
<1>1. PICK g \in [0 .. Len(q) -> Seq(S)] :
        /\ g[0] = <<>> /\ Distinct(q) = g[Len(q)]
        /\ \A k \in 1 .. Len(q) : g[k] = Grown(g[k - 1], q[k])
  BY DistinctSteps
<1>2. PICK r : r = Append(q, e)
  OBVIOUS
<1>3. /\ r \in Seq(S) /\ Len(q) \in Nat /\ Len(r) = Len(q) + 1 /\ r[Len(q) + 1] = e
      /\ \A k \in 1 .. Len(q) : r[k] = q[k]
  BY <1>2
<1>4. PICK h \in [0 .. Len(r) -> Seq(S)] :
        /\ h[0] = <<>> /\ Distinct(r) = h[Len(r)]
        /\ \A k \in 1 .. Len(r) : h[k] = Grown(h[k - 1], r[k])
  BY <1>3, DistinctSteps
<1> DEFINE T == {k \in Nat : k <= Len(q) => h[k] = g[k]}
<1>5. 0 \in T
  BY <1>1, <1>4
<1>6. ASSUME NEW k \in Nat, k \in T PROVE k + 1 \in T
  <2> SUFFICES ASSUME k + 1 <= Len(q) PROVE h[k + 1] = g[k + 1]
    OBVIOUS
  <2>1. k + 1 \in 1 .. Len(q) /\ k + 1 \in 1 .. Len(r) /\ (k + 1) - 1 = k /\ h[k] = g[k]
    BY <1>3, <1>6
  <2>2. h[k + 1] = Grown(h[k], r[k + 1]) /\ g[k + 1] = Grown(g[k], q[k + 1])
    BY <1>1, <1>4, <2>1
  <2> QED
    BY <1>3, <2>1, <2>2, Zenon
<1>7. h[Len(q)] = g[Len(q)]
  <2> HIDE DEF T
  <2>1. Nat \subseteq T
    BY <1>5, <1>6, SetInduction
  <2> QED
    BY <1>3, <2>1 DEF T
<1>8. h[Len(r)] = Grown(h[Len(q)], e)
  <2>1. Len(r) \in 1 .. Len(r) /\ Len(r) - 1 = Len(q) /\ r[Len(r)] = e
    BY <1>3
  <2> QED
    BY <1>4, <2>1
<1> QED
  BY <1>1, <1>2, <1>3, <1>4, <1>7, <1>8

LEMMA DistinctPrefix ==
    ASSUME NEW S, NEW q \in Seq(S), NEW rest \in Seq(S)
    PROVE  IsPrefix(Distinct(q), Distinct(q \o rest))
<1> DEFINE T == {n \in Nat : \A r \in Seq(S) : Len(r) = n => IsPrefix(Distinct(q), Distinct(q \o r))}
<1>1. 0 \in T
  <2> SUFFICES ASSUME NEW r \in Seq(S), Len(r) = 0
               PROVE  IsPrefix(Distinct(q), Distinct(q \o r))
    OBVIOUS
  <2>1. q \o r = q
    OBVIOUS
  <2>2. PICK d : d = Distinct(q)
    OBVIOUS
  <2>3. d \in Seq(S)
    <3>1. PICK g \in [0 .. Len(q) -> Seq(S)] : Distinct(q) = g[Len(q)]
      BY DistinctSteps, Zenon
    <3> QED
      BY <2>2, <3>1
  <2>4. IsPrefix(d, d)
    BY <2>3 DEF IsPrefix
  <2> QED
    BY <2>1, <2>2, <2>4
<1>2. ASSUME NEW n \in Nat, n \in T PROVE n + 1 \in T
  <2> SUFFICES ASSUME NEW r \in Seq(S), Len(r) = n + 1
               PROVE  IsPrefix(Distinct(q), Distinct(q \o r))
    OBVIOUS
  <2>1. PICK f : f = SubSeq(r, 1, n)
    OBVIOUS
  <2>2. PICK x : x = r[n + 1]
    OBVIOUS
  <2>3. f \in Seq(S) /\ Len(f) = n /\ x \in S
    BY <2>1, <2>2
  <2>4. r = Append(f, x)
    BY <2>1, <2>2
  <2>5. q \o r = Append(q \o f, x) /\ q \o f \in Seq(S)
    BY <2>3, <2>4
  <2>6. PICK d : d = Distinct(q)
    OBVIOUS
  <2>7. PICK c : c = Distinct(q \o f)
    OBVIOUS
  <2>8. d \in Seq(S) /\ c \in Seq(S) /\ Distinct(q \o r) = Grown(c, x)
    BY <2>3, <2>5, <2>6, <2>7, DistinctAppend
  <2>9. IsPrefix(d, c)
    BY <1>2, <2>3, <2>6, <2>7
  <2>10. IsPrefix(d, Grown(c, x))
    BY <2>3, <2>8, <2>9 DEF IsPrefix, Grown
  <2> QED
    BY <2>6, <2>8, <2>10
<1> HIDE DEF T
<1>3. Nat \subseteq T
  BY <1>1, <1>2, SetInduction
<1>4. Len(rest) \in T
  BY <1>3
<1> QED
  BY <1>4 DEF T

(***************************************************************************)
(* A subscription.  What came to it is what its handler is done with       *)
(* followed by what is left, and while it is active what is left is its    *)
(* queue, whose head is what the handler is busy with.  An active one that *)
(* has something in its queue or a publisher to answer is draining or has  *)
(* its timer set; a publisher whose event it has not done waits for it.    *)
(***************************************************************************)
Follows(r, came, did, finished) ==
    \E done \in Seq(BusEvent), rest \in Seq(BusEvent) :
        /\ came = done \o rest /\ did = Distinct(done) /\ finished = ToSet(done)
        /\ r.queue = IF r.status = "gone" THEN <<>> ELSE rest
        /\ \A e \in r.current : rest # <<>> /\ e = Head(rest)

Fresh(r) ==
    /\ r.queue = <<>> /\ r.current = {} /\ r.waiting = {}
    /\ r.draining = FALSE /\ r.retryTimer = "null"
Busy(r) == r.current # {} \/ r.retryTimer = "set"

Wakes(r, came, finished, wanted) ==
    /\ r.status = "new" => Fresh(r) /\ came = <<>> /\ wanted = {}
    /\ r.status = "active" =>
         /\ r.draining = (r.current # {})
         /\ r.retryTimer \in {"null", "set"}
         /\ r.retryTimer = "set" => r.current = {}
         /\ r.queue # <<>> \/ r.waiting # {} => Busy(r)
         /\ wanted \subseteq r.waiting \union finished
         /\ wanted \subseteq ToSet(came)
    /\ r.status = "gone" => r.waiting \subseteq {0}

SubscriptionInv(r, came, did, finished, wanted) ==
    /\ r \in SubscriptionRecord
    /\ Follows(r, came, did, finished)
    /\ Wakes(r, came, finished, wanted)

LEMMA AppendToJoined ==
    ASSUME NEW S, NEW p \in Seq(S), NEW q \in Seq(S), NEW e \in S
    PROVE  Append(p \o q, e) = p \o Append(q, e)
OBVIOUS

LEMMA HeadIsDone ==
    ASSUME NEW S, NEW p \in Seq(S), NEW q \in Seq(S), q # <<>>
    PROVE  p \o q = Append(p, Head(q)) \o Tail(q)
OBVIOUS

LEMMA DistinctElements ==
    ASSUME NEW S, NEW q \in Seq(S)
    PROVE  ToSet(Distinct(q)) = ToSet(q)
<1>1. PICK g \in [0 .. Len(q) -> Seq(S)] :
        /\ g[0] = <<>> /\ Distinct(q) = g[Len(q)]
        /\ \A k \in 1 .. Len(q) : g[k] = Grown(g[k - 1], q[k])
  BY DistinctSteps
<1> DEFINE T == {k \in Nat : k <= Len(q) => ToSet(g[k]) = {q[i] : i \in 1 .. k}}
<1>2. 0 \in T
  <2>1. ToSet(g[0]) = {} /\ 1 .. 0 = {}
    BY <1>1 DEF ToSet
  <2> QED
    BY <2>1
<1>3. ASSUME NEW k \in Nat, k \in T PROVE k + 1 \in T
  <2> SUFFICES ASSUME k + 1 <= Len(q) PROVE ToSet(g[k + 1]) = {q[i] : i \in 1 .. k + 1}
    OBVIOUS
  <2>1. k + 1 \in 1 .. Len(q) /\ (k + 1) - 1 = k /\ ToSet(g[k]) = {q[i] : i \in 1 .. k}
    BY <1>3
  <2>2. PICK c \in Seq(S) : c = g[k]
    <3>1. k \in 0 .. Len(q) /\ Len(q) \in Nat
      BY <2>1
    <3>2. g[k] \in Seq(S)
      BY <3>1, Zenon
    <3> QED
      BY <3>2, Zenon
  <2>3. PICK e \in S : e = q[k + 1]
    BY <2>1
  <2>4. g[k + 1] = Grown(c, e)
    BY <1>1, <2>1, <2>2, <2>3
  <2>5. ToSet(Grown(c, e)) = ToSet(c) \union {e}
    <3>1. CASE Contains(c, e)
      BY <3>1, ElementOf DEF Grown
    <3>2. CASE ~Contains(c, e)
      BY <3>2, AppendElements DEF Grown
    <3> QED
      BY <3>1, <3>2
  <2>6. {q[i] : i \in 1 .. k + 1} = {q[i] : i \in 1 .. k} \union {q[k + 1]}
    OBVIOUS
  <2> QED
    BY <2>1, <2>2, <2>3, <2>4, <2>5, <2>6
<1>4. ToSet(g[Len(q)]) = {q[i] : i \in 1 .. Len(q)}
  <2> HIDE DEF T
  <2>1. Nat \subseteq T
    BY <1>2, <1>3, SetInduction
  <2>2. Len(q) \in T /\ Len(q) <= Len(q)
    BY <2>1
  <2> QED
    BY <2>2 DEF T
<1>5. ToSet(q) = {q[i] : i \in 1 .. Len(q)}
  <2>1. DOMAIN q = 1 .. Len(q)
    OBVIOUS
  <2> QED
    BY <2>1, Zenon DEF ToSet
<1> QED
  BY <1>1, <1>4, <1>5, Zenon

LEMMA RecordFields ==
    ASSUME NEW r \in SubscriptionRecord
    PROVE  /\ r.status \in {"new", "active", "gone"} /\ r.queue \in Seq(BusEvent)
           /\ r.draining \in BOOLEAN /\ r.current \in SUBSET BusEvent
           /\ r.retryTimer \in {"null", "set", "cleared"}
           /\ r.waiting \in SUBSET (BusEvent \union {0})
BY DEF SubscriptionRecord

LEMMA DrainedFields ==
    ASSUME NEW r \in SubscriptionRecord, NEW d, d = Drained(r)
    PROVE  /\ d \in SubscriptionRecord
           /\ d.status = r.status /\ d.queue = r.queue /\ d.retryTimer = r.retryTimer
           /\ d.draining = (r.queue # <<>>)
           /\ d.current = IF r.queue # <<>> THEN {Head(r.queue)} ELSE {}
           /\ d.waiting = IF r.queue = <<>> /\ r.retryTimer = "null" THEN {} ELSE r.waiting
<1>1. CASE r.queue # <<>>
  <2>1. Head(r.queue) \in BusEvent
    BY <1>1, RecordFields
  <2> QED
    BY <1>1, <2>1 DEF Drained, SubscriptionRecord
<1>2. CASE r.queue = <<>>
  BY <1>2 DEF Drained, ResolveIdle, SubscriptionRecord
<1> QED
  BY <1>1, <1>2

JoinedBy(d, r, who) ==
    /\ d \in SubscriptionRecord
    /\ d.status = r.status /\ d.queue = r.queue /\ d.retryTimer = r.retryTimer
    /\ d.draining = r.draining /\ d.current = r.current
    /\ d.waiting = IF ~r.draining /\ r.queue = <<>> /\ r.retryTimer = "null" THEN r.waiting
                   ELSE r.waiting \union {who}

LEMMA WaitingFields ==
    ASSUME NEW r \in SubscriptionRecord, NEW who \in BusEvent \union {0}
    PROVE  JoinedBy(Waiting(r, who), r, who)
BY DEF Waiting, SubscriptionRecord, JoinedBy

\* What the steps make of the record of a subscription.
Subscribed(r, events) == Scheduled([r EXCEPT !.status = "active", !.queue = events])
PublishedTo(r, e) == Waiting(Scheduled([r EXCEPT !.queue = Append(@, e)]), e)
Unsubscribed(r) ==
    ResolveIdle([r EXCEPT !.status = "gone", !.queue = <<>>, !.draining = FALSE,
                   !.retryTimer = IF @ = "null" THEN "null" ELSE "cleared"])
Handled(r) == Drained([r EXCEPT !.queue = IF r.queue = <<>> THEN <<>> ELSE Tail(r.queue)])
Retried(r) == Drained([r EXCEPT !.retryTimer = "null"])

LEMMA SubscribeKeeps ==
    ASSUME NEW r, NEW came, NEW did, NEW finished, NEW wanted,
           SubscriptionInv(r, came, did, finished, wanted), r.status = "new",
           NEW backlog \in Seq(BusEvent),
           NEW d, d = Subscribed(r, backlog)
    PROVE  SubscriptionInv(d, backlog, did, finished, wanted) /\ d.waiting = {}
<1>1. r \in SubscriptionRecord /\ Fresh(r) /\ came = <<>> /\ wanted = {}
  BY DEF SubscriptionInv, Wakes
<1>2. PICK n : n = [r EXCEPT !.status = "active", !.queue = backlog]
  OBVIOUS
<1>3. /\ n \in SubscriptionRecord /\ n.status = "active" /\ n.queue = backlog
      /\ n.draining = FALSE /\ n.retryTimer = "null" /\ n.waiting = {}
  BY <1>1, <1>2 DEF SubscriptionRecord, Fresh
<1>4. d = Drained(n)
  BY <1>2, <1>3 DEF Subscribed, Scheduled
<1>5. /\ d \in SubscriptionRecord /\ d.status = "active" /\ d.queue = backlog
      /\ d.retryTimer = "null" /\ d.draining = (backlog # <<>>) /\ d.waiting = {}
      /\ d.current = IF backlog # <<>> THEN {Head(backlog)} ELSE {}
  BY <1>3, <1>4, DrainedFields
<1>6. did = <<>> /\ finished = {}
  <2>1. PICK done \in Seq(BusEvent), rest \in Seq(BusEvent) :
          came = done \o rest /\ did = Distinct(done) /\ finished = ToSet(done)
    BY DEF SubscriptionInv, Follows
  <2>2. Len(done \o rest) = 0 /\ Len(done \o rest) = Len(done) + Len(rest)
    BY <1>1, <2>1
  <2>3. done = <<>>
    BY <2>2
  <2> QED
    BY <2>1, <2>3, DistinctOfNone DEF ToSet
<1>7. Follows(d, backlog, did, finished)
  <2>1. PICK none : none = <<>>
    OBVIOUS
  <2>2. none \in Seq(BusEvent)
    BY <2>1
  <2>3. backlog = none \o backlog /\ did = Distinct(none) /\ finished = ToSet(none)
    BY <1>6, <2>1, DistinctOfNone DEF ToSet
  <2> QED
    BY <1>5, <2>2, <2>3 DEF Follows
<1>8. Wakes(d, backlog, finished, wanted)
  BY <1>1, <1>5 DEF Wakes, Busy
<1> QED
  BY <1>5, <1>7, <1>8 DEF SubscriptionInv

LEMMA PublishKeeps ==
    ASSUME NEW r, NEW came \in Seq(BusEvent), NEW did, NEW finished, NEW wanted,
           SubscriptionInv(r, came, did, finished, wanted), r.status = "active",
           NEW e \in BusEvent,
           NEW d, d = PublishedTo(r, e)
    PROVE  /\ SubscriptionInv(d, Append(came, e), did, finished, wanted \union {e})
           /\ d.waiting \subseteq r.waiting \union {e}
<1>1. r \in SubscriptionRecord /\ r.queue \in Seq(BusEvent)
  BY RecordFields DEF SubscriptionInv
<1>2. PICK q : q = Append(r.queue, e)
  OBVIOUS
<1>3. q \in Seq(BusEvent) /\ q # <<>> /\ (r.queue # <<>> => Head(q) = Head(r.queue))
  BY <1>1, <1>2, AppendElements
<1>4. PICK n : n = [r EXCEPT !.queue = q]
  OBVIOUS
<1>5. /\ n \in SubscriptionRecord /\ n.status = "active" /\ n.queue = q
      /\ n.draining = r.draining /\ n.retryTimer = r.retryTimer /\ n.waiting = r.waiting
      /\ n.current = r.current
  BY <1>1, <1>3, <1>4 DEF SubscriptionRecord
<1>6. PICK m : m = Scheduled(n)
  OBVIOUS
<1>7. d = Waiting(m, e)
  BY <1>1, <1>2, <1>4, <1>6 DEF PublishedTo
<1>8. /\ m \in SubscriptionRecord /\ m.status = "active" /\ m.queue = q
      /\ m.waiting = r.waiting /\ m.retryTimer = r.retryTimer
      /\ m.draining = (m.current # {}) /\ Busy(m)
      /\ m.retryTimer = "set" => m.current = {}
      /\ r.current # {} \/ r.retryTimer # "null" => m.current = r.current
      /\ r.current = {} /\ r.retryTimer = "null" => m.current = {Head(q)}
  <2>1. /\ r.draining = (r.current # {}) /\ r.retryTimer \in {"null", "set"}
        /\ r.retryTimer = "set" => r.current = {}
    BY DEF SubscriptionInv, Wakes
  <2>2. CASE r.draining \/ r.retryTimer # "null"
    <3>1. m = n
      BY <1>5, <1>6, <2>2 DEF Scheduled
    <3> QED
      BY <1>5, <2>1, <2>2, <3>1 DEF Busy
  <2>3. CASE ~r.draining /\ r.retryTimer = "null"
    <3>1. m = Drained(n)
      BY <1>5, <1>6, <2>3 DEF Scheduled
    <3> QED
      BY <1>3, <1>5, <2>1, <2>3, <3>1, DrainedFields DEF Busy
  <2> QED
    BY <2>2, <2>3
<1>9. /\ d \in SubscriptionRecord /\ d.status = "active" /\ d.queue = q
      /\ d.retryTimer = r.retryTimer /\ d.draining = m.draining /\ d.current = m.current
      /\ d.waiting = r.waiting \union {e}
  <2>1. e \in BusEvent \union {0}
    OBVIOUS
  <2>2. JoinedBy(d, m, e)
    BY <1>7, <1>8, <2>1, WaitingFields
  <2> QED
    BY <1>3, <1>8, <2>2 DEF JoinedBy
<1>10. Follows(d, Append(came, e), did, finished)
  <2>1. PICK done \in Seq(BusEvent), rest \in Seq(BusEvent) :
          /\ came = done \o rest /\ did = Distinct(done) /\ finished = ToSet(done)
          /\ r.queue = rest
          /\ \A x \in r.current : rest # <<>> /\ x = Head(rest)
    BY DEF SubscriptionInv, Follows
  <2>2. Append(came, e) = done \o q
    BY <1>2, <2>1, AppendToJoined
  <2>3. \A x \in d.current : q # <<>> /\ x = Head(q)
    BY <1>3, <1>8, <1>9, <2>1
  <2> QED
    BY <1>3, <1>9, <2>1, <2>2, <2>3 DEF Follows
<1>11. Wakes(d, Append(came, e), finished, wanted \union {e})
  <2>1. wanted \subseteq r.waiting \union finished /\ wanted \subseteq ToSet(came)
    BY DEF SubscriptionInv, Wakes
  <2>2. ToSet(Append(came, e)) = ToSet(came) \union {e}
    BY AppendElements
  <2>3. r.retryTimer \in {"null", "set"}
    BY DEF SubscriptionInv, Wakes
  <2> QED
    BY <1>8, <1>9, <2>1, <2>2, <2>3 DEF Wakes, Busy
<1> QED
  BY <1>9, <1>10, <1>11 DEF SubscriptionInv

LEMMA UnsubscribeKeeps ==
    ASSUME NEW r, NEW came, NEW did, NEW finished, NEW wanted,
           SubscriptionInv(r, came, did, finished, wanted), r.status = "active",
           NEW d, d = Unsubscribed(r)
    PROVE  SubscriptionInv(d, came, did, finished, wanted) /\ d.waiting = {}
<1>1. r \in SubscriptionRecord /\ <<>> \in Seq(BusEvent)
  BY DEF SubscriptionInv
<1>2. /\ d \in SubscriptionRecord /\ d.status = "gone" /\ d.queue = <<>>
      /\ d.current = r.current /\ d.waiting = {}
  BY <1>1 DEF SubscriptionRecord, Unsubscribed, ResolveIdle
<1>3. Follows(d, came, did, finished)
  BY <1>2 DEF SubscriptionInv, Follows
<1>4. Wakes(d, came, finished, wanted)
  BY <1>2 DEF Wakes
<1> QED
  BY <1>2, <1>3, <1>4 DEF SubscriptionInv

LEMMA WaitForIdleKeeps ==
    ASSUME NEW r, NEW came, NEW did, NEW finished, NEW wanted,
           SubscriptionInv(r, came, did, finished, wanted), r.status # "new",
           NEW d, d = Waiting(r, 0)
    PROVE  SubscriptionInv(d, came, did, finished, wanted) /\ d.waiting \subseteq r.waiting \union {0}
<1>1. r \in SubscriptionRecord /\ 0 \in BusEvent \union {0}
  BY DEF SubscriptionInv
<1>2. /\ d \in SubscriptionRecord
      /\ d.status = r.status /\ d.queue = r.queue /\ d.retryTimer = r.retryTimer
      /\ d.draining = r.draining /\ d.current = r.current
      /\ d.waiting = IF ~r.draining /\ r.queue = <<>> /\ r.retryTimer = "null" THEN r.waiting
                     ELSE r.waiting \union {0}
  <2>1. JoinedBy(d, r, 0)
    BY <1>1, WaitingFields
  <2> QED
    BY <2>1 DEF JoinedBy
<1>3. Follows(d, came, did, finished)
  BY <1>2 DEF SubscriptionInv, Follows
<1>4. Wakes(d, came, finished, wanted)
  <2>1. CASE r.status = "active"
    BY <1>2, <2>1 DEF SubscriptionInv, Wakes, Busy
  <2>2. CASE r.status = "gone"
    BY <1>2, <2>2 DEF SubscriptionInv, Wakes
  <2> QED
    BY <1>1, <2>1, <2>2, RecordFields
<1> QED
  BY <1>2, <1>3, <1>4 DEF SubscriptionInv

LEMMA HandlerReturnsKeeps ==
    ASSUME NEW r, NEW came, NEW did, NEW finished, NEW wanted,
           SubscriptionInv(r, came, did, finished, wanted), NEW e \in r.current,
           NEW d, d = Handled(r)
    PROVE  /\ SubscriptionInv(d, came, IF e \in finished THEN did ELSE Append(did, e),
                              finished \union {e}, wanted)
           /\ d.waiting \subseteq r.waiting
<1>1. PICK done \in Seq(BusEvent), rest \in Seq(BusEvent) :
        /\ came = done \o rest /\ did = Distinct(done) /\ finished = ToSet(done)
        /\ r.queue = IF r.status = "gone" THEN <<>> ELSE rest
        /\ \A x \in r.current : rest # <<>> /\ x = Head(rest)
  BY DEF SubscriptionInv, Follows
<1>2. r \in SubscriptionRecord /\ rest # <<>> /\ e = Head(rest)
  BY <1>1 DEF SubscriptionInv
<1>3. PICK after : after = Tail(rest)
  OBVIOUS
<1>4. after \in Seq(BusEvent) /\ e \in BusEvent
  BY <1>2, <1>3
<1>5. PICK q : q = IF r.queue = <<>> THEN <<>> ELSE Tail(r.queue)
  OBVIOUS
<1>6. q = (IF r.status = "gone" THEN <<>> ELSE after) /\ q \in Seq(BusEvent)
  BY <1>1, <1>2, <1>3, <1>4, <1>5
<1>7. PICK n : n = [r EXCEPT !.queue = q]
  OBVIOUS
<1>8. /\ n \in SubscriptionRecord /\ n.status = r.status /\ n.queue = q
      /\ n.retryTimer = r.retryTimer /\ n.waiting = r.waiting
  BY <1>2, <1>6, <1>7 DEF SubscriptionRecord
<1>9. d = Drained(n)
  BY <1>5, <1>7 DEF Handled
<1>10. /\ d \in SubscriptionRecord
       /\ d.status = r.status /\ d.queue = q /\ d.retryTimer = r.retryTimer
       /\ d.draining = (q # <<>>)
       /\ d.current = IF q # <<>> THEN {Head(q)} ELSE {}
       /\ d.waiting = IF q = <<>> /\ r.retryTimer = "null" THEN {} ELSE r.waiting
  BY <1>8, <1>9, DrainedFields
<1>11. PICK more : more = Append(done, e)
  OBVIOUS
<1>12. more \in Seq(BusEvent) /\ ToSet(more) = finished \union {e}
  BY <1>1, <1>4, <1>11, AppendElements
<1>13. came = more \o after
  BY <1>1, <1>2, <1>3, <1>11, HeadIsDone
<1>14. Distinct(more) = IF e \in finished THEN did ELSE Append(did, e)
  <2>1. did \in Seq(BusEvent) /\ Distinct(more) = Grown(did, e)
    BY <1>1, <1>4, <1>11, DistinctAppend
  <2>2. Contains(did, e) <=> e \in finished
    BY <1>1, <2>1, ElementOf, DistinctElements
  <2> QED
    BY <2>1, <2>2 DEF Grown
<1>15. Follows(d, came, IF e \in finished THEN did ELSE Append(did, e), finished \union {e})
  <2>1. \A x \in d.current : after # <<>> /\ x = Head(after)
    BY <1>6, <1>10
  <2>2. d.queue = IF d.status = "gone" THEN <<>> ELSE after
    BY <1>6, <1>10
  <2> QED
    BY <1>4, <1>12, <1>13, <1>14, <2>1, <2>2, Zenon DEF Follows
<1>16. Wakes(d, came, finished \union {e}, wanted)
  <2>1. CASE r.status = "active"
    <3>1. /\ r.retryTimer = "null"
          /\ wanted \subseteq r.waiting \union finished /\ wanted \subseteq ToSet(came)
      BY <2>1 DEF SubscriptionInv, Wakes
    <3>2. CASE q = <<>>
      <4>1. came = more
        BY <1>6, <1>12, <1>13, <2>1, <3>2
      <4>2. wanted \subseteq finished \union {e}
        BY <1>12, <3>1, <4>1
      <4> QED
        BY <1>10, <2>1, <3>1, <3>2, <4>2 DEF Wakes
    <3>3. CASE q # <<>>
      BY <1>10, <2>1, <3>1, <3>3 DEF Wakes, Busy
    <3> QED
      BY <3>2, <3>3
  <2>2. CASE r.status = "gone"
    BY <1>10, <2>2 DEF SubscriptionInv, Wakes
  <2>3. r.status # "new"
    BY DEF SubscriptionInv, Wakes, Fresh
  <2> QED
    BY <1>2, <2>1, <2>2, <2>3, RecordFields
<1> QED
  BY <1>10, <1>15, <1>16 DEF SubscriptionInv

LEMMA HandlerFailsKeeps ==
    ASSUME NEW r, NEW came, NEW did, NEW finished, NEW wanted,
           SubscriptionInv(r, came, did, finished, wanted), r.current # {},
           NEW d, d = [r EXCEPT !.retryTimer = "set", !.draining = FALSE, !.current = {}]
    PROVE  SubscriptionInv(d, came, did, finished, wanted) /\ d.waiting = r.waiting
<1>1. r \in SubscriptionRecord
  BY DEF SubscriptionInv
<1>2. /\ d \in SubscriptionRecord /\ d.status = r.status /\ d.queue = r.queue
      /\ d.current = {} /\ d.waiting = r.waiting /\ d.draining = FALSE /\ d.retryTimer = "set"
  BY <1>1 DEF SubscriptionRecord
<1>3. Follows(d, came, did, finished)
  BY <1>2 DEF SubscriptionInv, Follows
<1>4. Wakes(d, came, finished, wanted)
  <2>1. r.status # "new"
    BY DEF SubscriptionInv, Wakes, Fresh
  <2> QED
    BY <1>2, <2>1 DEF SubscriptionInv, Wakes, Busy
<1> QED
  BY <1>2, <1>3, <1>4 DEF SubscriptionInv

LEMMA RetryTimerKeeps ==
    ASSUME NEW r, NEW came, NEW did, NEW finished, NEW wanted,
           SubscriptionInv(r, came, did, finished, wanted), r.retryTimer = "set",
           NEW d, d = Retried(r)
    PROVE  SubscriptionInv(d, came, did, finished, wanted) /\ d.waiting \subseteq r.waiting
<1>1. r \in SubscriptionRecord
  BY DEF SubscriptionInv
<1>2. PICK n : n = [r EXCEPT !.retryTimer = "null"]
  OBVIOUS
<1>3. /\ n \in SubscriptionRecord /\ n.status = r.status /\ n.queue = r.queue
      /\ n.retryTimer = "null" /\ n.waiting = r.waiting
  BY <1>1, <1>2 DEF SubscriptionRecord
<1>4. /\ d \in SubscriptionRecord
      /\ d.status = r.status /\ d.queue = r.queue /\ d.retryTimer = "null"
      /\ d.draining = (r.queue # <<>>)
      /\ d.current = IF r.queue # <<>> THEN {Head(r.queue)} ELSE {}
      /\ d.waiting = IF r.queue = <<>> THEN {} ELSE r.waiting
  <2>1. d = Drained(n)
    BY <1>2, Zenon DEF Retried
  <2>2. /\ d \in SubscriptionRecord
        /\ d.status = n.status /\ d.queue = n.queue /\ d.retryTimer = n.retryTimer
        /\ d.draining = (n.queue # <<>>)
        /\ d.current = IF n.queue # <<>> THEN {Head(n.queue)} ELSE {}
        /\ d.waiting = IF n.queue = <<>> /\ n.retryTimer = "null" THEN {} ELSE n.waiting
    BY <1>3, <2>1, DrainedFields, Zenon
  <2> QED
    BY <1>3, <2>2
<1>5. PICK done \in Seq(BusEvent), rest \in Seq(BusEvent) :
        /\ came = done \o rest /\ did = Distinct(done) /\ finished = ToSet(done)
        /\ r.queue = IF r.status = "gone" THEN <<>> ELSE rest
  BY DEF SubscriptionInv, Follows
<1>6. Follows(d, came, did, finished)
  <2>1. \A x \in d.current : rest # <<>> /\ x = Head(rest)
    BY <1>4, <1>5
  <2> QED
    BY <1>4, <1>5, <2>1 DEF Follows
<1>7. Wakes(d, came, finished, wanted)
  <2>1. CASE r.status = "active"
    <3>1. /\ wanted \subseteq r.waiting \union finished /\ wanted \subseteq ToSet(came)
      BY <2>1 DEF SubscriptionInv, Wakes
    <3>2. CASE r.queue = <<>>
      <4>1. came = done
        BY <1>5, <2>1, <3>2
      <4> QED
        BY <1>4, <1>5, <2>1, <3>1, <3>2, <4>1 DEF Wakes
    <3>3. CASE r.queue # <<>>
      BY <1>4, <2>1, <3>1, <3>3 DEF Wakes, Busy
    <3> QED
      BY <3>2, <3>3
  <2>2. CASE r.status = "gone"
    BY <1>4, <2>2 DEF SubscriptionInv, Wakes
  <2>3. r.status # "new"
    BY DEF SubscriptionInv, Wakes, Fresh
  <2> QED
    BY <1>1, <2>1, <2>2, <2>3, RecordFields
<1> QED
  BY <1>4, <1>6, <1>7 DEF SubscriptionInv

(***************************************************************************)
(* The bus: every subscription, and no publisher that has its answer waits *)
(* any more.                                                               *)
(***************************************************************************)
SubscriptionHolds(s) ==
    SubscriptionInv(busSubscriptions[s], arrived[s], handledBy[s], completed[s], asked[s])

BusInv ==
    /\ stored \subseteq BusEvent /\ returned \subseteq BusEvent
    /\ busSubscriptions \in [Subscriber -> SubscriptionRecord]
    /\ completed \in [Subscriber -> SUBSET BusEvent] /\ asked \in [Subscriber -> SUBSET BusEvent]
    /\ handledBy \in [Subscriber -> Seq(BusEvent)] /\ arrived \in [Subscriber -> Seq(BusEvent)]
    /\ \A s \in Subscriber :
         SubscriptionHolds(s) /\ returned \cap busSubscriptions[s].waiting = {}

LEMMA BusStart == BusInit => BusInv
<1> SUFFICES ASSUME BusInit PROVE BusInv
  OBVIOUS
<1>1. <<>> \in Seq(BusEvent)
  OBVIOUS
<1>2. PICK r : r = [status |-> "new", queue |-> <<>>, draining |-> FALSE, current |-> {},
                    retryTimer |-> "null", waiting |-> {}]
  OBVIOUS
<1>3. r \in SubscriptionRecord /\ r.status = "new" /\ Fresh(r)
  BY <1>1, <1>2 DEF SubscriptionRecord, Fresh
<1>4. SubscriptionInv(r, <<>>, <<>>, {}, {})
  <2>1. PICK none : none = <<>>
    OBVIOUS
  <2>2. none \in Seq(BusEvent) /\ <<>> = none \o none
    BY <2>1
  <2>3. <<>> = Distinct(none) /\ {} = ToSet(none)
    BY <2>1, DistinctOfNone DEF ToSet
  <2>4. Follows(r, <<>>, <<>>, {})
    BY <1>3, <2>1, <2>2, <2>3 DEF Follows, Fresh
  <2>5. Wakes(r, <<>>, {}, {})
    BY <1>3 DEF Wakes
  <2> QED
    BY <1>3, <2>4, <2>5 DEF SubscriptionInv
<1>5. \A s \in Subscriber :
        /\ busSubscriptions[s] = r /\ arrived[s] = <<>> /\ handledBy[s] = <<>>
        /\ completed[s] = {} /\ asked[s] = {}
  BY <1>2 DEF BusInit
<1>6. \A s \in Subscriber : SubscriptionHolds(s)
  BY <1>4, <1>5, Zenon DEF SubscriptionHolds
<1>7. /\ stored = {} /\ returned = {} /\ busSubscriptions \in [Subscriber -> SubscriptionRecord]
      /\ completed \in [Subscriber -> SUBSET BusEvent] /\ asked \in [Subscriber -> SUBSET BusEvent]
      /\ handledBy \in [Subscriber -> Seq(BusEvent)] /\ arrived \in [Subscriber -> Seq(BusEvent)]
  BY <1>1, <1>2, <1>3 DEF BusInit
<1> QED
  BY <1>6, <1>7 DEF BusInv

\* A step of one subscription: the others stay as they are.
LEMMA OneSubscriptionMoves ==
    ASSUME BusInv, NEW s \in Subscriber, NEW d,
           NEW came \in Seq(BusEvent), NEW did \in Seq(BusEvent), NEW finished \in SUBSET BusEvent,
           SubscriptionInv(d, came, did, finished, asked[s]),
           d.waiting \subseteq busSubscriptions[s].waiting \union {0},
           busSubscriptions' = [busSubscriptions EXCEPT ![s] = d],
           arrived' = [arrived EXCEPT ![s] = came],
           handledBy' = [handledBy EXCEPT ![s] = did],
           completed' = [completed EXCEPT ![s] = finished],
           Return(busSubscriptions', Publishers) \/ UNCHANGED returned,
           UNCHANGED <<stored, asked>>
    PROVE  BusInv'
<1>1. /\ busSubscriptions \in [Subscriber -> SubscriptionRecord] /\ arrived \in [Subscriber -> Seq(BusEvent)]
      /\ completed \in [Subscriber -> SUBSET BusEvent] /\ handledBy \in [Subscriber -> Seq(BusEvent)]
      /\ d \in SubscriptionRecord
  BY DEF BusInv, SubscriptionInv
<1>2. /\ busSubscriptions' \in [Subscriber -> SubscriptionRecord] /\ arrived' \in [Subscriber -> Seq(BusEvent)]
      /\ completed' \in [Subscriber -> SUBSET BusEvent] /\ handledBy' \in [Subscriber -> Seq(BusEvent)]
  BY <1>1
<1>3. /\ busSubscriptions'[s] = d /\ arrived'[s] = came /\ completed'[s] = finished /\ handledBy'[s] = did
      /\ \A t \in Subscriber \ {s} :
           /\ busSubscriptions'[t] = busSubscriptions[t] /\ arrived'[t] = arrived[t]
           /\ completed'[t] = completed[t] /\ handledBy'[t] = handledBy[t]
  BY <1>1
<1>4. \A t \in Subscriber : SubscriptionHolds(t)'
  BY <1>3 DEF BusInv, SubscriptionHolds
<1>5. \A t \in Subscriber : busSubscriptions'[t].waiting \subseteq busSubscriptions[t].waiting \union {0}
  BY <1>3
<1>6. Publishers \subseteq BusEvent
  <2>1. \A t \in Subscriber : busSubscriptions[t].waiting \subseteq BusEvent \union {0}
    BY <1>1, RecordFields
  <2>2. \A x \in Publishers : x # 0 /\ \E t \in Subscriber : x \in busSubscriptions[t].waiting
    BY DEF Publishers
  <2> QED
    BY <2>1, <2>2
<1>7. returned \subseteq BusEvent /\ 0 \notin BusEvent
  BY EventBusAssumption DEF BusInv
<1>8. returned' \subseteq BusEvent
  BY <1>6, <1>7 DEF Return
<1>9. \A t \in Subscriber : returned' \cap busSubscriptions'[t].waiting = {}
  <2>1. \A t \in Subscriber : returned \cap busSubscriptions'[t].waiting = {}
    BY <1>5, <1>7 DEF BusInv
  <2> QED
    BY <2>1 DEF Return
<1> QED
  BY <1>2, <1>4, <1>8, <1>9 DEF BusInv

LEMMA BacklogIsListed == ASSUME BusInv, NEW s \in Subscriber PROVE Backlog(s) \in Seq(BusEvent)
<1>1. PICK b : b = {e \in stored : EventTypeOf[e] = EventTypeOf[s]}
  OBVIOUS
<1>2. b \subseteq BusEvent /\ b \in SUBSET Nat
  BY <1>1, EventBusAssumption DEF BusInv
<1>3. IsFiniteSet(b)
  BY <1>2, EventBusAssumption, FS_Subset
<1>4. \E events \in [1 .. Cardinality(b) -> b] :
        \A m, n \in DOMAIN events : m < n => events[m] < events[n]
  BY <1>2, <1>3, SortedListing
<1>5. Backlog(s) \in [1 .. Cardinality(b) -> b]
  BY <1>1, <1>4 DEF Backlog
<1>6. Cardinality(b) \in Nat
  BY <1>3, FS_CardinalityType
<1>7. PICK q, n : q = Backlog(s) /\ n = Cardinality(b)
  OBVIOUS
<1>8. n \in Nat /\ q \in [1 .. n -> BusEvent]
  BY <1>2, <1>5, <1>6, <1>7
<1>9. q \in Seq(BusEvent)
  BY <1>8
<1> QED
  BY <1>7, <1>9

LEMMA PublishToBusKeeps == ASSUME BusInv, NEW e \in BusEvent, PublishToBus(e) PROVE BusInv'
<1> DEFINE moved(s) == Waiting(Scheduled([busSubscriptions[s] EXCEPT !.queue = Append(@, e)]), e)
<1>1. busSubscriptions' = [s \in Subscriber |-> IF s \in Matching(e) THEN moved(s) ELSE busSubscriptions[s]]
  BY DEF PublishToBus
<1>2. /\ arrived' = [s \in Subscriber |-> IF s \in Matching(e) THEN Append(arrived[s], e) ELSE arrived[s]]
      /\ asked' = [s \in Subscriber |-> IF s \in Matching(e) THEN asked[s] \union {e} ELSE asked[s]]
      /\ UNCHANGED <<stored, completed, failures, handledBy>>
      /\ e \notin returned
      /\ Return(busSubscriptions', {e})
  BY <1>1 DEF PublishToBus
<1>3. \A s \in Subscriber : arrived[s] \in Seq(BusEvent) /\ asked[s] \in SUBSET BusEvent
  BY DEF BusInv
<1>4. ASSUME NEW s \in Matching(e)
      PROVE  /\ SubscriptionInv(moved(s), Append(arrived[s], e), handledBy[s], completed[s],
                                asked[s] \union {e})
             /\ moved(s).waiting \subseteq busSubscriptions[s].waiting \union {e}
  <2>1. /\ s \in Subscriber /\ busSubscriptions[s].status = "active"
        /\ SubscriptionInv(busSubscriptions[s], arrived[s], handledBy[s], completed[s], asked[s])
    BY DEF BusInv, SubscriptionHolds, Matching
  <2>2. PICK r : r = busSubscriptions[s]
    OBVIOUS
  <2>3. PICK d : d = PublishedTo(r, e)
    OBVIOUS
  <2>4. PICK came \in Seq(BusEvent) : came = arrived[s]
    BY <1>3, <2>1
  <2>5. PICK did, finished, wanted : did = handledBy[s] /\ finished = completed[s] /\ wanted = asked[s]
    OBVIOUS
  <2>6. SubscriptionInv(r, came, did, finished, wanted) /\ r.status = "active"
    BY <2>1, <2>2, <2>4, <2>5, Zenon
  <2>7. /\ SubscriptionInv(d, Append(came, e), did, finished, wanted \union {e})
        /\ d.waiting \subseteq r.waiting \union {e}
    BY <2>3, <2>6, PublishKeeps
  <2>8. d = moved(s)
    BY <2>2, <2>3, Zenon DEF PublishedTo
  <2> HIDE DEF moved
  <2> QED
    BY <2>2, <2>4, <2>5, <2>7, <2>8, Zenon
<1> HIDE DEF moved
<1>5. ASSUME NEW s \in Subscriber
      PROVE  /\ SubscriptionHolds(s)' /\ busSubscriptions'[s] \in SubscriptionRecord
             /\ busSubscriptions'[s].waiting \subseteq busSubscriptions[s].waiting \union {e}
  <2>1. CASE s \in Matching(e)
    <3>1. /\ busSubscriptions'[s] = moved(s) /\ arrived'[s] = Append(arrived[s], e)
          /\ handledBy'[s] = handledBy[s] /\ completed'[s] = completed[s] /\ asked'[s] = asked[s] \union {e}
      BY <1>1, <1>2, <2>1
    <3> QED
      BY <1>4, <2>1, <3>1 DEF SubscriptionHolds, SubscriptionInv
  <2>2. CASE s \notin Matching(e)
    <3>1. /\ busSubscriptions'[s] = busSubscriptions[s] /\ arrived'[s] = arrived[s]
          /\ handledBy'[s] = handledBy[s] /\ completed'[s] = completed[s] /\ asked'[s] = asked[s]
      BY <1>1, <1>2, <2>2
    <3> QED
      BY <3>1 DEF BusInv, SubscriptionHolds, SubscriptionInv
  <2> QED
    BY <2>1, <2>2
<1>6. /\ busSubscriptions' \in [Subscriber -> SubscriptionRecord]
      /\ arrived' \in [Subscriber -> Seq(BusEvent)] /\ asked' \in [Subscriber -> SUBSET BusEvent]
  <2>1. \A s \in Subscriber : Append(arrived[s], e) \in Seq(BusEvent)
    BY <1>3, AppendElements
  <2> QED
    BY <1>1, <1>2, <1>3, <1>5, <2>1
<1>7. \A s \in Subscriber : returned' \cap busSubscriptions'[s].waiting = {}
  <2>1. \A s \in Subscriber : returned \cap busSubscriptions'[s].waiting = {}
    BY <1>2, <1>5 DEF BusInv
  <2> QED
    BY <1>2, <2>1 DEF Return
<1>8. returned' \subseteq BusEvent
  BY <1>2 DEF Return, BusInv
<1> QED
  BY <1>2, <1>5, <1>6, <1>7, <1>8 DEF BusInv

LEMMA SubscribeToBusKeeps == ASSUME BusInv, NEW s \in Subscriber, Subscribe(s) PROVE BusInv'
<1>1. PICK r, did, finished, wanted :
        r = busSubscriptions[s] /\ did = handledBy[s] /\ finished = completed[s] /\ wanted = asked[s]
  OBVIOUS
<1>2. PICK backlog \in Seq(BusEvent) : backlog = Backlog(s)
  BY BacklogIsListed
<1>3. PICK d : d = Subscribed(r, backlog)
  OBVIOUS
<1>4. r.status = "new" /\ SubscriptionInv(r, arrived[s], did, finished, wanted)
  BY <1>1 DEF Subscribe, BusInv, SubscriptionHolds
<1>5. SubscriptionInv(d, backlog, did, finished, wanted) /\ d.waiting = {}
  BY <1>3, <1>4, SubscribeKeeps
<1>6. /\ busSubscriptions' = [busSubscriptions EXCEPT ![s] = d]
      /\ arrived' = [arrived EXCEPT ![s] = backlog]
      /\ UNCHANGED <<stored, completed, handledBy, asked, returned>>
  BY <1>1, <1>2, <1>3 DEF Subscribe, Subscribed
<1>7. /\ handledBy' = [handledBy EXCEPT ![s] = did] /\ completed' = [completed EXCEPT ![s] = finished]
      /\ did \in Seq(BusEvent) /\ finished \in SUBSET BusEvent
  BY <1>1, <1>6 DEF BusInv
<1> QED
  BY <1>1, <1>5, <1>6, <1>7, OneSubscriptionMoves

LEMMA UnsubscribeFromBusKeeps == ASSUME BusInv, NEW s \in Subscriber, Unsubscribe(s) PROVE BusInv'
<1>1. PICK r, came, did, finished, wanted :
        /\ r = busSubscriptions[s] /\ came = arrived[s] /\ did = handledBy[s]
        /\ finished = completed[s] /\ wanted = asked[s]
  OBVIOUS
<1>2. PICK d : d = Unsubscribed(r)
  OBVIOUS
<1>3. r.status = "active" /\ SubscriptionInv(r, came, did, finished, wanted)
  BY <1>1 DEF Unsubscribe, BusInv, SubscriptionHolds
<1>4. SubscriptionInv(d, came, did, finished, wanted) /\ d.waiting = {}
  BY <1>2, <1>3, UnsubscribeKeeps
<1>5. /\ busSubscriptions' = [busSubscriptions EXCEPT ![s] = d]
      /\ Return(busSubscriptions', Publishers)
      /\ UNCHANGED <<stored, completed, handledBy, arrived, asked>>
  BY <1>1, <1>2 DEF Unsubscribe, Unsubscribed
<1>6. /\ handledBy' = [handledBy EXCEPT ![s] = did] /\ completed' = [completed EXCEPT ![s] = finished]
      /\ arrived' = [arrived EXCEPT ![s] = came]
      /\ did \in Seq(BusEvent) /\ finished \in SUBSET BusEvent /\ came \in Seq(BusEvent)
  BY <1>1, <1>5 DEF BusInv
<1> QED
  BY <1>1, <1>4, <1>5, <1>6, OneSubscriptionMoves

LEMMA WaitForBusKeeps == ASSUME BusInv, NEW s \in Subscriber, WaitForIdle(s) PROVE BusInv'
<1>1. PICK r, came, did, finished, wanted :
        /\ r = busSubscriptions[s] /\ came = arrived[s] /\ did = handledBy[s]
        /\ finished = completed[s] /\ wanted = asked[s]
  OBVIOUS
<1>2. PICK d : d = Waiting(r, 0)
  OBVIOUS
<1>3. r.status # "new" /\ SubscriptionInv(r, came, did, finished, wanted)
  BY <1>1 DEF WaitForIdle, BusInv, SubscriptionHolds
<1>4. SubscriptionInv(d, came, did, finished, wanted) /\ d.waiting \subseteq r.waiting \union {0}
  BY <1>2, <1>3, WaitForIdleKeeps
<1>5. /\ busSubscriptions' = [busSubscriptions EXCEPT ![s] = d]
      /\ UNCHANGED <<stored, completed, handledBy, arrived, asked, returned>>
  BY <1>1, <1>2 DEF WaitForIdle
<1>6. /\ handledBy' = [handledBy EXCEPT ![s] = did] /\ completed' = [completed EXCEPT ![s] = finished]
      /\ arrived' = [arrived EXCEPT ![s] = came]
      /\ did \in Seq(BusEvent) /\ finished \in SUBSET BusEvent /\ came \in Seq(BusEvent)
  BY <1>1, <1>5 DEF BusInv
<1> QED
  BY <1>1, <1>4, <1>5, <1>6, OneSubscriptionMoves

LEMMA HandlerReturnsToBusKeeps ==
    ASSUME BusInv, NEW s \in Subscriber, HandlerReturns(s) PROVE BusInv'
<1>1. PICK r, came, did, finished, wanted :
        /\ r = busSubscriptions[s] /\ came = arrived[s] /\ did = handledBy[s]
        /\ finished = completed[s] /\ wanted = asked[s]
  OBVIOUS
<1>2. PICK e \in r.current :
        /\ busSubscriptions' = [busSubscriptions EXCEPT ![s] = Handled(r)]
        /\ Return(busSubscriptions', Publishers)
        /\ handledBy' = [handledBy EXCEPT ![s] = IF e \in finished THEN @ ELSE Append(@, e)]
        /\ completed' = [completed EXCEPT ![s] = @ \union {e}]
        /\ UNCHANGED <<stored, failures, arrived, asked>>
  BY <1>1, Zenon DEF HandlerReturns, Handled
<1>3. PICK d : d = Handled(r)
  OBVIOUS
<1>4. SubscriptionInv(r, came, did, finished, wanted)
  BY <1>1 DEF BusInv, SubscriptionHolds
<1>5. PICK does : does = IF e \in finished THEN did ELSE Append(did, e)
  OBVIOUS
<1>6. SubscriptionInv(d, came, does, finished \union {e}, wanted) /\ d.waiting \subseteq r.waiting
  BY <1>3, <1>4, <1>5, HandlerReturnsKeeps
<1>7. did \in Seq(BusEvent) /\ finished \in SUBSET BusEvent /\ came \in Seq(BusEvent) /\ e \in BusEvent
  BY <1>1, <1>4, RecordFields DEF BusInv, SubscriptionInv
<1>8. does \in Seq(BusEvent) /\ finished \union {e} \in SUBSET BusEvent
  BY <1>5, <1>7, AppendElements
<1>9. /\ handledBy' = [handledBy EXCEPT ![s] = does]
      /\ completed' = [completed EXCEPT ![s] = finished \union {e}]
      /\ arrived' = [arrived EXCEPT ![s] = came]
  BY <1>1, <1>2, <1>5 DEF BusInv
<1>10. PICK fin \in SUBSET BusEvent : fin = finished \union {e}
  BY <1>8
<1>11. /\ SubscriptionInv(d, came, does, fin, asked[s])
       /\ d.waiting \subseteq busSubscriptions[s].waiting \union {0}
  BY <1>1, <1>6, <1>10
<1>12. /\ busSubscriptions' = [busSubscriptions EXCEPT ![s] = d]
       /\ completed' = [completed EXCEPT ![s] = fin]
       /\ Return(busSubscriptions', Publishers)
       /\ UNCHANGED <<stored, asked>>
  <2>1. UNCHANGED asked
    BY DEF HandlerReturns
  <2> QED
    BY <1>2, <1>3, <1>9, <1>10, <2>1, Zenon
<1> QED
  BY <1>7, <1>8, <1>9, <1>11, <1>12, OneSubscriptionMoves

LEMMA HandlerFailsOnBusKeeps == ASSUME BusInv, NEW s \in Subscriber, HandlerFails(s) PROVE BusInv'
<1>1. PICK r, came, did, finished, wanted :
        /\ r = busSubscriptions[s] /\ came = arrived[s] /\ did = handledBy[s]
        /\ finished = completed[s] /\ wanted = asked[s]
  OBVIOUS
<1>2. PICK d : d = [r EXCEPT !.retryTimer = "set", !.draining = FALSE, !.current = {}]
  OBVIOUS
<1>3. r.current # {} /\ SubscriptionInv(r, came, did, finished, wanted)
  BY <1>1 DEF HandlerFails, BusInv, SubscriptionHolds
<1>4. SubscriptionInv(d, came, did, finished, wanted) /\ d.waiting = r.waiting
  BY <1>2, <1>3, HandlerFailsKeeps
<1>5. /\ busSubscriptions' = [busSubscriptions EXCEPT ![s] = d]
      /\ UNCHANGED <<stored, completed, handledBy, arrived, asked, returned>>
  BY <1>1, <1>2 DEF HandlerFails, BusInv
<1>6. /\ handledBy' = [handledBy EXCEPT ![s] = did] /\ completed' = [completed EXCEPT ![s] = finished]
      /\ arrived' = [arrived EXCEPT ![s] = came]
      /\ did \in Seq(BusEvent) /\ finished \in SUBSET BusEvent /\ came \in Seq(BusEvent)
  BY <1>1, <1>5 DEF BusInv
<1>7. /\ SubscriptionInv(d, came, did, finished, asked[s])
      /\ d.waiting \subseteq busSubscriptions[s].waiting \union {0}
      /\ UNCHANGED returned /\ UNCHANGED <<stored, asked>>
  BY <1>1, <1>4, <1>5
<1> QED
  BY <1>5, <1>6, <1>7, OneSubscriptionMoves

LEMMA RetryTimerOnBusKeeps == ASSUME BusInv, NEW s \in Subscriber, RetryTimer(s) PROVE BusInv'
<1>1. PICK r, came, did, finished, wanted :
        /\ r = busSubscriptions[s] /\ came = arrived[s] /\ did = handledBy[s]
        /\ finished = completed[s] /\ wanted = asked[s]
  OBVIOUS
<1>2. PICK d : d = Retried(r)
  OBVIOUS
<1>3. r.retryTimer = "set" /\ SubscriptionInv(r, came, did, finished, wanted)
  BY <1>1 DEF RetryTimer, BusInv, SubscriptionHolds
<1>4. SubscriptionInv(d, came, did, finished, wanted) /\ d.waiting \subseteq r.waiting
  BY <1>2, <1>3, RetryTimerKeeps
<1>5. /\ busSubscriptions' = [busSubscriptions EXCEPT ![s] = d]
      /\ Return(busSubscriptions', Publishers)
      /\ UNCHANGED <<stored, completed, handledBy, arrived, asked>>
  BY <1>1, <1>2 DEF RetryTimer, Retried
<1>6. /\ handledBy' = [handledBy EXCEPT ![s] = did] /\ completed' = [completed EXCEPT ![s] = finished]
      /\ arrived' = [arrived EXCEPT ![s] = came]
      /\ did \in Seq(BusEvent) /\ finished \in SUBSET BusEvent /\ came \in Seq(BusEvent)
  BY <1>1, <1>5 DEF BusInv
<1> QED
  BY <1>1, <1>4, <1>5, <1>6, OneSubscriptionMoves

LEMMA BusKeeps == ASSUME BusInv, BusNext PROVE BusInv'
<1>1. CASE \E e \in BusEvent : Store(e)
  BY <1>1 DEF Store, BusInv, SubscriptionHolds
<1>2. CASE \E e \in BusEvent : PublishToBus(e)
  BY <1>2, PublishToBusKeeps
<1>3. CASE \E s \in Subscriber : Subscribe(s)
  BY <1>3, SubscribeToBusKeeps
<1>4. CASE \E s \in Subscriber : Unsubscribe(s)
  BY <1>4, UnsubscribeFromBusKeeps
<1>5. CASE \E s \in Subscriber : WaitForIdle(s)
  BY <1>5, WaitForBusKeeps
<1>6. CASE \E s \in Subscriber : HandlerReturns(s)
  BY <1>6, HandlerReturnsToBusKeeps
<1>7. CASE \E s \in Subscriber : HandlerFails(s)
  BY <1>7, HandlerFailsOnBusKeeps
<1>8. CASE \E s \in Subscriber : RetryTimer(s)
  BY <1>8, RetryTimerOnBusKeeps
<1> QED
  BY <1>1, <1>2, <1>3, <1>4, <1>5, <1>6, <1>7, <1>8 DEF BusNext

LEMMA BusDelivers == BusInv => HandledInOrder /\ PublishersAreAnswered
<1> SUFFICES ASSUME BusInv PROVE HandledInOrder /\ PublishersAreAnswered
  OBVIOUS
<1>1. ASSUME NEW s \in Subscriber
      PROVE  IsPrefix(handledBy[s], Distinct(arrived[s])) /\ completed[s] = ToSet(handledBy[s])
  <2>1. PICK done \in Seq(BusEvent), rest \in Seq(BusEvent) :
          arrived[s] = done \o rest /\ handledBy[s] = Distinct(done) /\ completed[s] = ToSet(done)
    BY DEF BusInv, SubscriptionHolds, SubscriptionInv, Follows
  <2> QED
    BY <2>1, DistinctPrefix, DistinctElements
<1>2. ASSUME NEW s \in Subscriber
      PROVE  busSubscriptions[s].waiting \ {0} # {} =>
               busSubscriptions[s].current # {} \/ busSubscriptions[s].retryTimer = "set"
  <2>1. busSubscriptions[s].status \in {"new", "active", "gone"}
    BY RecordFields DEF BusInv
  <2>2. Wakes(busSubscriptions[s], arrived[s], completed[s], asked[s])
    BY DEF BusInv, SubscriptionHolds, SubscriptionInv
  <2> QED
    BY <2>1, <2>2 DEF Wakes, Fresh, Busy
<1>3. ASSUME NEW s \in Subscriber, busSubscriptions[s].status = "active"
      PROVE  returned \cap asked[s] \subseteq ToSet(handledBy[s])
  <2>1. asked[s] \subseteq busSubscriptions[s].waiting \union completed[s]
    BY <1>3 DEF BusInv, SubscriptionHolds, SubscriptionInv, Wakes
  <2>2. returned \cap busSubscriptions[s].waiting = {}
    BY DEF BusInv
  <2> QED
    BY <1>1, <2>1, <2>2
<1> QED
  BY <1>1, <1>2, <1>3 DEF HandledInOrder, PublishersAreAnswered

(***************************************************************************)
(* Bills.  A vendor is never gone, as its deletion leaves deleted_at null, *)
(* so the vendor of a bill is found; and the dates of a bill are ordered.  *)
(***************************************************************************)
BillsInv ==
    /\ BillsTypeOK
    /\ \A v \in BillVendor : vendors[v] # Undefined => ~vendors[v].deleted
    /\ \A b \in BillId : bills[b] # Undefined =>
         /\ vendors[bills[b].vendor] # Undefined
         /\ DatesOrdered(bills[b].issued, bills[b].due)

LEMMA BillsStart == BillsInit => BillsInv
BY DEF BillsInit, BillsInv, BillsTypeOK

\* A vendor that is written stays, and so do the bills.
LEMMA VendorWritten ==
    ASSUME BillsInv, NEW v \in BillVendor, NEW r \in VendorRecord, ~r.deleted,
           vendors' = [vendors EXCEPT ![v] = r], UNCHANGED bills
    PROVE  BillsInv'
<1>1. BillsTypeOK'
  BY DEF BillsInv, BillsTypeOK
<1>2. r # Undefined
  BY BillsAssumption
<1>3. \A u \in BillVendor : vendors'[u] = IF u = v THEN r ELSE vendors[u]
  BY DEF BillsInv, BillsTypeOK
<1>4. \A b \in BillId : bills[b] # Undefined => bills[b].vendor \in BillVendor
  BY DEF BillsInv, BillsTypeOK, BillRecord
<1> QED
  BY <1>1, <1>2, <1>3, <1>4 DEF BillsInv, DatesOrdered

\* And a bill that is written.
LEMMA BillWritten ==
    ASSUME BillsInv, NEW b \in BillId, NEW r \in BillRecord, vendors[r.vendor] # Undefined,
           DatesOrdered(r.issued, r.due), bills' = [bills EXCEPT ![b] = r], UNCHANGED vendors
    PROVE  BillsInv'
<1>1. BillsTypeOK'
  BY DEF BillsInv, BillsTypeOK
<1>2. \A c \in BillId : bills'[c] = IF c = b THEN r ELSE bills[c]
  BY DEF BillsInv, BillsTypeOK
<1> QED
  BY <1>1, <1>2 DEF BillsInv, DatesOrdered

LEMMA UpdateBillKeeps ==
    ASSUME BillsInv, NEW b \in BillId, NEW patch \in Patch, UpdateBill(b, patch)
    PROVE  BillsInv'
<1> DEFINE or(field) == IF field \in DOMAIN patch THEN patch[field] ELSE bills[b][field]
           checked(field) == IF or(field) # Undefined THEN or(field) ELSE bills[b][field]
<1>1. bills[b] \in BillRecord /\ bills[b] # Undefined /\ vendors[bills[b].vendor] # Undefined
  BY DEF UpdateBill, BillFound, BillsInv, BillsTypeOK
<1>2. PICK old \in BillRecord : old = bills[b]
  BY <1>1
<1>3. PICK r : r = [old EXCEPT !.amount = or("amount"), !.status = or("status"),
                               !.issued = or("issued"), !.due = or("due"),
                               !.currency = IF "currency" \in DOMAIN patch
                                            THEN patch.currency ELSE Undefined]
  OBVIOUS
<1>4. /\ or("amount") \in BillAmount /\ or("status") \in BillStatus
      /\ or("issued") \in OptionalDay /\ or("due") \in OptionalDay
      /\ "currency" \in DOMAIN patch => patch.currency \in Currency
  BY <1>2 DEF Patch, BillRecord, Currency
<1>5. r \in BillRecord /\ r.vendor = old.vendor /\ r.issued = or("issued") /\ r.due = or("due")
  BY <1>2, <1>3, <1>4 DEF BillRecord, Currency
<1>6. bills' = [bills EXCEPT ![b] = r] /\ UNCHANGED vendors
  BY <1>2, <1>3 DEF UpdateBill, BillsInv, BillsTypeOK
<1>7. DatesOrdered(checked("issued"), checked("due"))
  BY DEF UpdateBill
<1>8. DatesOrdered(r.issued, r.due)
  BY <1>5, <1>7 DEF DatesOrdered
<1> HIDE DEF or, checked
<1> QED
  BY <1>1, <1>2, <1>5, <1>6, <1>8, BillWritten

LEMMA BillsKeep == ASSUME BillsInv, BillsNext PROVE BillsInv'
<1>1. ASSUME NEW v \in BillVendor, NEW status \in {"active", "inactive"}, CreateVendor(v, status)
      PROVE  BillsInv'
  <2>1. PICK r : r = [status |-> status, currency |-> "USD", deleted |-> FALSE]
    OBVIOUS
  <2>2. r \in VendorRecord /\ ~r.deleted
    BY <2>1 DEF VendorRecord, Currency
  <2> QED
    BY <1>1, <2>1, <2>2, VendorWritten DEF CreateVendor
<1>2. ASSUME NEW v \in BillVendor, NEW status \in {"active", "inactive"},
             NEW currency \in Currency, UpdateVendor(v, status, currency)
      PROVE  BillsInv'
  <2>1. vendors[v] \in VendorRecord /\ ~vendors[v].deleted
    BY <1>2 DEF UpdateVendor, VendorFound, BillsInv, BillsTypeOK
  <2>2. PICK r : r = [vendors[v] EXCEPT !.status = status, !.currency = currency]
    OBVIOUS
  <2>3. r \in VendorRecord /\ ~r.deleted
    BY <2>1, <2>2 DEF VendorRecord
  <2>4. vendors' = [vendors EXCEPT ![v] = r] /\ UNCHANGED bills
    BY <1>2, <2>2 DEF UpdateVendor, BillsInv, BillsTypeOK
  <2> QED
    BY <2>3, <2>4, VendorWritten
<1>3. ASSUME NEW v \in BillVendor, DeleteVendor(v) PROVE BillsInv'
  <2>1. vendors[v] \in VendorRecord /\ ~vendors[v].deleted
    BY <1>3 DEF DeleteVendor, VendorFound, BillsInv, BillsTypeOK
  <2>2. PICK r : r = [vendors[v] EXCEPT !.status = "inactive"]
    OBVIOUS
  <2>3. r \in VendorRecord /\ ~r.deleted
    BY <2>1, <2>2 DEF VendorRecord
  <2>4. vendors' = [vendors EXCEPT ![v] = r] /\ UNCHANGED bills
    BY <1>3, <2>2 DEF DeleteVendor, SoftDeleteVendor, BillsInv, BillsTypeOK
  <2> QED
    BY <2>3, <2>4, VendorWritten
<1>4. ASSUME NEW b \in BillId, NEW v \in BillVendor, NEW amount \in BillAmount,
             NEW status \in BillStatus, NEW issued \in OptionalDay, NEW due \in OptionalDay,
             CreateBill(b, v, amount, status, issued, due)
      PROVE  BillsInv'
  <2>1. PICK r : r = [vendor |-> v, amount |-> amount, currency |-> "USD", status |-> status,
                      issued |-> issued, due |-> due, deleted |-> FALSE]
    OBVIOUS
  <2>2. r \in BillRecord /\ vendors[r.vendor] # Undefined /\ DatesOrdered(r.issued, r.due)
    BY <1>4, <2>1 DEF BillRecord, Currency, CreateBill, VendorFound
  <2> QED
    BY <1>4, <2>1, <2>2, BillWritten DEF CreateBill
<1>5. ASSUME NEW b \in BillId, DeleteBill(b) PROVE BillsInv'
  <2>1. /\ bills[b] \in BillRecord /\ vendors[bills[b].vendor] # Undefined
        /\ DatesOrdered(bills[b].issued, bills[b].due)
    BY <1>5 DEF DeleteBill, BillFound, BillsInv, BillsTypeOK
  <2>2. PICK r : r = [bills[b] EXCEPT !.deleted = TRUE]
    OBVIOUS
  <2>3. r \in BillRecord /\ r.vendor = bills[b].vendor /\ r.issued = bills[b].issued
        /\ r.due = bills[b].due
    BY <2>1, <2>2 DEF BillRecord
  <2>4. bills' = [bills EXCEPT ![b] = r] /\ UNCHANGED vendors
    BY <1>5, <2>2 DEF DeleteBill, BillsInv, BillsTypeOK
  <2> QED
    BY <2>1, <2>3, <2>4, BillWritten
<1> QED
  BY <1>1, <1>2, <1>3, <1>4, <1>5, UpdateBillKeeps DEF BillsNext

LEMMA BillsListed == BillsInv => BillsStayListed
BY DEF BillsInv, BillsStayListed, BillFound, VendorFound, ListBillsByVendor, BillsTypeOK, BillRecord

(***************************************************************************)
(* Customers.  Whom a walk expects and has not shown has a place behind    *)
(* its offset: a customer who is created comes before others, or behind    *)
(* them, but never takes one out of the list.                              *)
(***************************************************************************)
CustomerRecord == [name : Name \cup {NoName}, created : Nat, deleted : BOOLEAN]

IsWalk(w) ==
    /\ w = [search |-> w.search, offset |-> w.offset, shown |-> w.shown, expected |-> w.expected,
            disturbed |-> w.disturbed, hasMore |-> w.hasMore]
    /\ w.search \in Name \cup {NoName} /\ w.offset \in Nat
    /\ w.disturbed \in BOOLEAN /\ w.hasMore \in BOOLEAN

StillToCome(w, i) == w.hasMore /\ Place(i, w.search) > w.offset

WalkIsSound ==
    ~walk.disturbed => /\ walk.expected \subseteq Matches(walk.search)
                       /\ \A i \in walk.expected \ walk.shown : StillToCome(walk, i)

CustomersInv ==
    /\ millis \in Nat
    /\ customers \in Seq(CustomerRecord)
    /\ IsWalk(walk)
    /\ WalkIsSound

LEMMA CustomersStart == CustomersInit => CustomersInv
BY DEF CustomersInit, CustomersInv, NoWalk, IsWalk, WalkIsSound

LEMMA WalksComplete == CustomersInv => WalksMissNobody
BY DEF CustomersInv, WalkIsSound, StillToCome, WalksMissNobody

LEMMA MatchesAreFinite ==
    ASSUME customers \in Seq(CustomerRecord), NEW search
    PROVE  /\ Matches(search) \subseteq 1 .. Len(customers)
           /\ IsFiniteSet(Matches(search)) /\ Cardinality(Matches(search)) \in Nat
<1>1. Matches(search) \subseteq 1 .. Len(customers)
  BY DEF Matches, Positions
<1>2. Len(customers) \in Nat
  OBVIOUS
<1>3. IsFiniteSet(1 .. Len(customers))
  BY <1>2, FS_Interval
<1>4. IsFiniteSet(Matches(search))
  BY <1>1, <1>3, FS_Subset
<1> QED
  BY <1>1, <1>4, FS_CardinalityType

LEMMA MatchIsRecord ==
    ASSUME customers \in Seq(CustomerRecord), NEW search, NEW i \in Matches(search)
    PROVE  i \in Nat /\ customers[i].created \in Nat
<1>1. i \in 1 .. Len(customers) /\ Len(customers) \in Nat
  BY DEF Matches, Positions
<1>2. customers[i] \in CustomerRecord
  BY <1>1
<1> QED
  BY <1>1, <1>2 DEF CustomerRecord

\* The place of a customer is one of the list.
LEMMA PlaceIsOne ==
    ASSUME customers \in Seq(CustomerRecord), NEW search, NEW i \in Matches(search)
    PROVE  Place(i, search) \in 1 .. Cardinality(Matches(search))
<1>1. PICK M : M = Matches(search)
  OBVIOUS
<1>2. PICK B : B = {j \in Matches(search) : ListedBefore(j, i)}
  OBVIOUS
<1>3. customers[i].created \in Nat /\ i \in Nat
  BY MatchIsRecord
<1>4. i \notin B
  BY <1>2, <1>3 DEF ListedBefore
<1>5. IsFiniteSet(M) /\ Cardinality(M) \in Nat /\ B \subseteq M \ {i} /\ i \in M
  BY <1>1, <1>2, <1>4, MatchesAreFinite
<1>6. IsFiniteSet(M \ {i}) /\ Cardinality(M \ {i}) = Cardinality(M) - 1
  BY <1>5, FS_RemoveElement
<1>7. IsFiniteSet(B) /\ Cardinality(B) <= Cardinality(M \ {i})
  BY <1>5, <1>6, FS_Subset
<1>8. Cardinality(B) \in Nat
  BY <1>7, FS_CardinalityType
<1>9. Place(i, search) = 1 + Cardinality(B)
  BY <1>2 DEF Place
<1> QED
  BY <1>1, <1>5, <1>6, <1>7, <1>8, <1>9

\* Who is listed before another has a smaller place.
LEMMA PlaceIsOrder ==
    ASSUME customers \in Seq(CustomerRecord), NEW search,
           NEW i \in Matches(search), NEW j \in Matches(search), ListedBefore(i, j)
    PROVE  Place(i, search) < Place(j, search)
<1>1. PICK A : A = {k \in Matches(search) : ListedBefore(k, i)}
  OBVIOUS
<1>2. PICK B : B = {k \in Matches(search) : ListedBefore(k, j)}
  OBVIOUS
<1>3. \A k \in Matches(search) : customers[k].created \in Nat /\ k \in Nat
  BY MatchIsRecord
<1>4. A \subseteq B \ {i} /\ i \in B /\ B \subseteq Matches(search)
  BY <1>1, <1>2, <1>3 DEF ListedBefore
<1>5. IsFiniteSet(B)
  BY <1>4, MatchesAreFinite, FS_Subset
<1>6. IsFiniteSet(B \ {i}) /\ Cardinality(B \ {i}) = Cardinality(B) - 1 /\ Cardinality(B) \in Nat
  BY <1>4, <1>5, FS_RemoveElement, FS_CardinalityType
<1>7. IsFiniteSet(A) /\ Cardinality(A) <= Cardinality(B \ {i})
  BY <1>4, <1>6, FS_Subset
<1>8. Cardinality(A) \in Nat
  BY <1>7, FS_CardinalityType
<1>9. Place(i, search) = 1 + Cardinality(A) /\ Place(j, search) = 1 + Cardinality(B)
  BY <1>1, <1>2 DEF Place
<1> QED
  BY <1>6, <1>7, <1>8, <1>9

\* Each customer stands at the place that is the customer's.
LEMMA ScopedAtPlace ==
    ASSUME customers \in Seq(CustomerRecord), NEW search, NEW i \in Matches(search)
    PROVE  Scoped(search)[Place(i, search)] = i
<1>1. PICK k : k = Place(i, search)
  OBVIOUS
<1>2. k \in 1 .. Cardinality(Matches(search))
  BY <1>1, PlaceIsOne
<1>3. PICK e : e = CHOOSE j \in Matches(search) : Place(j, search) = k
  OBVIOUS
<1>4. e \in Matches(search) /\ Place(e, search) = k
  BY <1>1, <1>3
<1>5. /\ customers[i].created \in Nat /\ i \in Nat
      /\ customers[e].created \in Nat /\ e \in Nat
  BY <1>4, MatchIsRecord
<1>6. i = e \/ ListedBefore(i, e) \/ ListedBefore(e, i)
  BY <1>5 DEF ListedBefore
<1>7. Place(i, search) \in Nat
  BY PlaceIsOne
<1>8. i = e
  BY <1>1, <1>4, <1>6, <1>7, PlaceIsOrder
<1> QED
  BY <1>1, <1>2, <1>3, <1>8 DEF Scoped

\* What a page does for a customer who matches.
LEMMA PageShows ==
    ASSUME customers \in Seq(CustomerRecord), NEW w, IsWalk(w), NEW offset \in Nat,
           ListCustomers(w, offset), NEW i \in Matches(w.search), Place(i, w.search) > offset
    PROVE  i \in walk'.shown \/ (walk'.hasMore /\ Place(i, w.search) > walk'.offset)
<1>1. PICK s : s = Scoped(w.search)
  OBVIOUS
<1>2. PICK n : n = Cardinality(Matches(w.search))
  OBVIOUS
<1>3. n \in Nat /\ DOMAIN s = 1 .. n /\ s = [k \in 1 .. n |-> s[k]]
  BY <1>1, <1>2, MatchesAreFinite DEF Scoped
<1>4. PICK S : S = {s[k] : k \in 1 .. n}
  OBVIOUS
<1>5. s \in Seq(S) /\ Len(s) = n
  <2>1. s \in [1 .. n -> S]
    BY <1>3, <1>4
  <2> QED
    BY <1>3, <2>1
<1>6. PICK m : m = Min({offset + Limit, Len(s)})
  OBVIOUS
<1>7. m \in {offset + Limit, n} /\ m <= n /\ Limit \in Nat
  <2>1. PICK T : T = {offset + Limit, n}
    OBVIOUS
  <2>2. Limit \in Nat
    BY CustomersAssumption
  <2>3. T \in SUBSET Nat /\ T # {}
    BY <1>3, <2>1, <2>2
  <2>4. Min(T) \in T /\ Min(T) <= n
    BY <2>1, <2>3, MinIsLeast
  <2> QED
    BY <1>5, <1>6, <2>1, <2>2, <2>4
<1>8. PICK k : k = Place(i, w.search)
  OBVIOUS
<1>9. k \in 1 .. n /\ k > offset /\ s[k] = i
  BY <1>1, <1>2, <1>8, PlaceIsOne, ScopedAtPlace
<1>10. PICK rows : rows = SubSeq(s, offset + 1, m)
  OBVIOUS
<1>11. /\ walk'.shown = w.shown \cup ToSet(rows)
       /\ walk'.hasMore = HasMore(offset, n)
       /\ walk'.offset = offset + Limit
  BY <1>1, <1>5, <1>6, <1>10 DEF ListCustomers, IsWalk
<1>12. CASE k <= m
  <2>0. m \in Nat /\ m <= n /\ offset + 1 \in 1 .. n
    BY <1>3, <1>7, <1>9, <1>12
  <2>1. rows = [j \in 1 .. m - offset |-> s[j + offset]]
    BY <1>3, <1>5, <1>10, <2>0
  <2>3. k - offset \in 1 .. m - offset
    BY <1>3, <1>9, <1>12, <2>0
  <2>4. k - offset \in DOMAIN rows /\ rows[k - offset] = s[k]
    BY <1>9, <2>0, <2>1, <2>3
  <2>2. i \in ToSet(rows)
    BY <1>9, <2>4 DEF ToSet
  <2> QED
    BY <1>11, <2>2
<1>13. CASE k > m
  <2>1. m = offset + Limit /\ k > offset + Limit /\ offset + Limit < n
    BY <1>3, <1>7, <1>9, <1>13
  <2> QED
    BY <1>8, <1>11, <2>1 DEF HasMore
<1> QED
  BY <1>3, <1>7, <1>9, <1>12, <1>13

LEMMA PageKeepsShape ==
    ASSUME NEW w, IsWalk(w), NEW offset \in Nat, ListCustomers(w, offset)
    PROVE  /\ IsWalk(walk') /\ w.shown \subseteq walk'.shown
           /\ walk'.search = w.search /\ walk'.expected = w.expected
           /\ walk'.disturbed = w.disturbed
<1>0. PICK s : s = Scoped(w.search)
  OBVIOUS
<1>1. PICK shown, more :
         /\ more \in BOOLEAN
         /\ walk' = [w EXCEPT !.shown = @ \cup shown, !.hasMore = more,
                            !.offset = offset + Limit]
  <2>1. PICK shown : shown = ToSet(SubSeq(s, offset + 1, Min({offset + Limit, Len(s)})))
    OBVIOUS
  <2>2. PICK more : more = HasMore(offset, Len(s))
    OBVIOUS
  <2>3. more \in BOOLEAN
    BY <2>2 DEF HasMore
  <2> QED
    BY <1>0, <2>1, <2>2, <2>3, Zenon DEF ListCustomers
<1>2. offset + Limit \in Nat
  BY CustomersAssumption
<1> QED
  BY <1>1, <1>2 DEF IsWalk

\* A page leaves nobody behind.
LEMMA PageKeeps ==
    ASSUME CustomersInv, NEW w, IsWalk(w), NEW offset \in Nat, ListCustomers(w, offset),
           w.expected \subseteq Matches(w.search) \/ w.disturbed,
           \A i \in w.expected \ w.shown : w.disturbed \/ Place(i, w.search) > offset
    PROVE  CustomersInv'
<1>1. /\ IsWalk(walk') /\ w.shown \subseteq walk'.shown
      /\ walk'.search = w.search /\ walk'.expected = w.expected
      /\ walk'.disturbed = w.disturbed
  BY PageKeepsShape
<1>2. customers' = customers /\ millis' = millis
  BY DEF ListCustomers
<1>3. \A i, search : Place(i, search)' = Place(i, search)
  BY <1>2 DEF Place, Matches, Positions, Alive, ListedBefore
<1>4. \A search : Matches(search)' = Matches(search)
  BY <1>2 DEF Matches, Positions, Alive
<1>5. ASSUME ~w.disturbed, NEW i \in w.expected \ walk'.shown
      PROVE  walk'.hasMore /\ Place(i, w.search) > walk'.offset
  BY <1>1, <1>5, PageShows DEF CustomersInv
<1>6. WalkIsSound'
  BY <1>1, <1>3, <1>4, <1>5 DEF WalkIsSound, StillToCome
<1> QED
  BY <1>1, <1>2, <1>6 DEF CustomersInv

\* What a change of the records may do to an undisturbed walk.
PlacesGrow(search) ==
    /\ Matches(search) \subseteq Matches(search)'
    /\ \A i \in Matches(search) :
         Place(i, search)' \in Nat /\ Place(i, search)' >= Place(i, search)

LEMMA MoreIsListed ==
    ASSUME customers \in Seq(CustomerRecord), customers' \in Seq(CustomerRecord), NEW search,
           Matches(search) \subseteq Matches(search)',
           \A i, j \in Matches(search) : ListedBefore(i, j) => ListedBefore(i, j)'
    PROVE  PlacesGrow(search)
<1> SUFFICES ASSUME NEW i \in Matches(search) 
  PROVE Place(i, search)' \in Nat /\ Place(i, search)' >= Place(i, search)
  BY DEF PlacesGrow
<1>1. PICK A : A = {k \in Matches(search) : ListedBefore(k, i)}
  OBVIOUS
<1>2. PICK M : M = Matches(search)'
  OBVIOUS
<1>3. PICK B : B = {k \in M : ListedBefore(k, i)'}
  OBVIOUS
<1>4. M \subseteq 1 .. Len(customers')
  BY <1>2 DEF Matches, Positions
<1>5. IsFiniteSet(1 .. Len(customers'))
  <2>1. Len(customers') \in Nat
    OBVIOUS
  <2> QED
    BY <2>1, FS_Interval
<1>6. B \subseteq 1 .. Len(customers') /\ A \subseteq B
  BY <1>1, <1>2, <1>3, <1>4
<1>7. IsFiniteSet(B)
  BY <1>5, <1>6, FS_Subset
<1>8. IsFiniteSet(A) /\ Cardinality(A) <= Cardinality(B)
  BY <1>6, <1>7, FS_Subset
<1>9. Cardinality(A) \in Nat /\ Cardinality(B) \in Nat
  BY <1>7, <1>8, FS_CardinalityType
<1>10. Place(i, search) = 1 + Cardinality(A)
  BY <1>1 DEF Place
<1>11. Place(i, search)' = 1 + Cardinality(B)
  BY <1>2, <1>3 DEF Place
<1> QED
  BY <1>8, <1>9, <1>10, <1>11

LEMMA RecordsKeep ==
    ASSUME CustomersInv, customers' \in Seq(CustomerRecord), millis' = millis,
           walk' = walk, walk.disturbed \/ PlacesGrow(walk.search)
    PROVE  CustomersInv'
<1>1. CASE walk.disturbed
  BY <1>1 DEF CustomersInv, WalkIsSound, IsWalk
<1>2. CASE ~walk.disturbed /\ PlacesGrow(walk.search)
  <2>1. \A i \in Matches(walk.search) :
           /\ Place(i, walk.search) \in Nat
           /\ Place(i, walk.search)' \in Nat /\ Place(i, walk.search)' >= Place(i, walk.search)
           /\ i \in Matches(walk.search)'
    BY <1>2, PlaceIsOne DEF PlacesGrow, CustomersInv
  <2>2. WalkIsSound
    BY DEF CustomersInv
  <2>3. PICK w : w = walk
    OBVIOUS
  <2>4. w.offset \in Nat /\ IsWalk(w)
    BY <2>3 DEF CustomersInv, IsWalk
  <2>5. /\ w.expected \subseteq Matches(w.search)
        /\ \A i \in w.expected \ w.shown : w.hasMore /\ Place(i, w.search) > w.offset
    BY <1>2, <2>2, <2>3 DEF WalkIsSound, StillToCome
  <2>6. /\ w.expected \subseteq Matches(w.search)'
        /\ \A i \in w.expected \ w.shown : w.hasMore /\ Place(i, w.search)' > w.offset
    BY <2>1, <2>3, <2>4, <2>5
  <2>7. walk' = w
    BY <2>3
  <2>8. WalkIsSound'
    BY <2>6, <2>7 DEF WalkIsSound, StillToCome
  <2> QED
    BY <2>4, <2>7, <2>8 DEF CustomersInv
<1> QED
  BY <1>1, <1>2

\* A record that is replaced by one of the same time.
LEMMA RecordReplaced ==
    ASSUME CustomersInv, NEW i \in 1 .. Len(customers), NEW r,
           r \in CustomerRecord, customers' = [customers EXCEPT ![i] = r]
    PROVE  /\ customers' \in Seq(CustomerRecord) /\ Len(customers') = Len(customers)
           /\ \A j \in 1 .. Len(customers) : customers'[j] = IF j = i THEN r ELSE customers[j]
  BY DEF CustomersInv

LEMMA DisturbKeeps ==
    ASSUME CustomersInv, customers' \in Seq(CustomerRecord), millis' = millis,
           walk' = [walk EXCEPT !.disturbed = TRUE]
    PROVE  CustomersInv'
BY DEF CustomersInv, WalkIsSound, IsWalk

LEMMA CreateCustomerKeeps ==
    ASSUME CustomersInv, NEW name \in Name, CreateCustomer(name) PROVE CustomersInv'
<1>1. PICK r \in CustomerRecord : customers' = Append(customers, r)
  BY DEF CreateCustomer, CustomersInv, CustomerRecord
<1>2. /\ customers' \in Seq(CustomerRecord) /\ Len(customers') = Len(customers) + 1
      /\ \A i \in 1 .. Len(customers) : customers'[i] = customers[i]
  BY <1>1 DEF CustomersInv
<1>3. Matches(walk.search) \subseteq 1 .. Len(customers) /\ Len(customers) \in Nat
  BY MatchesAreFinite DEF CustomersInv
<1>4. \A i \in Matches(walk.search) : i \in {j \in 1 .. Len(customers') :
          ~customers'[j].deleted /\ walk.search \in {NoName, customers'[j].name}}
  BY <1>2, <1>3 DEF Matches, Positions, Alive
<1>5. walk' = walk /\ millis' = millis
  BY DEF CreateCustomer
<1>6. PICK search : search = walk.search
  OBVIOUS
<1>7. Matches(search) \subseteq Matches(search)'
  BY <1>4, <1>6 DEF Matches, Positions, Alive
<1>8. \A i, j \in Matches(search) : ListedBefore(i, j) => ListedBefore(i, j)'
  BY <1>2, <1>3, <1>6 DEF ListedBefore
<1>9. PlacesGrow(search)
  BY <1>2, <1>7, <1>8, MoreIsListed DEF CustomersInv
<1> QED
  BY <1>2, <1>5, <1>6, <1>9, RecordsKeep

LEMMA UpdateCustomerKeeps ==
    ASSUME CustomersInv, NEW i \in 1 .. Len(customers), NEW name \in Name \cup {NoName},
           UpdateCustomer(i, name)
    PROVE  CustomersInv'
<1>1. /\ customers' \in Seq(CustomerRecord) /\ Len(customers') = Len(customers)
      /\ \A j \in 1 .. Len(customers) : /\ customers'[j].created = customers[j].created
                                       /\ customers'[j].deleted = customers[j].deleted
  <2>1. PICK r : r = [customers[i] EXCEPT !.name = name]
    OBVIOUS
  <2>2. customers[i] \in CustomerRecord
    BY DEF CustomersInv
  <2>3. /\ r \in CustomerRecord /\ r.created = customers[i].created
        /\ r.deleted = customers[i].deleted
    BY <2>1, <2>2 DEF CustomerRecord
  <2>4. customers' = [customers EXCEPT ![i] = r]
    BY <2>1 DEF UpdateCustomer
  <2>5. /\ customers' \in Seq(CustomerRecord) /\ Len(customers') = Len(customers)
        /\ \A j \in 1 .. Len(customers) : customers'[j] = IF j = i THEN r ELSE customers[j]
    BY <2>3, <2>4, RecordReplaced
  <2> QED
    BY <2>3, <2>5
<1>2. CASE walk.search = NoName
  <2>1. Matches(NoName) = Positions
    BY DEF Matches
  <2>2. Matches(NoName)' = Positions'
    BY DEF Matches
  <2>3. Positions \subseteq 1 .. Len(customers) /\ Positions' = Positions
    BY <1>1 DEF Positions, Alive
  <2>4. \A k, j \in Matches(NoName) : ListedBefore(k, j) => ListedBefore(k, j)'
    BY <1>1, <2>1, <2>3 DEF ListedBefore
  <2>5. PlacesGrow(NoName)
    BY <1>1, <2>1, <2>2, <2>3, <2>4, MoreIsListed DEF CustomersInv
  <2> QED
    BY <1>1, <1>2, <2>5, RecordsKeep DEF UpdateCustomer
<1>3. CASE walk.search # NoName
  BY <1>1, <1>3, DisturbKeeps DEF UpdateCustomer
<1> QED
  BY <1>2, <1>3

LEMMA CustomersKeep == ASSUME CustomersInv, CustomersNext PROVE CustomersInv'
<1>1. ASSUME NEW i \in 1 .. Len(customers), DeleteCustomer(i) PROVE CustomersInv'
  <2>1. customers' \in Seq(CustomerRecord)
    <3>1. PICK r : r = [customers[i] EXCEPT !.deleted = TRUE]
      OBVIOUS
    <3>2. customers[i] \in CustomerRecord
      BY DEF CustomersInv
    <3>3. r \in CustomerRecord
      BY <3>1, <3>2 DEF CustomerRecord
    <3>4. customers' = [customers EXCEPT ![i] = r]
      BY <1>1, <3>1 DEF DeleteCustomer
    <3> QED
      BY <3>3, <3>4, RecordReplaced
  <2> QED
    BY <1>1, <2>1, DisturbKeeps DEF DeleteCustomer
<1>2. ASSUME NextMillisecond PROVE CustomersInv'
  BY <1>2 DEF NextMillisecond, CustomersInv, WalkIsSound, StillToCome, Place, Matches, Positions,
              Alive, ListedBefore
<1>3. ASSUME NEW search \in Name \cup {NoName}, StartWalk(search) PROVE CustomersInv'
  <2>1. PICK w : w = [NoWalk EXCEPT !.search = search, !.expected = Matches(search)]
    OBVIOUS
  <2>2. IsWalk(w) /\ w.expected = Matches(w.search)
    BY <2>1 DEF NoWalk, IsWalk
  <2>3. ListCustomers(w, 0)
    BY <1>3, <2>1 DEF StartWalk
  <2>4. \A i \in w.expected : Place(i, w.search) > 0
    BY <2>2, PlaceIsOne, MatchesAreFinite DEF CustomersInv
  <2> QED
    BY <2>2, <2>3, <2>4, PageKeeps
<1>4. ASSUME NextPage PROVE CustomersInv'
  <2>1. PICK w : w = walk
    OBVIOUS
  <2>2. IsWalk(w) /\ w.offset \in Nat
    BY <2>1 DEF CustomersInv, IsWalk
  <2>3. ListCustomers(w, w.offset)
    BY <1>4, <2>1 DEF NextPage
  <2>4. /\ w.expected \subseteq Matches(w.search) \/ w.disturbed
        /\ \A i \in w.expected \ w.shown : w.disturbed \/ Place(i, w.search) > w.offset
    BY <2>1 DEF CustomersInv, WalkIsSound, StillToCome
  <2> QED
    BY <2>2, <2>3, <2>4, PageKeeps
<1> QED
  BY <1>1, <1>2, <1>3, <1>4, CreateCustomerKeeps, UpdateCustomerKeeps DEF CustomersNext

(***************************************************************************)
(* Subscriptions.  The dates billed and the date that is next are one      *)
(* sequence, each a period after the one before; a run of the job goes on  *)
(* from its end, as far as the day and the end of the term let it.  The    *)
(* months and the dates of a run are functions defined by recursion, so    *)
(* the first lemmas show that there are such functions.                    *)
(***************************************************************************)
Months == 1 .. Len(MonthLength)
MonthsBegin(f, n) ==
    f = [m \in 1 .. n |-> IF m = 1 THEN 0 ELSE f[m - 1] + MonthLength[m - 1]]

LEMMA MonthsBeginSomewhere ==
    /\ Len(MonthLength) \in Nat /\ firstOf \in [1 .. Len(MonthLength) + 1 -> Nat]
    /\ MonthsBegin(firstOf, Len(MonthLength) + 1)
<1>1. PICK len : len = Len(MonthLength)
  OBVIOUS
<1>2. len \in Nat /\ \A m \in 1 .. len : MonthLength[m] \in Nat
  BY <1>1, SubscriptionsAssumption
<1> DEFINE T == {n \in Nat : n <= len => \E f \in [1 .. n + 1 -> Nat] : MonthsBegin(f, n + 1)}
<1>3. 0 \in T
  <2>1. PICK f : f = [m \in 1 .. 0 + 1 |-> 0]
    OBVIOUS
  <2>2. f \in [1 .. 0 + 1 -> Nat] /\ f = [m \in 1 .. 0 + 1 |-> IF m = 1 THEN 0 ELSE f[m - 1] + MonthLength[m - 1]]
    BY <2>1
  <2> QED
    BY <2>2 DEF MonthsBegin
<1>4. ASSUME NEW n \in Nat, n \in T PROVE n + 1 \in T
  <2> SUFFICES ASSUME n + 1 <= len
               PROVE  \E f \in [1 .. n + 1 + 1 -> Nat] : MonthsBegin(f, n + 1 + 1)
    OBVIOUS
  <2>1. PICK f \in [1 .. n + 1 -> Nat] : MonthsBegin(f, n + 1)
    BY <1>2, <1>4
  <2>2. PICK g : g = [m \in 1 .. n + 2 |-> IF m = n + 2 THEN f[n + 1] + MonthLength[n + 1] ELSE f[m]]
    OBVIOUS
  <2>3. f[n + 1] \in Nat /\ MonthLength[n + 1] \in Nat
    BY <1>2
  <2>4. g \in [1 .. n + 2 -> Nat]
    BY <2>2, <2>3
  <2>5. \A m \in 1 .. n + 1 : f[m] = IF m = 1 THEN 0 ELSE f[m - 1] + MonthLength[m - 1]
    BY <2>1 DEF MonthsBegin
  <2>6. \A m \in 1 .. n + 2 : g[m] = IF m = 1 THEN 0 ELSE g[m - 1] + MonthLength[m - 1]
    BY <2>2, <2>5
  <2>7. g = [m \in 1 .. n + 2 |-> IF m = 1 THEN 0 ELSE g[m - 1] + MonthLength[m - 1]]
    BY <2>4, <2>6
  <2>8. n + 1 + 1 = n + 2
    OBVIOUS
  <2> QED
    BY <2>4, <2>7, <2>8 DEF MonthsBegin
<1> HIDE DEF T
<1>5. len \in T
  BY <1>2, <1>3, <1>4, SetInduction
<1>6. PICK f \in [1 .. len + 1 -> Nat] : MonthsBegin(f, len + 1)
  BY <1>2, <1>5 DEF T
<1>7. firstOf = CHOOSE g : MonthsBegin(g, len + 1)
  BY <1>1, Zenon DEF firstOf, MonthsBegin
<1>8. MonthsBegin(firstOf, len + 1)
  BY <1>6, <1>7, Zenon
<1>9. PICK g : g = firstOf
  OBVIOUS
<1>10. /\ g = [m \in 1 .. len + 1 |-> g[m]]
       /\ \A m \in 1 .. len + 1 : g[m] = IF m = 1 THEN 0 ELSE g[m - 1] + MonthLength[m - 1]
  BY <1>8, <1>9 DEF MonthsBegin
<1> DEFINE U == {n \in Nat : n <= len => g[n + 1] \in Nat}
<1>11. 0 \in U
  <2>1. 1 \in 1 .. len + 1 /\ 0 + 1 = 1
    BY <1>2
  <2>2. g[1] = 0
    BY <1>10, <2>1
  <2> QED
    BY <2>1, <2>2
<1>12. ASSUME NEW n \in Nat, n \in U PROVE n + 1 \in U
  <2> SUFFICES ASSUME n + 1 <= len PROVE g[n + 1 + 1] \in Nat
    OBVIOUS
  <2>1. g[n + 1] \in Nat /\ MonthLength[n + 1] \in Nat
    BY <1>2, <1>12
  <2>2. g[n + 1 + 1] = g[n + 1] + MonthLength[n + 1]
    <3>1. n + 1 + 1 \in 1 .. len + 1 /\ n + 1 + 1 # 1 /\ (n + 1 + 1) - 1 = n + 1
      BY <1>2
    <3> QED
      BY <1>10, <3>1
  <2> QED
    BY <2>1, <2>2
<1> HIDE DEF U
<1>13. \A n \in Nat : n \in U
  BY <1>11, <1>12, SetInduction
<1>14. ASSUME NEW m \in 1 .. len + 1 PROVE g[m] \in Nat
  <2>1. m - 1 \in Nat /\ m - 1 <= len /\ (m - 1) + 1 = m
    BY <1>2
  <2> QED
    BY <1>13, <2>1 DEF U
<1> QED
  BY <1>1, <1>2, <1>8, <1>9, <1>10, <1>14

LEMMA MonthsFollow ==
    /\ firstOf[1] = 0
    /\ \A m \in Months : /\ firstOf[m] \in Nat /\ MonthLength[m] \in Nat \ {0}
                         /\ firstOf[m + 1] = firstOf[m] + MonthLength[m]
<1>1. PICK g : g = firstOf
  OBVIOUS
<1>2. PICK len \in Nat : len = Len(MonthLength)
  BY MonthsBeginSomewhere
<1>3. \A m \in 1 .. len : MonthLength[m] \in Nat \ {0}
  BY <1>2, SubscriptionsAssumption
<1>4. /\ g \in [1 .. len + 1 -> Nat]
      /\ \A m \in 1 .. len + 1 : g[m] = IF m = 1 THEN 0 ELSE g[m - 1] + MonthLength[m - 1]
  BY <1>1, <1>2, MonthsBeginSomewhere DEF MonthsBegin
<1>5. ASSUME NEW m \in 1 .. len PROVE g[m] \in Nat /\ g[m + 1] = g[m] + MonthLength[m]
  <2>1. m + 1 \in 1 .. len + 1 /\ m + 1 # 1 /\ (m + 1) - 1 = m
    BY <1>2
  <2> QED
    BY <1>4, <2>1
<1>6. g[1] = 0
  BY <1>4
<1> QED
  BY <1>1, <1>2, <1>3, <1>5, <1>6 DEF Months

\* A month after another begins when that one is over, or later.
LEMMA MonthsAscend ==
    ASSUME NEW a \in Months, NEW b \in a + 1 .. Len(MonthLength) + 1
    PROVE  firstOf[a] + MonthLength[a] <= firstOf[b] /\ firstOf[b] \in Nat
<1>1. PICK len \in Nat : len = Len(MonthLength)
  BY MonthsBeginSomewhere
<1>2. PICK f : f = firstOf
  OBVIOUS
<1>3. \A m \in 1 .. len : f[m] \in Nat /\ MonthLength[m] \in Nat /\ f[m + 1] = f[m] + MonthLength[m]
  BY <1>1, <1>2, MonthsFollow DEF Months
<1> DEFINE T == {n \in Nat : a + 1 + n <= len + 1 => /\ f[a] + MonthLength[a] <= f[a + 1 + n]
                                                    /\ f[a + 1 + n] \in Nat}
<1>4. a \in 1 .. len /\ a \in Nat
  BY <1>1 DEF Months
<1>5. 0 \in T
  BY <1>3, <1>4
<1>6. ASSUME NEW n \in Nat, n \in T PROVE n + 1 \in T
  <2> SUFFICES ASSUME a + 1 + (n + 1) <= len + 1
               PROVE  /\ f[a] + MonthLength[a] <= f[a + 1 + (n + 1)]
                      /\ f[a + 1 + (n + 1)] \in Nat
    OBVIOUS
  <2>1. PICK m : m = a + 1 + n
    OBVIOUS
  <2>2. m \in 1 .. len /\ a + 1 + (n + 1) = m + 1
    BY <1>4, <2>1
  <2>3. f[m] \in Nat /\ f[a] + MonthLength[a] <= f[m]
    BY <1>4, <1>6, <2>1, <2>2
  <2>4. /\ f[m + 1] = f[m] + MonthLength[m] /\ MonthLength[m] \in Nat
        /\ f[a] \in Nat /\ MonthLength[a] \in Nat
    BY <1>3, <1>4, <2>2
  <2>5. f[a + 1 + (n + 1)] = f[m + 1]
    BY <2>2
  <2>6. PICK x, y : x = f[m] /\ y = MonthLength[m]
    OBVIOUS
  <2>7. f[m + 1] = x + y /\ x \in Nat /\ y \in Nat /\ f[a] + MonthLength[a] <= x
    BY <2>3, <2>4, <2>6
  <2>8. f[a] + MonthLength[a] <= x + y
    BY <2>4, <2>7
  <2> QED
    BY <2>5, <2>7, <2>8
<1> HIDE DEF T
<1>7. \A n \in Nat : n \in T
  BY <1>5, <1>6, SetInduction
<1>8. b - (a + 1) \in Nat /\ a + 1 + (b - (a + 1)) = b /\ b <= len + 1
  BY <1>1, <1>4
<1> QED
  BY <1>2, <1>7, <1>8 DEF T

\* The month of a date is the one it is in.
LEMMA MonthOfDate ==
    ASSUME NEW date \in Nat
    PROVE  /\ MonthNumber(date) \in Months
           /\ firstOf[MonthNumber(date)] <= date
           /\ \A k \in Months : firstOf[k] <= date => k <= MonthNumber(date)
<1>1. PICK len \in Nat : len = Len(MonthLength)
  BY MonthsBeginSomewhere
<1>2. PICK begun : begun = {m \in Months : firstOf[m] <= date}
  OBVIOUS
<1>3. begun \in SUBSET Nat /\ begun \subseteq 1 .. len /\ begun # {}
  <2>1. Months = 1 .. len /\ 1 \in Months
    BY <1>1, SubscriptionsAssumption DEF Months
  <2>2. firstOf[1] <= date
    BY MonthsFollow
  <2> QED
    BY <1>2, <2>1, <2>2
<1>4. IsFiniteSet(begun)
  <2>1. IsFiniteSet(1 .. len)
    BY FS_Interval
  <2> QED
    BY <1>3, <2>1, FS_Subset
<1>5. \E m \in begun : \A k \in begun : k <= m
  BY <1>3, <1>4, GreatestElement
<1>6. DOMAIN MonthLength = Months
  BY SubscriptionsAssumption DEF Months
<1>7. MonthNumber(date) = CHOOSE m \in begun : \A k \in begun : k <= m
  BY <1>2, <1>6 DEF MonthNumber
<1>8. MonthNumber(date) \in begun /\ \A k \in begun : k <= MonthNumber(date)
  BY <1>5, <1>7
<1> QED
  BY <1>2, <1>8

LEMMA MonthIs ==
    ASSUME NEW date \in Nat, NEW m \in Months, firstOf[m] <= date, date < firstOf[m + 1]
    PROVE  MonthNumber(date) = m
<1>1. PICK n : n = MonthNumber(date)
  OBVIOUS
<1>2. n \in Months /\ firstOf[n] <= date /\ m <= n
  BY <1>1, MonthOfDate
<1>3. CASE n = m
  BY <1>1, <1>3
<1>4. CASE n # m
  <2>1. PICK len \in Nat : len = Len(MonthLength)
    BY MonthsBeginSomewhere
  <2>2. m \in 1 .. len /\ n \in 1 .. len /\ n \in m + 1 .. len + 1
    BY <1>2, <1>4, <2>1 DEF Months
  <2>3. firstOf[m] + MonthLength[m] <= firstOf[n]
    BY <2>1, <2>2, MonthsAscend
  <2>4. /\ firstOf[m + 1] = firstOf[m] + MonthLength[m]
        /\ firstOf[m] \in Nat /\ MonthLength[m] \in Nat /\ firstOf[n] \in Nat
    BY <1>2, MonthsFollow
  <2> QED
    BY <1>2, <2>3, <2>4
<1> QED
  BY <1>3, <1>4

\* From a date the clock may reach, the next one is a period ahead: on the
\* same day of that month or, if it is too short, in the one after it.
LEMMA AdvanceIsAhead ==
    ASSUME NEW date \in 0 .. LastDay, NEW frequency \in Frequency
    PROVE  /\ AdvanceDate(date, frequency) \in Nat /\ date < AdvanceDate(date, frequency)
           /\ MonthsApart(MonthsOf(frequency), date, AdvanceDate(date, frequency))
<1>1. PICK len \in Nat : len = Len(MonthLength)
  BY MonthsBeginSomewhere
<1>2. PICK m : m = MonthNumber(date)
  OBVIOUS
<1>3. PICK d : d = MonthsOf(frequency)
  OBVIOUS
<1>4. len > 4 /\ LastDay \in Nat /\ LastDay < firstOf[len - 3] /\ d \in {1, 3}
  BY <1>1, <1>3, SubscriptionsAssumption DEF MonthsOf
<1>5. m \in 1 .. len /\ m \in Months /\ firstOf[m] <= date /\ date \in Nat
      /\ \A k \in Months : firstOf[k] <= date => k <= m
  <2>1. date \in Nat
    BY <1>4
  <2>2. m \in Months /\ firstOf[m] <= date /\ \A k \in Months : firstOf[k] <= date => k <= m
    BY <1>2, <2>1, MonthOfDate
  <2> QED
    BY <1>1, <2>1, <2>2 DEF Months
<1>6. m <= len - 4
  <2> SUFFICES ASSUME m >= len - 3 PROVE FALSE
    BY <1>5
  <2>1. len - 3 \in Months /\ firstOf[len - 3] \in Nat /\ firstOf[m] \in Nat
    BY <1>1, <1>4, <1>5, MonthsFollow DEF Months
  <2>2. CASE m = len - 3
    BY <1>4, <1>5, <2>1, <2>2
  <2>3. CASE m > len - 3
    <3>1. m \in (len - 3) + 1 .. len + 1 /\ MonthLength[len - 3] \in Nat
      BY <1>5, <2>1, <2>3, MonthsFollow
    <3>2. firstOf[len - 3] + MonthLength[len - 3] <= firstOf[m]
      BY <1>1, <2>1, <3>1, MonthsAscend
    <3> QED
      BY <1>4, <1>5, <2>1, <3>1, <3>2
  <2> QED
    BY <1>4, <1>5, <2>2, <2>3
<1>7. PICK n : n = m + d
  OBVIOUS
<1>8. /\ n \in Months /\ n \in m + 1 .. len + 1 /\ n \in m + 1 .. Len(MonthLength) + 1
      /\ n + 1 \in Months /\ m + 1 \in Months /\ n \in Nat /\ m \in Nat
  BY <1>1, <1>4, <1>5, <1>6, <1>7 DEF Months
<1>9. /\ firstOf[m] + MonthLength[m] <= firstOf[n]
      /\ firstOf[m] \in Nat /\ MonthLength[m] \in Nat \ {0} /\ firstOf[n] \in Nat
      /\ firstOf[n + 1] = firstOf[n] + MonthLength[n] /\ MonthLength[n] \in Nat
      /\ firstOf[n + 1 + 1] = firstOf[n + 1] + MonthLength[n + 1] /\ MonthLength[n + 1] \in Nat
      /\ firstOf[n + 1] \in Nat /\ firstOf[m + 1] = firstOf[m] + MonthLength[m]
  BY <1>5, <1>8, MonthsAscend, MonthsFollow
<1>10. MonthLength[m] < 2 * MonthLength[n] /\ MonthLength[m] < 2 * MonthLength[n + 1]
  <2>1. DOMAIN MonthLength = Months
    BY SubscriptionsAssumption DEF Months
  <2> QED
    BY <1>5, <1>8, <2>1, SubscriptionsAssumption
<1>11. PICK day : day = date - firstOf[m]
  OBVIOUS
<1>12. day \in Nat /\ day < MonthLength[m]
  <2>1. ~(firstOf[m + 1] <= date)
    BY <1>5, <1>8
  <2> QED
    BY <1>5, <1>9, <1>11, <2>1
<1>13. DayInMonth(date) = day /\ AdvanceDate(date, frequency) = firstOf[n] + day
  BY <1>2, <1>3, <1>7, <1>11 DEF DayInMonth, AdvanceDate, MonthsOf
<1>14. PICK then : then = firstOf[n] + day
  OBVIOUS
<1>15. then \in Nat /\ date < then /\ firstOf[n] <= then
  BY <1>5, <1>9, <1>11, <1>12, <1>14
<1>16. CASE day < MonthLength[n]
  <2>1. then < firstOf[n + 1]
    BY <1>9, <1>12, <1>14, <1>16
  <2>2. MonthNumber(then) = n
    BY <1>8, <1>15, <2>1, MonthIs
  <2>3. DayInMonth(then) = day
    BY <1>9, <1>12, <1>14, <2>2 DEF DayInMonth
  <2>4. MonthsApart(d, date, then)
    BY <1>2, <1>7, <1>13, <1>16, <2>2, <2>3 DEF MonthsApart
  <2> QED
    BY <1>3, <1>13, <1>14, <1>15, <2>4
<1>17. CASE ~(day < MonthLength[n])
  <2>1. firstOf[n + 1] <= then /\ then < firstOf[n + 1 + 1]
    BY <1>9, <1>10, <1>12, <1>14, <1>17
  <2>2. MonthNumber(then) = n + 1
    BY <1>8, <1>15, <2>1, MonthIs
  <2>3. DayInMonth(then) = day - MonthLength[n]
    BY <1>9, <1>12, <1>14, <2>2 DEF DayInMonth
  <2>4. MonthsApart(d, date, then)
    BY <1>2, <1>7, <1>13, <1>17, <2>2, <2>3 DEF MonthsApart
  <2> QED
    BY <1>3, <1>13, <1>14, <1>15, <2>4
<1> QED
  BY <1>16, <1>17

\* The loop of the job goes on with a date.
Goes(d, end) == ~(d > today \/ (end # NoDate /\ d > end))

\* A run of dates: they begin with d, each but the first is the advance of
\* the one before, the loop goes on with each of them and not with the next.
IsRun(q, d, end, frequency) ==
    /\ q \in Seq(Nat)
    /\ q # <<>> => q[1] = d
    /\ \A k \in 1 .. Len(q) :
         /\ q[k] \in 0 .. LastDay /\ Goes(q[k], end)
         /\ k < Len(q) => q[k + 1] = AdvanceDate(q[k], frequency)
    /\ q # <<>> => ~Goes(AdvanceDate(q[Len(q)], frequency), end)

LEMMA NoRun == ASSUME NEW d, NEW end, NEW frequency PROVE IsRun(<<>>, d, end, frequency)
BY DEF IsRun

LEMMA RunStarts ==
    ASSUME NEW d \in 0 .. LastDay, NEW end, NEW frequency \in Frequency, Goes(d, end),
           NEW q, IsRun(q, AdvanceDate(d, frequency), end, frequency),
           q = <<>> => ~Goes(AdvanceDate(d, frequency), end)
    PROVE  <<d>> \o q # <<>> /\ IsRun(<<d>> \o q, d, end, frequency)
<1>1. PICK then : then = AdvanceDate(d, frequency)
  OBVIOUS
<1>2. PICK r : r = <<d>> \o q
  OBVIOUS
<1>3. d \in Nat /\ q \in Seq(Nat) /\ Len(q) \in Nat
  BY SubscriptionsAssumption DEF IsRun
<1>4. /\ r \in Seq(Nat) /\ Len(r) = Len(q) + 1 /\ r[1] = d
      /\ \A k \in 2 .. Len(r) : r[k] = q[k - 1]
  BY <1>2, <1>3
<1>5. ~Goes(AdvanceDate(r[Len(r)], frequency), end)
  <2>1. CASE q = <<>>
    <3>1. Len(r) = 1 /\ r[Len(r)] = d
      BY <1>4, <2>1
    <3> QED
      BY <2>1, <3>1
  <2>2. CASE q # <<>>
    <3>1. Len(r) \in 2 .. Len(r) /\ Len(r) - 1 = Len(q)
      BY <1>3, <1>4, <2>2
    <3>2. r[Len(r)] = q[Len(q)]
      BY <1>4, <3>1
    <3> QED
      BY <2>2, <3>2 DEF IsRun
  <2> QED
    BY <2>1, <2>2
<1>6. \A k \in 1 .. Len(q) :
         /\ q[k] \in 0 .. LastDay /\ Goes(q[k], end)
         /\ k < Len(q) => q[k + 1] = AdvanceDate(q[k], frequency)
  BY <1>1 DEF IsRun
<1>7. q # <<>> => q[1] = then
  BY <1>1 DEF IsRun
<1>8. ASSUME NEW k \in 1 .. Len(r)
      PROVE  /\ r[k] \in 0 .. LastDay /\ Goes(r[k], end)
             /\ k < Len(r) => r[k + 1] = AdvanceDate(r[k], frequency)
  <2>1. CASE k = 1
    <3>1. r[k] = d
      BY <1>4, <2>1
    <3>2. k < Len(r) => r[k + 1] = AdvanceDate(r[k], frequency)
      <4> SUFFICES ASSUME 1 < Len(r) PROVE r[2] = then
        BY <1>1, <2>1, <3>1
      <4>1. q # <<>> /\ r[2] = q[2 - 1] /\ 2 - 1 = 1
        BY <1>3, <1>4
      <4> QED
        BY <1>7, <4>1
    <3> QED
      BY <3>1, <3>2
  <2>2. CASE k # 1
    <3>1. PICK j : j = k - 1
      OBVIOUS
    <3>2. j \in 1 .. Len(q) /\ k \in 2 .. Len(r) /\ k = j + 1
      BY <1>3, <1>4, <2>2, <3>1
    <3>3. r[k] = q[j]
      BY <1>4, <3>1, <3>2
    <3>4. k < Len(r) => r[k + 1] = AdvanceDate(r[k], frequency)
      <4> SUFFICES ASSUME k < Len(r) PROVE r[k + 1] = AdvanceDate(r[k], frequency)
        OBVIOUS
      <4>0. k \in Nat /\ Len(q) \in Nat /\ Len(r) = Len(q) + 1
        BY <1>3, <1>4, <3>2
      <4>1. k + 1 \in 2 .. Len(r) /\ (k + 1) - 1 = j + 1 /\ j < Len(q)
        <5>1. k = j + 1 /\ j \in Nat /\ 2 <= k
          BY <3>2
        <5> QED
          BY <4>0, <5>1
      <4>2. r[k + 1] = q[j + 1]
        <5>1. PICK m \in 2 .. Len(r) : m = k + 1
          BY <4>1
        <5>2. r[m] = q[m - 1]
          BY <1>4
        <5>3. m - 1 = j + 1
          BY <4>1, <5>1
        <5> QED
          BY <5>1, <5>2, <5>3
      <4> QED
        BY <1>6, <3>2, <3>3, <4>1, <4>2
    <3> QED
      BY <1>6, <3>2, <3>3, <3>4
  <2> QED
    BY <2>1, <2>2
<1>9. r # <<>>
  BY <1>3, <1>4
<1> QED
  BY <1>2, <1>4, <1>5, <1>8, <1>9 DEF IsRun

\* The function the loop of the job is, by the dates it starts from.
LoopStep(f, d, end, frequency) ==
    IF d > today \/ (end # NoDate /\ d > end) THEN <<>>
    ELSE LET then == AdvanceDate(d, frequency)
         IN  <<d>> \o (IF then > LastDay THEN <<>> ELSE f[then])

LEMMA LoopExists ==
    ASSUME NEW end, NEW frequency \in Frequency
    PROVE  \E f : f = [d \in 0 .. LastDay |-> LoopStep(f, d, end, frequency)]
<1>1. LastDay \in Nat
  BY SubscriptionsAssumption
<1> DEFINE OK(f, n) == f = [d \in n .. LastDay |-> LoopStep(f, d, end, frequency)]
           T == {n \in Nat : n <= LastDay + 1 => \E f : OK(f, LastDay + 1 - n)}
<1>2. 0 \in T
  <2>1. PICK f : f = [d \in LastDay + 1 .. LastDay |-> 0]
    OBVIOUS
  <2>2. LastDay + 1 .. LastDay = {} /\ LastDay + 1 - 0 = LastDay + 1
    BY <1>1
  <2>3. OK(f, LastDay + 1)
    BY <2>1, <2>2
  <2> QED
    BY <2>2, <2>3
<1>3. ASSUME NEW n \in Nat, n \in T PROVE n + 1 \in T
  <2> SUFFICES ASSUME n + 1 <= LastDay + 1 PROVE \E f : OK(f, LastDay + 1 - (n + 1))
    OBVIOUS
  <2>1. PICK m : m = LastDay + 1 - n
    OBVIOUS
  <2>2. /\ m - 1 \in 0 .. LastDay /\ m \in Nat /\ LastDay + 1 - (n + 1) = m - 1
        /\ \A d \in m - 1 .. LastDay : d = m - 1 \/ d \in m .. LastDay
        /\ \A d \in m .. LastDay : d # m - 1 /\ d \in m - 1 .. LastDay
    BY <1>1, <2>1
  <2>3. PICK f : OK(f, m)
    <3>1. n <= LastDay + 1
      BY <1>1
    <3>2. \E f : OK(f, LastDay + 1 - n)
      BY <1>3, <3>1
    <3> QED
      BY <2>1, <3>2, Zenon
  <2>4. PICK first : first = LoopStep(f, m - 1, end, frequency)
    OBVIOUS
  <2>5. PICK g : g = [d \in m - 1 .. LastDay |-> IF d = m - 1 THEN first ELSE f[d]]
    OBVIOUS
  <2>6. \A d \in m .. LastDay : g[d] = f[d] /\ f[d] = LoopStep(f, d, end, frequency)
    BY <2>2, <2>3, <2>5
  <2>7. ASSUME NEW d \in m - 1 .. LastDay
        PROVE  LoopStep(g, d, end, frequency) = LoopStep(f, d, end, frequency)
    <3>1. PICK then : then = AdvanceDate(d, frequency)
      OBVIOUS
    <3>2. d \in 0 .. LastDay
      BY <1>1, <2>2
    <3>3. then \in Nat /\ d < then
      BY <3>1, <3>2, AdvanceIsAhead
    <3>4. then > LastDay \/ then \in m .. LastDay
      BY <1>1, <2>2, <3>2, <3>3
    <3>5. ~(then > LastDay) => g[then] = f[then]
      BY <2>6, <3>4
    <3> QED
      BY <3>1, <3>5 DEF LoopStep
  <2>8. \A d \in m - 1 .. LastDay : g[d] = LoopStep(g, d, end, frequency)
    BY <2>2, <2>4, <2>5, <2>6, <2>7
  <2>9. OK(g, m - 1)
    BY <2>5, <2>8
  <2> QED
    BY <2>2, <2>9
<1> HIDE DEF T, OK
<1>4. \A n \in Nat : n \in T
  BY <1>2, <1>3, SetInduction
<1>5. LastDay + 1 \in Nat /\ LastDay + 1 - (LastDay + 1) = 0
  BY <1>1
<1> QED
  BY <1>4, <1>5 DEF T, OK

LEMMA LoopRuns ==
    ASSUME today \in 0 .. LastDay, NEW end, NEW frequency \in Frequency,
           NEW f, f = [d \in 0 .. LastDay |-> LoopStep(f, d, end, frequency)],
           NEW d \in 0 .. LastDay
    PROVE  IsRun(f[d], d, end, frequency) /\ (f[d] = <<>> => ~Goes(d, end))
<1>1. LastDay \in Nat
  BY SubscriptionsAssumption
<1> DEFINE Ran(c) == IsRun(f[c], c, end, frequency) /\ (f[c] = <<>> => ~Goes(c, end))
           T == {n \in Nat : \A c \in 0 .. LastDay : LastDay - c < n => Ran(c)}
<1>2. 0 \in T
  BY <1>1
<1>3. ASSUME NEW n \in Nat, n \in T PROVE n + 1 \in T
  <2> SUFFICES ASSUME NEW c \in 0 .. LastDay, LastDay - c < n + 1 PROVE Ran(c)
    OBVIOUS
  <2>1. f[c] = LoopStep(f, c, end, frequency)
    OBVIOUS
  <2>2. PICK then : then = AdvanceDate(c, frequency)
    OBVIOUS
  <2>3. then \in Nat /\ c < then
    BY <2>2, AdvanceIsAhead
  <2>4. CASE ~Goes(c, end)
    BY <2>1, <2>4, NoRun DEF LoopStep, Goes
  <2>5. CASE Goes(c, end) /\ then > LastDay
    <3>1. f[c] = <<c>> \o <<>>
      BY <1>1, <2>1, <2>2, <2>5 DEF LoopStep, Goes
    <3>2. ~Goes(then, end)
      BY <1>1, <2>3, <2>5 DEF Goes
    <3> QED
      BY <2>2, <2>5, <3>1, <3>2, NoRun, RunStarts
  <2>6. CASE Goes(c, end) /\ ~(then > LastDay)
    <3>1. f[c] = <<c>> \o f[then]
      BY <2>1, <2>2, <2>6, Zenon DEF LoopStep, Goes
    <3>2. then \in 0 .. LastDay /\ LastDay - then < n
      BY <1>1, <2>3, <2>6
    <3>3. Ran(then)
      BY <1>3, <3>2
    <3>4. PICK q : q = f[then]
      OBVIOUS
    <3>5. f[c] # <<>> /\ IsRun(f[c], c, end, frequency)
      BY <2>2, <2>6, <3>1, <3>3, <3>4, RunStarts
    <3> QED
      BY <3>5
  <2> QED
    BY <2>4, <2>5, <2>6
<1> HIDE DEF T, Ran
<1>4. \A n \in Nat : n \in T
  BY <1>2, <1>3, SetInduction
<1>5. LastDay + 1 \in Nat /\ LastDay - d < LastDay + 1
  BY <1>1
<1>6. Ran(d)
  BY <1>4, <1>5 DEF T
<1> QED
  BY <1>6 DEF Ran

LEMMA DatesDueRun ==
    ASSUME today \in 0 .. LastDay, NEW r, r.frequency \in Frequency, r.next \in 0 .. LastDay
    PROVE  IsRun(DatesDue(r), r.next, r.end, r.frequency)
<1>1. PICK loop : loop = CHOOSE f : f = [d \in 0 .. LastDay |-> LoopStep(f, d, r.end, r.frequency)]
  OBVIOUS
<1>2. DatesDue(r) = loop[r.next]
  BY <1>1, Zenon DEF DatesDue, LoopStep
<1>3. \E f : f = [d \in 0 .. LastDay |-> LoopStep(f, d, r.end, r.frequency)]
  BY LoopExists
<1>4. loop = [d \in 0 .. LastDay |-> LoopStep(loop, d, r.end, r.frequency)]
  BY <1>1, <1>3, Zenon
<1>5. IsRun(loop[r.next], r.next, r.end, r.frequency)
  BY <1>4, LoopRuns
<1> QED
  BY <1>2, <1>5

Schedule ==
    [status : SubscriptionStatus, start : Nat, end : OptionalDate, next : OptionalDate,
     frequency : Frequency]

\* The dates billed and the next one, of a subscription left to its schedule.
OnSchedule(dates, start, frequency) ==
    /\ dates[1] = start
    /\ \A k \in 1 .. Len(dates) - 1 :
         /\ dates[k] < dates[k + 1] /\ dates[k] <= today
         /\ MonthsApart(MonthsOf(frequency), dates[k], dates[k + 1])

Follow(r, done) == r.next \in Nat /\ OnSchedule(Append(done, r.next), r.start, r.frequency)

SubscriptionsInv ==
    /\ today \in 0 .. LastDay
    /\ patched \in [Subscription -> Nat]
    /\ subscriptions \in [Subscription -> Schedule]
    /\ billed \in [Subscription -> Seq(Nat)]
    /\ \A s \in Subscription :
         /\ subscriptions[s].status = "absent" => billed[s] = <<>>
         /\ patched[s] = 0 /\ subscriptions[s].status # "absent" => Follow(subscriptions[s], billed[s])

LEMMA SubscriptionsStart == SubscriptionsInit => SubscriptionsInv
<1> SUFFICES ASSUME SubscriptionsInit PROVE SubscriptionsInv
  OBVIOUS
<1>1. 0 \in 0 .. LastDay
  BY SubscriptionsAssumption
<1>2. PICK r : r = [status |-> "absent", start |-> 0, end |-> NoDate, next |-> NoDate, frequency |-> "monthly"]
  OBVIOUS
<1>3. r \in Schedule /\ r.status = "absent"
  BY <1>2 DEF Schedule, SubscriptionStatus, OptionalDate, Frequency
<1>4. \A s \in Subscription : subscriptions[s] = r /\ billed[s] = <<>>
  BY <1>2 DEF SubscriptionsInit
<1>5. subscriptions = [s \in Subscription |-> r]
  BY <1>2 DEF SubscriptionsInit
<1> QED
  BY <1>1, <1>3, <1>4, <1>5 DEF SubscriptionsInit, SubscriptionsInv

LEMMA FollowedOnceBilled == SubscriptionsInv => EachPeriodBilledOnce
<1> SUFFICES ASSUME SubscriptionsInv, NEW s \in Subscription, patched[s] = 0,
                    subscriptions[s].status # "absent"
             PROVE  LET r == subscriptions[s]
                        dates == Append(billed[s], r.next)
                    IN  /\ dates[1] = r.start
                        /\ \A k \in 1 .. Len(dates) - 1 :
                             /\ dates[k] < dates[k + 1] /\ dates[k] <= today
                             /\ MonthsApart(MonthsOf(r.frequency), dates[k], dates[k + 1])
  BY Zenon DEF EachPeriodBilledOnce
<1>1. Follow(subscriptions[s], billed[s])
  BY DEF SubscriptionsInv
<1> QED
  BY <1>1 DEF Follow, OnSchedule

\* A later day leaves the sequences as they are.
LEMMA DayPasses ==
    ASSUME today \in Nat, today' \in Nat, today <= today',
           NEW done \in Seq(Nat), NEW next \in Nat, NEW start, NEW frequency,
           OnSchedule(Append(done, next), start, frequency)
    PROVE  OnSchedule(Append(done, next), start, frequency)'
<1>1. PICK dates : dates = Append(done, next)
  OBVIOUS
<1>2. dates \in Seq(Nat)
  BY <1>1, AppendElements
<1>3. \A k \in 1 .. Len(dates) - 1 : dates[k] \in Nat
  BY <1>2
<1>4. OnSchedule(dates, start, frequency)
  BY <1>1
<1>5. OnSchedule(dates, start, frequency)'
  <2>1. dates[1] = start
    BY <1>4 DEF OnSchedule
  <2>2. ASSUME NEW k \in 1 .. Len(dates) - 1
        PROVE  /\ dates[k] < dates[k + 1] /\ dates[k] <= today'
               /\ MonthsApart(MonthsOf(frequency), dates[k], dates[k + 1])
    <3>1. dates[k] \in Nat /\ dates[k] <= today
      BY <1>3, <1>4 DEF OnSchedule
    <3>2. dates[k] <= today'
      BY <3>1
    <3> QED
      BY <1>4, <3>2 DEF OnSchedule
  <2> QED
    BY <2>1, <2>2 DEF OnSchedule
<1> QED
  BY <1>1, <1>5

\* One subscription gets another record.
LEMMA SubscriptionWritten ==
    ASSUME SubscriptionsInv, NEW s \in Subscription, NEW r \in Schedule, NEW n \in Nat,
           subscriptions' = [subscriptions EXCEPT ![s] = r], patched' = [patched EXCEPT ![s] = n],
           UNCHANGED <<today, billed>>, r.status # "absent",
           n = 0 => Follow(r, billed[s])
    PROVE  SubscriptionsInv'
<1>1. /\ subscriptions' \in [Subscription -> Schedule] /\ patched' \in [Subscription -> Nat]
      /\ subscriptions'[s] = r /\ patched'[s] = n
      /\ \A t \in Subscription \ {s} : subscriptions'[t] = subscriptions[t] /\ patched'[t] = patched[t]
  BY DEF SubscriptionsInv
<1>2. ASSUME NEW t \in Subscription, patched'[t] = 0, subscriptions'[t].status # "absent"
      PROVE  Follow(subscriptions[t], billed[t])'
  <2>1. Follow(subscriptions'[t], billed[t])
    BY <1>1, <1>2 DEF SubscriptionsInv
  <2> QED
    BY <2>1 DEF Follow, OnSchedule
<1>3. \A t \in Subscription : subscriptions'[t].status = "absent" => billed'[t] = <<>>
  BY <1>1 DEF SubscriptionsInv
<1> QED
  BY <1>1, <1>2, <1>3 DEF SubscriptionsInv

LEMMA CreateSubscriptionKeeps ==
    ASSUME SubscriptionsInv, NEW s \in Subscription, NEW status \in SubscriptionStatus \ {"absent"},
           NEW start \in BillingDay, NEW next \in BillingDay, NEW end \in BillingDay \cup {NoDate},
           NEW f \in Frequency, CreateSubscription(s, status, start, end, next, f)
    PROVE  SubscriptionsInv'
<1>1. PICK r : r = [status |-> status, start |-> start, end |-> end, next |-> next, frequency |-> f]
  OBVIOUS
<1>2. PICK n \in Nat : n = IF next = start THEN 0 ELSE 1
  OBVIOUS
<1>3. start \in Nat /\ next \in Nat /\ end \in OptionalDate
  BY SubscriptionsAssumption DEF OptionalDate
<1>4. /\ r \in Schedule /\ r.status # "absent"
      /\ r.next = next /\ r.start = start /\ r.frequency = f
  BY <1>1, <1>3 DEF Schedule, OptionalDate
<1>5. billed[s] = <<>>
  BY DEF CreateSubscription, SubscriptionsInv
<1>6. next = start => Follow(r, <<>>)
  <2>1. Len(Append(<<>>, next)) = 1 /\ Append(<<>>, next)[1] = next
    OBVIOUS
  <2> QED
    BY <1>3, <1>4, <2>1 DEF Follow, OnSchedule
<1>7. n = 0 => Follow(r, billed[s])
  BY <1>2, <1>5, <1>6
<1>8. /\ subscriptions' = [subscriptions EXCEPT ![s] = r]
      /\ patched' = [patched EXCEPT ![s] = n] /\ UNCHANGED <<today, billed>>
  BY <1>1, <1>2 DEF CreateSubscription
<1> QED
  BY <1>4, <1>7, <1>8, SubscriptionWritten

LEMMA UpdateSubscriptionKeeps ==
    ASSUME SubscriptionsInv, NEW s \in Subscription, NEW end \in BillingDay \cup {NoDate},
           NEW f \in Frequency, NEW next \in BillingDay \cup {NoDate, subscriptions[s].next},
           UpdateSubscription(s, end, next, f)
    PROVE  SubscriptionsInv'
<1>1. PICK old : old = subscriptions[s]
  OBVIOUS
<1>2. PICK r : r = [old EXCEPT !.end = end, !.next = next, !.frequency = f]
  OBVIOUS
<1>3. PICK n : n = IF <<next, f>> # <<old.next, old.frequency>> THEN patched[s] + 1 ELSE patched[s]
  OBVIOUS
<1>4. old \in Schedule /\ patched[s] \in Nat /\ old.status # "absent"
  BY <1>1 DEF SubscriptionsInv, UpdateSubscription
<1>5. /\ next \in OptionalDate /\ end \in OptionalDate
  BY <1>1, <1>4, SubscriptionsAssumption DEF OptionalDate, Schedule
<1>6. /\ r \in Schedule /\ r.status = old.status /\ r.start = old.start
      /\ r.next = next /\ r.frequency = f
  BY <1>2, <1>4, <1>5 DEF Schedule
<1>7. n \in Nat /\ (n = 0 => next = old.next /\ f = old.frequency /\ patched[s] = 0)
  BY <1>3, <1>4
<1>8. n = 0 => Follow(r, billed[s])
  BY <1>1, <1>4, <1>6, <1>7 DEF SubscriptionsInv, Follow
<1>9. /\ subscriptions' = [subscriptions EXCEPT ![s] = r]
      /\ patched' = [patched EXCEPT ![s] = n] /\ UNCHANGED <<today, billed>>
  BY <1>1, <1>2, <1>3 DEF UpdateSubscription, SubscriptionsInv
<1> QED
  BY <1>4, <1>6, <1>7, <1>8, <1>9, SubscriptionWritten

LEMMA CancelSubscriptionKeeps ==
    ASSUME SubscriptionsInv, NEW s \in Subscription, CancelSubscription(s) PROVE SubscriptionsInv'
<1>1. PICK old : old = subscriptions[s]
  OBVIOUS
<1>2. PICK end : end = IF old.end = NoDate THEN today ELSE old.end
  OBVIOUS
<1>3. PICK r : r = [old EXCEPT !.status = "canceled", !.end = end]
  OBVIOUS
<1>4. old \in Schedule /\ patched[s] \in Nat /\ today \in Nat /\ old.status # "absent"
  BY <1>1, SubscriptionsAssumption DEF SubscriptionsInv, CancelSubscription
<1>5. /\ r \in Schedule /\ r.status = "canceled"
      /\ r.next = old.next /\ r.start = old.start /\ r.frequency = old.frequency
  BY <1>2, <1>3, <1>4 DEF Schedule, SubscriptionStatus, OptionalDate
<1>6. subscriptions' = [subscriptions EXCEPT ![s] = r]
  BY <1>1, <1>2, <1>3 DEF CancelSubscription
<1>7. patched' = [patched EXCEPT ![s] = patched[s]] /\ UNCHANGED <<today, billed>>
  BY DEF CancelSubscription, SubscriptionsInv
<1>8. patched[s] = 0 => Follow(r, billed[s])
  BY <1>1, <1>4, <1>5 DEF SubscriptionsInv, Follow
<1> QED
  BY <1>4, <1>5, <1>6, <1>7, <1>8, SubscriptionWritten

\* The dates go on with a run, and what is next is the advance of its end.
LEMMA RunFollows ==
    ASSUME today \in 0 .. LastDay, NEW done \in Seq(Nat), NEW start, NEW f \in Frequency, NEW next \in Nat,
           OnSchedule(Append(done, next), start, f),
           NEW q, NEW end, q # <<>>, IsRun(q, next, end, f), NEW last, last = AdvanceDate(q[Len(q)], f)
    PROVE  last \in Nat /\ OnSchedule(Append(done \o q, last), start, f)
<1>1. PICK m \in Nat : m = Len(done)
  OBVIOUS
<1>2. PICK n \in Nat \ {0} : n = Len(q)
  BY DEF IsRun
<1>3. PICK old : old = Append(done, next)
  OBVIOUS
<1>4. PICK new : new = Append(done \o q, last)
  OBVIOUS
<1>5. q \in Seq(Nat) /\ q[1] = next
  BY DEF IsRun
<1>6. /\ Len(new) = m + n + 1 /\ new[m + n + 1] = last
      /\ \A k \in 1 .. m : new[k] = done[k] /\ old[k] = done[k]
      /\ \A k \in 1 .. n : new[m + k] = q[k]
      /\ Len(old) = m + 1 /\ old[m + 1] = next
  BY <1>1, <1>2, <1>3, <1>4, <1>5
<1>7. \A k \in 1 .. m + 1 : new[k] = old[k]
  <2> SUFFICES ASSUME NEW k \in 1 .. m + 1 PROVE new[k] = old[k]
    OBVIOUS
  <2>1. CASE k \in 1 .. m
    BY <1>6, <2>1
  <2>2. CASE k = m + 1
    BY <1>5, <1>6, <2>2
  <2> QED
    BY <2>1, <2>2
<1>8. /\ old[1] = start
      /\ \A k \in 1 .. m :
         /\ old[k] < old[k + 1] /\ old[k] <= today
         /\ MonthsApart(MonthsOf(f), old[k], old[k + 1])
  <2>1. Len(old) - 1 = m
    BY <1>6
  <2>2. OnSchedule(old, start, f)
    BY <1>3
  <2> QED
    BY <2>1, <2>2 DEF OnSchedule
<1>9. today \in Nat
  BY SubscriptionsAssumption
<1>10. \A j \in 1 .. n :
         /\ q[j] \in 0 .. LastDay /\ Goes(q[j], end)
         /\ j < n => q[j + 1] = AdvanceDate(q[j], f)
  BY <1>2 DEF IsRun
<1>11. ASSUME NEW j \in 1 .. n
       PROVE  /\ new[m + j] = q[j] /\ new[m + j + 1] = AdvanceDate(q[j], f)
  <2>1. CASE j = n
    BY <1>2, <1>6, <2>1
  <2>2. CASE j < n
    <3>1. j + 1 \in 1 .. n /\ m + j + 1 = m + (j + 1)
      BY <2>2
    <3> QED
      BY <1>6, <1>10, <2>2, <3>1
  <2> QED
    BY <2>1, <2>2
<1>12. ASSUME NEW j \in 1 .. n
       PROVE  /\ new[m + j] < new[m + j + 1] /\ new[m + j] <= today /\ new[m + j + 1] \in Nat
              /\ MonthsApart(MonthsOf(f), new[m + j], new[m + j + 1])
  <2>1. PICK d \in 0 .. LastDay : d = q[j]
    BY <1>10
  <2>2. /\ AdvanceDate(d, f) \in Nat /\ d < AdvanceDate(d, f)
        /\ MonthsApart(MonthsOf(f), d, AdvanceDate(d, f))
    BY AdvanceIsAhead
  <2>3. d <= today
    <3>1. Goes(d, end) /\ d \in Nat
      BY <1>10, <2>1, SubscriptionsAssumption
    <3> QED
      BY <1>9, <3>1 DEF Goes
  <2>4. new[m + j] = d /\ new[m + j + 1] = AdvanceDate(d, f)
    BY <1>11, <2>1
  <2> QED
    BY <2>2, <2>3, <2>4
<1>13. last \in Nat
  <2>1. n \in 1 .. n
    OBVIOUS
  <2>2. new[m + n + 1] \in Nat
    BY <1>12, <2>1
  <2> QED
    BY <1>6, <2>2
<1>14. new[1] = start
  BY <1>7, <1>8
<1>15. ASSUME NEW k \in 1 .. Len(new) - 1
       PROVE  /\ new[k] < new[k + 1] /\ new[k] <= today
              /\ MonthsApart(MonthsOf(f), new[k], new[k + 1])
  <2>1. CASE k \in 1 .. m
    <3>1. new[k] = old[k] /\ new[k + 1] = old[k + 1]
      BY <1>7, <2>1
    <3> QED
      BY <1>8, <2>1, <3>1
  <2>2. CASE k \notin 1 .. m
    <3>1. PICK j \in 1 .. n : k = m + j
      <4>1. k - m \in 1 .. n /\ k = m + (k - m)
        BY <1>6, <2>2
      <4> QED
        BY <4>1
    <3> QED
      BY <1>12, <3>1
  <2> QED
    BY <2>1, <2>2
<1> QED
  BY <1>4, <1>13, <1>14, <1>15 DEF OnSchedule

LEMMA JobFollows ==
    ASSUME today \in 0 .. LastDay, NEW r \in Schedule, r.next # NoDate, r.next <= today,
           NEW done \in Seq(Nat), NEW q, q = DatesDue(r), NEW next, next = NextDate(r)
    PROVE  /\ q \in Seq(Nat) /\ next \in Nat /\ IsRun(q, r.next, r.end, r.frequency)
           /\ q # <<>> => ~Goes(next, r.end)
           /\ OnSchedule(Append(done, r.next), r.start, r.frequency)
                => OnSchedule(Append(done \o q, next), r.start, r.frequency)
<1>1. r.next \in 0 .. LastDay /\ r.frequency \in Frequency
  BY SubscriptionsAssumption DEF Schedule, OptionalDate
<1>2. IsRun(q, r.next, r.end, r.frequency)
  BY <1>1, DatesDueRun
<1>3. q \in Seq(Nat) /\ r.next \in Nat
  BY <1>1, <1>2 DEF IsRun
<1>4. CASE q = <<>>
  <2>1. next = r.next /\ done \o q = done
    BY <1>4 DEF NextDate
  <2> QED
    BY <1>2, <1>3, <1>4, <2>1
<1>5. CASE q # <<>>
  <2>1. next = AdvanceDate(q[Len(q)], r.frequency)
    BY <1>5 DEF NextDate
  <2>2. next \in Nat
    <3>1. Len(q) \in 1 .. Len(q)
      BY <1>3, <1>5
    <3>2. q[Len(q)] \in 0 .. LastDay
      BY <1>2, <3>1 DEF IsRun
    <3> QED
      BY <1>1, <2>1, <3>2, AdvanceIsAhead
  <2>3. ASSUME OnSchedule(Append(done, r.next), r.start, r.frequency)
        PROVE  OnSchedule(Append(done \o q, next), r.start, r.frequency)
    <3>1. PICK start, f, d, e : start = r.start /\ f = r.frequency /\ d = r.next /\ e = r.end
      OBVIOUS
    <3>2. f \in Frequency /\ d \in Nat /\ IsRun(q, d, e, f) /\ OnSchedule(Append(done, d), start, f)
          /\ next = AdvanceDate(q[Len(q)], f)
      BY <1>1, <1>2, <1>3, <2>1, <2>3, <3>1
    <3>3. OnSchedule(Append(done \o q, next), start, f)
      BY <1>5, <3>2, RunFollows
    <3> QED
      BY <3>1, <3>3
  <2>4. ~Goes(next, r.end)
    BY <1>2, <1>5, <2>1 DEF IsRun
  <2> QED
    BY <1>2, <1>3, <2>2, <2>3, <2>4
<1> QED
  BY <1>4, <1>5

LEMMA RunDailyJobKeeps ==
    ASSUME SubscriptionsInv, NEW afternoon \in BOOLEAN, RunDailyJob(afternoon) PROVE SubscriptionsInv'
<1>1. PICK due : due = {s \in Subscription : IsDue(s, afternoon)}
  OBVIOUS
<1>2. /\ billed' = [s \in Subscription |->
                      billed[s] \o (IF s \in due THEN DatesDue(subscriptions[s]) ELSE <<>>)]
      /\ subscriptions' = [s \in Subscription |->
             IF s \in due THEN [subscriptions[s] EXCEPT !.next = NextDate(subscriptions[s])]
             ELSE subscriptions[s]]
      /\ UNCHANGED <<today, patched>>
  BY <1>1 DEF RunDailyJob
<1>3. ASSUME NEW s \in Subscription
      PROVE  /\ billed'[s] \in Seq(Nat) /\ subscriptions'[s] \in Schedule
             /\ subscriptions'[s].status = "absent" => billed'[s] = <<>>
             /\ patched'[s] = 0 /\ subscriptions'[s].status # "absent"
                  => Follow(subscriptions'[s], billed'[s])
  <2>1. PICK r \in Schedule : r = subscriptions[s]
    BY DEF SubscriptionsInv
  <2>2. PICK done \in Seq(Nat) : done = billed[s]
    BY DEF SubscriptionsInv
  <2>3. /\ r.status = "absent" => done = <<>>
        /\ patched[s] = 0 /\ r.status # "absent" => Follow(r, done)
    BY <2>1, <2>2 DEF SubscriptionsInv
  <2>4. CASE s \in due
    <3>1. r.status = "active" /\ r.next # NoDate /\ r.next <= today
      BY <1>1, <2>1, <2>4 DEF IsDue
    <3>2. PICK q : q = DatesDue(r)
      OBVIOUS
    <3>3. PICK next : next = NextDate(r)
      OBVIOUS
    <3>4. q \in Seq(Nat) /\ next \in Nat
      BY <2>2, <3>1, <3>2, <3>3, JobFollows DEF SubscriptionsInv
    <3>5. OnSchedule(Append(done, r.next), r.start, r.frequency)
            => OnSchedule(Append(done \o q, next), r.start, r.frequency)
      BY <3>1, <3>2, <3>3, JobFollows DEF SubscriptionsInv
    <3>6. PICK new : new = [r EXCEPT !.next = next]
      OBVIOUS
    <3>7. /\ new \in Schedule /\ new.status = r.status /\ new.start = r.start
          /\ new.frequency = r.frequency /\ new.next = next
      BY <3>4, <3>6 DEF Schedule, OptionalDate
    <3>8. billed'[s] = done \o q /\ subscriptions'[s] = new
      BY <1>2, <2>1, <2>2, <2>4, <3>2, <3>3, <3>6
    <3>9. Follow(r, done) => Follow(new, done \o q)
      BY <3>4, <3>5, <3>7 DEF Follow
    <3>10. done \o q \in Seq(Nat)
      BY <3>4
    <3> QED
      BY <1>2, <2>3, <3>1, <3>7, <3>8, <3>9, <3>10
  <2>5. CASE s \notin due
    <3>1. billed'[s] = done /\ subscriptions'[s] = r
      <4>1. done \o <<>> = done
        OBVIOUS
      <4> QED
        BY <1>2, <2>1, <2>2, <2>5, <4>1
    <3> QED
      BY <1>2, <2>3, <3>1
  <2> QED
    BY <2>4, <2>5
<1>4. ASSUME NEW s \in Subscription, Follow(subscriptions'[s], billed'[s])
      PROVE  Follow(subscriptions[s], billed[s])'
  BY <1>2, <1>4 DEF Follow, OnSchedule
<1>5. /\ billed' \in [Subscription -> Seq(Nat)] /\ subscriptions' \in [Subscription -> Schedule]
  BY <1>2, <1>3
<1>6. today' \in 0 .. LastDay /\ patched' \in [Subscription -> Nat]
  BY <1>2 DEF SubscriptionsInv
<1> QED
  BY <1>3, <1>4, <1>5, <1>6 DEF SubscriptionsInv

LEMMA NextDayKeeps == ASSUME SubscriptionsInv, NextDay PROVE SubscriptionsInv'
<1>1. /\ today \in Nat /\ today' = today + 1 /\ today' \in 0 .. LastDay
      /\ UNCHANGED <<subscriptions, billed, patched>>
  BY SubscriptionsAssumption DEF SubscriptionsInv, NextDay
<1>2. ASSUME NEW s \in Subscription, patched[s] = 0, subscriptions[s].status # "absent"
      PROVE  Follow(subscriptions[s], billed[s])'
  <2>1. PICK r : r = subscriptions[s]
    OBVIOUS
  <2>2. PICK done \in Seq(Nat) : done = billed[s]
    BY DEF SubscriptionsInv
  <2>3. r.next \in Nat /\ OnSchedule(Append(done, r.next), r.start, r.frequency)
    BY <1>2, <2>1, <2>2 DEF SubscriptionsInv, Follow
  <2>4. OnSchedule(Append(done, r.next), r.start, r.frequency)'
    BY <1>1, <2>3, DayPasses
  <2>5. subscriptions'[s] = r /\ billed'[s] = done
    BY <1>1, <2>1, <2>2
  <2> QED
    BY <2>3, <2>4, <2>5 DEF Follow
<1> QED
  BY <1>1, <1>2 DEF SubscriptionsInv

LEMMA SubscriptionsRest ==
    ASSUME SubscriptionsInv, UNCHANGED <<subscriptions, today, billed, patched>>
    PROVE  SubscriptionsInv'
BY DEF SubscriptionsInv, Follow, OnSchedule

LEMMA SubscriptionsKeep == ASSUME SubscriptionsInv, SubscriptionsNext PROVE SubscriptionsInv'
<1>1. ASSUME NEW i \in pending, SettleInvoice(i) PROVE SubscriptionsInv'
  BY <1>1, SubscriptionsRest DEF SettleInvoice
<1> QED
  BY <1>1, CreateSubscriptionKeeps, UpdateSubscriptionKeeps, CancelSubscriptionKeeps, NextDayKeeps,
     RunDailyJobKeeps DEF SubscriptionsNext

\* Only a run of the job bills, whoever is active, within the term and until
\* nothing of it is due.
LEMMA JobBills ==
    ASSUME SubscriptionsInv, SubscriptionsNext \/ UNCHANGED billed PROVE JobBillsTheTerm
<1>1. CASE UNCHANGED billed
  BY <1>1 DEF JobBillsTheTerm
<1>2. CASE \E afternoon \in BOOLEAN : RunDailyJob(afternoon)
  <2>1. PICK afternoon \in BOOLEAN : RunDailyJob(afternoon)
    BY <1>2
  <2>2. PICK due : due = {s \in Subscription : IsDue(s, afternoon)}
    OBVIOUS
  <2>3. /\ billed' = [s \in Subscription |->
                      billed[s] \o (IF s \in due THEN DatesDue(subscriptions[s]) ELSE <<>>)]
        /\ subscriptions' = [s \in Subscription |->
             IF s \in due THEN [subscriptions[s] EXCEPT !.next = NextDate(subscriptions[s])]
             ELSE subscriptions[s]]
    BY <2>1, <2>2 DEF RunDailyJob
  <2> SUFFICES ASSUME NEW s \in Subscription, billed'[s] # billed[s]
               PROVE  /\ subscriptions[s].status = "active"
                      /\ subscriptions[s].end # NoDate =>
                           \A k \in Len(billed[s]) + 1 .. Len(billed'[s]) :
                              billed'[s][k] <= subscriptions[s].end
                      /\ \/ subscriptions'[s].next > today
                         \/ /\ subscriptions[s].end # NoDate
                            /\ subscriptions'[s].next > subscriptions[s].end
    BY DEF JobBillsTheTerm
  <2>4. PICK r \in Schedule : r = subscriptions[s]
    BY DEF SubscriptionsInv
  <2>5. PICK done \in Seq(Nat) : done = billed[s]
    BY DEF SubscriptionsInv
  <2>6. s \in due
    <3> SUFFICES ASSUME s \notin due PROVE FALSE
      OBVIOUS
    <3>1. billed'[s] = done \o <<>> /\ done \o <<>> = done
      BY <2>3, <2>5
    <3> QED
      BY <2>5, <3>1
  <2>7. r.status = "active" /\ r.next # NoDate /\ r.next <= today
    BY <2>2, <2>4, <2>6 DEF IsDue
  <2>8. PICK q : q = DatesDue(r)
    OBVIOUS
  <2>9. PICK next : next = NextDate(r)
    OBVIOUS
  <2>10. billed'[s] = done \o q /\ subscriptions'[s] = [r EXCEPT !.next = next]
    BY <2>3, <2>4, <2>5, <2>6, <2>8, <2>9
  <2>11. /\ q \in Seq(Nat) /\ next \in Nat /\ IsRun(q, r.next, r.end, r.frequency)
         /\ q # <<>> => ~Goes(next, r.end)
    BY <2>5, <2>7, <2>8, <2>9, JobFollows DEF SubscriptionsInv
  <2>12. q # <<>>
    <3> SUFFICES ASSUME q = <<>> PROVE FALSE
      OBVIOUS
    <3>1. done \o <<>> = done
      BY <2>5
    <3> QED
      BY <2>5, <2>10, <3>1
  <2>13. subscriptions'[s].next = next
    BY <2>10 DEF Schedule
  <2>14. ASSUME r.end # NoDate, NEW k \in Len(done) + 1 .. Len(done \o q)
         PROVE  (done \o q)[k] <= r.end
    <3>1. PICK m \in Nat, n \in Nat : m = Len(done) /\ n = Len(q)
      BY <2>11
    <3>2. PICK j \in 1 .. n : k = m + j
      <4>1. Len(done \o q) = m + n
        BY <2>11, <3>1
      <4>2. k - m \in 1 .. n /\ k = m + (k - m)
        BY <2>14, <3>1, <4>1
      <4> QED
        BY <4>2
    <3>3. (done \o q)[k] = q[j]
      BY <2>11, <3>1, <3>2
    <3>4. q[j] \in 0 .. LastDay /\ Goes(q[j], r.end)
      BY <2>11, <3>1, <3>2 DEF IsRun
    <3>5. r.end \in Nat /\ q[j] \in Nat
      BY <2>14, <3>4, SubscriptionsAssumption DEF Schedule, OptionalDate
    <3> QED
      BY <2>14, <3>3, <3>4, <3>5 DEF Goes
  <2>15. next > today \/ (r.end # NoDate /\ next > r.end)
    BY <2>11, <2>12 DEF Goes
  <2> QED
    BY <2>4, <2>5, <2>7, <2>10, <2>13, <2>14, <2>15
<1>3. CASE SubscriptionsNext /\ ~\E afternoon \in BOOLEAN : RunDailyJob(afternoon)
  BY <1>1, <1>3 DEF SubscriptionsNext, CreateSubscription, UpdateSubscription, CancelSubscription,
     NextDay, SettleInvoice
<1> QED
  BY <1>1, <1>2, <1>3

(***************************************************************************)
(* Payables.  A position carries what its bill's events add up to: every   *)
(* payment applied after the bill is counted once, because an applied      *)
(* event is never new again; and an event that opens the bill changes      *)
(* nothing that was paid.                                                  *)
(***************************************************************************)
KnownBills == {b \in Bill : Known(b)}
Counted(b) == (PaymentsOf(b) \cap applied) \ early

Fits(p) ==
    /\ p.open <= p.total /\ p.paid = p.total - p.open
    /\ p.status = "closed" => p.open = 0

PositionHolds(b) ==
    IF Known(b)
    THEN /\ Fits(positions[b])
         /\ \E e \in ApprovalsOf(b) \cap applied : BillContent[e].amount = positions[b].total
    ELSE /\ ApprovalsOf(b) \cap applied = {}
         /\ Counted(b) = {}

OpenIsRight(b) ==
    (Known(b) /\ OneTotal(b)) =>
        /\ positions[b].open = Larger(0, positions[b].total - AmountOf(Counted(b)))
        /\ positions[b].paid = positions[b].total - positions[b].open
        /\ positions[b].status = "closed" <=> positions[b].open = 0

PayablesInv ==
    /\ APTypeOK
    /\ IsFiniteSet(applied) /\ IsFiniteSet(posted) /\ IsFiniteSet(KnownBills)
    /\ \A b \in Bill : PositionHolds(b)
    /\ \A e \in posted :
         /\ Buildable(BillContent[e].type, BillContent[e].amount, BillContent[e].tax)
         /\ ValidLines(BillEntry(e).lines)
    /\ \A b \in Bill : OpenIsRight(b)

LEMMA BillEventContent ==
    ASSUME NEW e \in BillEvent
    PROVE  /\ BillContent[e].type \in {"bill.created", "bill.approved", "bill.paid"}
           /\ BillContent[e].bill \in Bill
           /\ BillContent[e].vendor # None => BillContent[e].vendor \in Vendor
           /\ BillContent[e].amount \in Nat /\ BillContent[e].tax \in Nat
           /\ BillContent[e].due \in Nat \union {None} /\ BillContent[e].period \in Nat
BY PayablesAssumption


LEMMA NoneIsNoPosition == ASSUME NEW p \in Position PROVE p # None
BY PayablesAssumption

LEMMA AmountsAdd ==
    ASSUME NEW S \in SUBSET BillEvent, IsFiniteSet(S)
    PROVE  /\ AmountOf(S) \in Nat
           /\ \A e \in BillEvent \ S : AmountOf(S \union {e}) = BillContent[e].amount + AmountOf(S)
<1>1. PICK f : f = [e \in S |-> BillContent[e].amount]
  OBVIOUS
<1>2. f \in [S -> Nat] /\ AmountOf(S) = SumFunction(f)
  BY <1>1, BillEventContent DEF AmountOf
<1>3. AmountOf(S) \in Nat
  BY <1>2, SumIsNat
<1>4. ASSUME NEW e \in BillEvent \ S
      PROVE  AmountOf(S \union {e}) = BillContent[e].amount + AmountOf(S)
  <2>1. PICK g : g = [d \in S \union {e} |-> BillContent[d].amount]
    OBVIOUS
  <2>2. g \in [S \union {e} -> Int] /\ g[e] = BillContent[e].amount /\ Restrict(g, S) = f
    BY <1>1, <2>1, BillEventContent DEF Restrict
  <2>3. SumFunction(g) = g[e] + SumFunction(Restrict(g, S))
    BY <2>2, SumOfOneMore
  <2> QED
    BY <1>2, <2>1, <2>2, <2>3 DEF AmountOf
<1> QED
  BY <1>3, <1>4

LEMMA AmountOfNone == AmountOf({}) = 0
<1>1. PICK f : f = [e \in {} |-> BillContent[e].amount]
  OBVIOUS
<1>2. DOMAIN f = {} /\ f = [e \in {} |-> f[e]] /\ AmountOf({}) = SumFunction(f)
  BY <1>1 DEF AmountOf
<1> QED
  BY <1>2, SumOfNothing

LEMMA PayablesStart == APInit => PayablesInv
<1> SUFFICES ASSUME APInit PROVE PayablesInv
  OBVIOUS
<1>1. /\ positions = [b \in Bill |-> None]
      /\ applied = {} /\ posted = {} /\ early = {}
  BY DEF APInit
<1>2. \A b \in Bill : ~Known(b)
  BY <1>1 DEF Known
<1>3. KnownBills = {}
  BY <1>2 DEF KnownBills
<1> QED
  BY <1>1, <1>2, <1>3, FS_EmptySet
  DEF PayablesInv, APTypeOK, PositionHolds, Counted, OpenIsRight

\* What a step leaves as it is, for a bill it is not about.
LEMMA OtherBillsStay ==
    ASSUME NEW b \in Bill, PositionHolds(b), OpenIsRight(b),
           positions'[b] = positions[b],
           ApprovalsOf(b) \cap applied' = ApprovalsOf(b) \cap applied,
           (Counted(b))' = Counted(b)
    PROVE  PositionHolds(b)' /\ OpenIsRight(b)'
<1>1. Known(b)' <=> Known(b)
  BY DEF Known
<1>2. PositionHolds(b)'
  <2>1. (ApprovalsOf(b))' = ApprovalsOf(b)
    BY DEF ApprovalsOf
  <2> QED
    BY <1>1, <2>1 DEF PositionHolds
<1>3. OneTotal(b)' <=> OneTotal(b)
  BY DEF OneTotal, ApprovalsOf
<1>4. (AmountOf(Counted(b)))' = AmountOf(Counted(b))
  BY Zenon DEF AmountOf
<1>5. OpenIsRight(b)'
  BY <1>1, <1>3, <1>4 DEF OpenIsRight
<1> QED
  BY <1>2, <1>5

\* An event that is about bill b adds nothing to another bill.
LEMMA ForeignEvent ==
    ASSUME NEW e \in BillEvent, NEW b \in Bill, BillContent[e].bill # b,
           applied' = applied \union {e}, early' = early \/ early' = early \union {e}
    PROVE  ApprovalsOf(b) \cap applied' = ApprovalsOf(b) \cap applied /\ (Counted(b))' = Counted(b)
BY DEF ApprovalsOf, Counted, PaymentsOf

LEMMA CountedIsFinite ==
    ASSUME PayablesInv, NEW b
    PROVE  IsFiniteSet(Counted(b)) /\ Counted(b) \in SUBSET BillEvent /\ AmountOf(Counted(b)) \in Nat
<1>1. Counted(b) \subseteq applied /\ Counted(b) \in SUBSET BillEvent
  BY DEF Counted, PayablesInv, APTypeOK
<1>2. IsFiniteSet(Counted(b))
  BY <1>1, FS_Subset DEF PayablesInv
<1>3. PICK S : S = Counted(b)
  OBVIOUS
<1>4. AmountOf(S) \in Nat
  BY <1>1, <1>2, <1>3, AmountsAdd
<1> QED
  BY <1>1, <1>2, <1>3, <1>4

LEMMA KnownPosition ==
    ASSUME PayablesInv, NEW b \in Bill, Known(b)
    PROVE  /\ positions[b] \in Position
           /\ positions[b].open \in Nat /\ positions[b].total \in Nat /\ positions[b].paid \in Nat
           /\ positions[b].vendor \in Vendor /\ positions[b].due \in Nat \union {None}
           /\ positions[b].status = "open" \/ positions[b].status = "closed"
           /\ Fits(positions[b])
<1>1. positions[b] \in Position
  BY DEF PayablesInv, APTypeOK, Known
<1>2. Fits(positions[b])
  BY DEF PayablesInv, PositionHolds
<1> QED
  BY <1>1, <1>2 DEF Position

LEMMA ApprovalKeeps ==
    ASSUME PayablesInv, NEW e \in BillEvent, ApplyBillApproved(e) PROVE PayablesInv'
<1>1. PICK b \in Bill : b = BillContent[e].bill
  BY BillEventContent
<1>2. PICK total \in Nat : total = BillContent[e].amount
  BY BillEventContent
<1>3. PICK p : p = Approved(e)
  OBVIOUS
<1>4. /\ BillContent[e].type # "bill.paid" /\ BillContent[e].vendor \in Vendor
      /\ positions' = [positions EXCEPT ![b] = p] /\ applied' = applied \union {e}
      /\ UNCHANGED <<posted, early>>
  BY <1>1, <1>3, BillEventContent DEF ApplyBillApproved
<1>5. PICK base \in Nat : base = IF Known(b) THEN positions[b].open ELSE total
  BY <1>2, KnownPosition
<1>6. PICK open \in Nat : open = Larger(0, Smaller(total, base))
  BY DEF Larger, Smaller
<1>7. /\ open <= total /\ (base = 0 => open = 0) /\ (base <= total => open = base)
  BY <1>6 DEF Larger, Smaller
<1>8. p = [vendor |-> BillContent[e].vendor, total |-> total, open |-> open,
           paid |-> total - open, due |-> BillContent[e].due,
           status |-> IF base <= 0 THEN "closed" ELSE "open"]
  BY <1>1, <1>2, <1>3, <1>5, <1>6 DEF Approved
<1>9. p \in Position
  BY <1>4, <1>7, <1>8, BillEventContent DEF Position
<1>10. /\ positions \in [Bill -> Position \union {None}]
       /\ applied \subseteq BillEvent /\ posted \subseteq BillEvent /\ early \subseteq applied
  BY DEF PayablesInv, APTypeOK
<1>11. APTypeOK'
  BY <1>4, <1>9, <1>10 DEF APTypeOK
<1>12. positions'[b] = p /\ \A c \in Bill \ {b} : positions'[c] = positions[c]
  BY <1>4, <1>10
<1>13. p # None
  BY <1>9, NoneIsNoPosition
<1>14. KnownBills' = KnownBills \union {b}
  BY <1>12, <1>13 DEF KnownBills, Known
<1>15. IsFiniteSet(applied') /\ IsFiniteSet(posted') /\ IsFiniteSet(KnownBills')
  BY <1>4, <1>14, FS_AddElement DEF PayablesInv
<1>16. ASSUME NEW c \in Bill \ {b} PROVE PositionHolds(c)' /\ OpenIsRight(c)'
  <2>1. ApprovalsOf(c) \cap applied' = ApprovalsOf(c) \cap applied /\ (Counted(c))' = Counted(c)
    BY <1>1, <1>4, ForeignEvent
  <2>2. PositionHolds(c) /\ OpenIsRight(c)
    BY DEF PayablesInv
  <2> QED
    BY <1>12, <2>1, <2>2, OtherBillsStay
<1>17. (Counted(b))' = Counted(b) /\ e \in (ApprovalsOf(b) \cap applied)' /\ Known(b)'
  BY <1>1, <1>4, <1>12, <1>13 DEF Counted, PaymentsOf, ApprovalsOf, Known
<1>18. PositionHolds(b)'
  <2>1. Fits(p) /\ p.total = total
    BY <1>7, <1>8 DEF Fits
  <2> QED
    BY <1>2, <1>12, <1>17, <2>1 DEF PositionHolds
<1>19. OpenIsRight(b)'
  <2> SUFFICES ASSUME OneTotal(b)'
               PROVE  /\ p.open = Larger(0, p.total - (AmountOf(Counted(b)))')
                      /\ p.paid = p.total - p.open
                      /\ p.status = "closed" <=> p.open = 0
    BY <1>12 DEF OpenIsRight
  <2>1. PICK n \in Nat : n = AmountOf(Counted(b))
    BY CountedIsFinite
  <2>2. (AmountOf(Counted(b)))' = n
    BY <1>17, <2>1, Zenon DEF AmountOf
  <2>3. CASE ~Known(b)
    <3>1. n = 0
      BY <2>1, <2>3, AmountOfNone DEF PayablesInv, PositionHolds
    <3>2. base = total
      BY <1>5, <2>3
    <3> QED
      BY <1>7, <1>8, <2>2, <3>1, <3>2 DEF Larger
  <2>4. CASE Known(b)
    <3>1. PICK q : q = positions[b]
      OBVIOUS
    <3>2. PICK d \in ApprovalsOf(b) \cap applied : BillContent[d].amount = q.total
      BY <2>4, <3>1 DEF PayablesInv, PositionHolds
    <3>3. d \in (ApprovalsOf(b) \cap applied)'
      BY <1>4, <3>2 DEF ApprovalsOf
    <3>4. q.total = total
      BY <1>2, <1>17, <3>2, <3>3 DEF OneTotal
    <3>5. OneTotal(b)
      BY <1>4 DEF OneTotal, ApprovalsOf
    <3>6. q.open = Larger(0, q.total - n) /\ q.open <= q.total
      BY <2>1, <2>4, <3>1, <3>5, KnownPosition DEF PayablesInv, OpenIsRight, Fits
    <3>7. base = Larger(0, total - n) /\ base <= total
      BY <1>5, <2>4, <3>1, <3>4, <3>6
    <3> QED
      BY <1>7, <1>8, <2>2, <3>7
  <2> QED
    BY <2>3, <2>4
<1>20. \A d \in posted' :
         /\ Buildable(BillContent[d].type, BillContent[d].amount, BillContent[d].tax)
         /\ ValidLines(BillEntry(d).lines)
  BY <1>4 DEF PayablesInv
<1> QED
  BY <1>11, <1>15, <1>16, <1>18, <1>19, <1>20 DEF PayablesInv

LEMMA PaymentKeeps ==
    ASSUME PayablesInv, NEW e \in BillEvent, ApplyBillPaid(e) PROVE PayablesInv'
<1>1. PICK b \in Bill : b = BillContent[e].bill
  BY BillEventContent
<1>2. PICK amount \in Nat : amount = BillContent[e].amount
  BY BillEventContent
<1>3. /\ BillContent[e].type = "bill.paid" /\ e \notin applied
      /\ applied' = applied \union {e} /\ posted' = posted
  BY DEF ApplyBillPaid, IsNew
<1>4. /\ positions \in [Bill -> Position \union {None}]
      /\ applied \subseteq BillEvent /\ posted \subseteq BillEvent /\ early \subseteq applied
  BY DEF PayablesInv, APTypeOK
<1>5. IsFiniteSet(applied') /\ IsFiniteSet(posted')
  BY <1>3, FS_AddElement DEF PayablesInv
<1>6. \A d \in posted' :
        /\ Buildable(BillContent[d].type, BillContent[d].amount, BillContent[d].tax)
        /\ ValidLines(BillEntry(d).lines)
  BY <1>3 DEF PayablesInv
<1>7. ASSUME NEW c \in Bill \ {b}, positions'[c] = positions[c],
             early' = early \/ early' = early \union {e}
      PROVE  PositionHolds(c)' /\ OpenIsRight(c)'
  <2>1. ApprovalsOf(c) \cap applied' = ApprovalsOf(c) \cap applied /\ (Counted(c))' = Counted(c)
    BY <1>1, <1>3, <1>7, ForeignEvent
  <2>2. PositionHolds(c) /\ OpenIsRight(c)
    BY DEF PayablesInv
  <2> QED
    BY <1>7, <2>1, <2>2, OtherBillsStay
<1>8. (ApprovalsOf(b) \cap applied)' = ApprovalsOf(b) \cap applied
  BY <1>3 DEF ApprovalsOf
<1>9. CASE ~Known(b)
  <2>1. early' = early \union {e} /\ positions' = positions
    BY <1>1, <1>9 DEF ApplyBillPaid
  <2>2. APTypeOK' /\ KnownBills' = KnownBills
    BY <1>3, <1>4, <2>1 DEF APTypeOK, KnownBills, Known
  <2>3. (Counted(b))' = Counted(b) /\ ~Known(b)'
    BY <1>3, <1>9, <2>1 DEF Counted, PaymentsOf, Known
  <2>4. PositionHolds(b)' /\ OpenIsRight(b)'
    BY <1>8, <1>9, <2>3 DEF PayablesInv, PositionHolds, OpenIsRight
  <2>5. \A c \in Bill : PositionHolds(c)' /\ OpenIsRight(c)'
    BY <1>7, <2>1, <2>4
  <2> QED
    BY <1>5, <1>6, <2>2, <2>5 DEF PayablesInv
<1>10. CASE Known(b)
  <2>1. PICK q \in Position : q = positions[b]
    BY <1>10, KnownPosition
  <2>2. PICK p : p = Paid(q, amount)
    OBVIOUS
  <2>3. early' = early /\ positions' = [positions EXCEPT ![b] = p]
    BY <1>1, <1>2, <1>10, <2>1, <2>2 DEF ApplyBillPaid
  <2>4. q.open \in Nat /\ q.total \in Nat /\ q.open <= q.total
    BY <1>10, <2>1, KnownPosition DEF Fits
  <2>5. PICK open \in Nat : open = Larger(0, Smaller(q.total, q.open - amount))
    BY <2>4 DEF Larger, Smaller
  <2>6. open <= q.total /\ open = Larger(0, q.open - amount) /\ q.total - open \in Nat
        /\ Larger(0, q.total - open) = q.total - open
    BY <2>4, <2>5 DEF Larger, Smaller
  <2>7. p = [q EXCEPT !.open = open, !.paid = q.total - open,
                      !.status = IF open = 0 THEN "closed" ELSE "open"]
    BY <2>2, <2>5, <2>6 DEF Paid
  <2>8. /\ p \in Position /\ p.open = open /\ p.total = q.total /\ p.paid = q.total - open
        /\ p.status = "closed" <=> open = 0
    BY <2>6, <2>7 DEF Position
  <2>9. p # None
    BY <2>8, NoneIsNoPosition
  <2>10. positions'[b] = p /\ \A c \in Bill \ {b} : positions'[c] = positions[c]
    BY <1>4, <2>3
  <2>11. APTypeOK' /\ KnownBills' = KnownBills
    <3>1. APTypeOK'
      BY <1>3, <1>4, <2>3, <2>8 DEF APTypeOK
    <3>2. KnownBills' = KnownBills
      BY <1>10, <2>9, <2>10 DEF KnownBills, Known
    <3> QED
      BY <3>1, <3>2
  <2>12. PositionHolds(b)'
    <3>1. Fits(p) /\ Known(b)'
      BY <2>6, <2>8, <2>9, <2>10 DEF Fits, Known
    <3>2. PICK d \in ApprovalsOf(b) \cap applied : BillContent[d].amount = q.total
      BY <1>10, <2>1 DEF PayablesInv, PositionHolds
    <3> QED
      BY <1>8, <2>8, <2>10, <3>1, <3>2 DEF PositionHolds
  <2>13. OpenIsRight(b)'
    <3> SUFFICES ASSUME OneTotal(b)'
                 PROVE  /\ p.open = Larger(0, p.total - (AmountOf(Counted(b)))')
                        /\ p.paid = p.total - p.open
                        /\ p.status = "closed" <=> p.open = 0
      BY <2>10 DEF OpenIsRight
    <3>1. PICK S \in SUBSET BillEvent : S = Counted(b) /\ IsFiniteSet(S)
      BY CountedIsFinite
    <3>2. e \notin S /\ (Counted(b))' = S \union {e}
      BY <1>1, <1>3, <1>4, <2>3, <3>1 DEF Counted, PaymentsOf
    <3>3. PICK n \in Nat : n = AmountOf(S)
      BY <3>1, AmountsAdd
    <3>4. AmountOf(S \union {e}) = amount + n
      BY <1>2, <3>1, <3>2, <3>3, AmountsAdd
    <3>5. (AmountOf(Counted(b)))' = amount + n
      BY <3>2, <3>4, Zenon DEF AmountOf
    <3>6. OneTotal(b)
      BY <1>8 DEF OneTotal, ApprovalsOf
    <3>7. q.open = Larger(0, q.total - n)
      BY <1>10, <2>1, <3>1, <3>3, <3>6 DEF PayablesInv, OpenIsRight
    <3>8. open = Larger(0, q.total - (amount + n))
      BY <2>4, <2>6, <3>7 DEF Larger
    <3> QED
      BY <2>8, <3>5, <3>8
  <2>14. \A c \in Bill : PositionHolds(c)' /\ OpenIsRight(c)'
    BY <1>7, <2>3, <2>10, <2>12, <2>13
  <2>15. IsFiniteSet(KnownBills')
    BY <2>11 DEF PayablesInv
  <2> QED
    BY <1>5, <1>6, <2>11, <2>14, <2>15 DEF PayablesInv
<1> QED
  BY <1>9, <1>10

LEMMA PostingKeeps ==
    ASSUME PayablesInv, NEW e \in BillEvent, PostBillEvent(e) PROVE PayablesInv'
<1>1. /\ Buildable(BillContent[e].type, BillContent[e].amount, BillContent[e].tax)
      /\ ValidLines(BillEntry(e).lines)
      /\ posted' = posted \union {e} /\ UNCHANGED <<positions, applied, early>>
  BY DEF PostBillEvent
<1>2. APTypeOK' /\ KnownBills' = KnownBills
  BY <1>1 DEF PayablesInv, APTypeOK, KnownBills, Known
<1>3. IsFiniteSet(posted')
  BY <1>1, FS_AddElement DEF PayablesInv
<1>4. \A b \in Bill : PositionHolds(b)' /\ OpenIsRight(b)'
  BY <1>1, OtherBillsStay DEF PayablesInv, Counted
<1>5. \A d \in posted' :
        /\ Buildable(BillContent[d].type, BillContent[d].amount, BillContent[d].tax)
        /\ ValidLines(BillEntry(d).lines)
  BY <1>1 DEF PayablesInv
<1> QED
  BY <1>1, <1>2, <1>3, <1>4, <1>5 DEF PayablesInv

LEMMA PayablesKeep == ASSUME PayablesInv, APNext PROVE PayablesInv'
BY ApprovalKeeps, PaymentKeeps, PostingKeeps DEF APNext

LEMMA PayablesRest == ASSUME PayablesInv, UNCHANGED apVars PROVE PayablesInv'
<1>1. UNCHANGED <<positions, applied, posted, early>>
  BY DEF apVars
<1>2. APTypeOK' /\ KnownBills' = KnownBills
  BY <1>1 DEF PayablesInv, APTypeOK, KnownBills, Known
<1>3. \A b \in Bill : PositionHolds(b)' /\ OpenIsRight(b)'
  BY <1>1, OtherBillsStay DEF PayablesInv, Counted
<1> QED
  BY <1>1, <1>2, <1>3 DEF PayablesInv

LEMMA OpenIsTotal == PayablesInv => OpenIsTotalLessPayments
BY Zenon DEF PayablesInv, OpenIsTotalLessPayments, OpenIsRight, Counted

-----------------------------------------------------------------------------
(* What is open, by vendor, by the day it is due and as a projection.      *)
OpenOf == [b \in KnownBills |-> positions[b].open]

LEMMA OpenSums ==
    ASSUME PayablesInv
    PROVE  /\ IsFiniteSet(KnownBills) /\ OpenOf \in [KnownBills -> Nat]
           /\ \A S \in SUBSET KnownBills :
                TotalOpen(S) = SumFunction(Restrict(OpenOf, S)) /\ TotalOpen(S) \in Nat
<1>1. IsFiniteSet(KnownBills)
  BY DEF PayablesInv
<1>2. OpenOf \in [KnownBills -> Nat]
  BY KnownPosition DEF OpenOf, KnownBills
<1>3. ASSUME NEW S \in SUBSET KnownBills
      PROVE  TotalOpen(S) = SumFunction(Restrict(OpenOf, S)) /\ TotalOpen(S) \in Nat
  <2>1. [b \in S |-> positions[b].open] = Restrict(OpenOf, S)
    BY DEF OpenOf, Restrict
  <2>2. IsFiniteSet(S)
    BY <1>1, FS_Subset
  <2>3. PICK f \in [S -> Nat] : f = Restrict(OpenOf, S)
    BY <1>2 DEF Restrict
  <2>4. SumFunction(f) \in Nat
    BY <2>2, SumIsNat
  <2> QED
    BY <2>1, <2>3, <2>4 DEF TotalOpen
<1> QED
  BY <1>1, <1>2, <1>3

LEMMA OpenSplits ==
    ASSUME PayablesInv, NEW S \in SUBSET KnownBills, NEW T \in SUBSET KnownBills, S \cap T = {}
    PROVE  TotalOpen(S \union T) = TotalOpen(S) + TotalOpen(T)
<1>0. PICK D : D = KnownBills
  OBVIOUS
<1>1. PICK f \in [D -> Int] : D = KnownBills /\ f = OpenOf /\ IsFiniteSet(D)
  BY <1>0, OpenSums
<1>2. SumFunction(Restrict(f, S \union T)) = SumFunction(Restrict(f, S)) + SumFunction(Restrict(f, T))
  BY <1>1, SumSplits
<1>3. S \union T \in SUBSET KnownBills
  OBVIOUS
<1> QED
  BY <1>1, <1>2, <1>3, OpenSums

LEMMA OpenGrows ==
    ASSUME PayablesInv, NEW S \in SUBSET KnownBills, NEW T \in SUBSET S
    PROVE  TotalOpen(T) <= TotalOpen(S)
<1>0. PICK D : D = KnownBills
  OBVIOUS
<1>1. PICK f \in [D -> Nat] : D = KnownBills /\ f = OpenOf /\ IsFiniteSet(D)
  BY <1>0, OpenSums
<1>2. SumFunction(Restrict(f, T)) <= SumFunction(Restrict(f, S))
  BY <1>1, SumGrows
<1> QED
  BY <1>1, <1>2, OpenSums

\* Bills with nothing open may be left out.
LEMMA OpenOfRest ==
    ASSUME PayablesInv, NEW S \in SUBSET KnownBills, NEW T \in SUBSET S,
           \A b \in S \ T : positions[b].open = 0
    PROVE  TotalOpen(S) = TotalOpen(T)
<1>1. PICK f : f = Restrict(OpenOf, S)
  OBVIOUS
<1>2. f \in [S -> Int] /\ IsFiniteSet(S) /\ (\A b \in S \ T : f[b] = 0) /\ Restrict(f, T) = Restrict(OpenOf, T)
  BY <1>1, OpenSums, FS_Subset DEF Restrict, OpenOf
<1>3. SumFunction(f) = SumFunction(Restrict(f, T))
  BY <1>2, SumLeavesOutZeros
<1>4. T \in SUBSET KnownBills
  OBVIOUS
<1> QED
  BY <1>1, <1>2, <1>3, <1>4, OpenSums

LEMMA VendorsAddUp ==
    ASSUME PayablesInv
    PROVE  TotalOpen(KnownBills) = SumFunction([v \in Vendor |-> VendorPayableState(v).open])
<1>0. PICK D : D = KnownBills
  OBVIOUS
<1>1. PICK f \in [D -> Int] : D = KnownBills /\ f = OpenOf /\ IsFiniteSet(D)
  BY <1>0, OpenSums
<1>2. PICK h : h = [b \in D |-> positions[b].vendor]
  OBVIOUS
<1>3. h \in [D -> Vendor]
  BY <1>1, <1>2, KnownPosition DEF KnownBills
<1>4. SumFunction(f) = SumFunction(FiberSums(f, h, D, Vendor))
  BY <1>1, <1>3, SumOfFibers, PayablesAssumption
<1>5. ASSUME NEW v \in Vendor PROVE VendorPayableState(v).open = SumFunction(Restrict(f, Fiber(h, D, v)))
  <2>1. Fiber(h, D, v) = BillsOf(v) /\ BillsOf(v) \in SUBSET KnownBills
    BY <1>1, <1>2 DEF Fiber, BillsOf, KnownBills
  <2>2. VendorPayableState(v).open = TotalOpen(BillsOf(v))
    BY DEF VendorPayableState
  <2> QED
    BY <1>1, <2>1, <2>2, OpenSums
<1>6. FiberSums(f, h, D, Vendor) = [v \in Vendor |-> VendorPayableState(v).open]
  BY <1>5 DEF FiberSums
<1>7. Restrict(f, D) = f
  BY SumOfAll
<1>8. TotalOpen(KnownBills) = SumFunction(f)
  BY <1>1, <1>7, OpenSums
<1> QED
  BY <1>4, <1>6, <1>8

\* What buckets of the due tracking hold.
Tracked(v) == {b \in BillsOf(v) : positions[b].status = "open" /\ positions[b].open > 0}
Undated(v) == {b \in Tracked(v) : positions[b].due = None}
Overdue(v, asOf) == {b \in Tracked(v) \ Undated(v) : positions[b].due < asOf}
NotYetDue(v, asOf) == Tracked(v) \ (Undated(v) \union Overdue(v, asOf))

LEMMA DueBuckets ==
    ASSUME NEW v, NEW asOf
    PROVE  VendorDueTracking(v, asOf) =
             [overdue |-> TotalOpen(Overdue(v, asOf)), due |-> TotalOpen(NotYetDue(v, asOf)),
              unknown |-> TotalOpen(Undated(v)),
              count |-> Cardinality(Overdue(v, asOf)) + Cardinality(NotYetDue(v, asOf))
                          + Cardinality(Undated(v))]
BY DEF VendorDueTracking, Tracked, Undated, Overdue, NotYetDue

LEMMA BucketsAddUp ==
    ASSUME PayablesInv, NEW v \in Vendor, NEW d \in Nat, NEW later \in Nat, d <= later
    PROVE  /\ VendorDueTracking(v, d).overdue + VendorDueTracking(v, d).due
                + VendorDueTracking(v, d).unknown = VendorPayableState(v).open
           /\ VendorDueTracking(v, d).count <= VendorPayableState(v).countOpen
           /\ VendorDueTracking(v, d).overdue <= VendorDueTracking(v, later).overdue
<1>1. PICK O, N, U, T, L, B :
        /\ O = Overdue(v, d) /\ N = NotYetDue(v, d) /\ U = Undated(v)
        /\ T = Tracked(v) /\ L = Overdue(v, later) /\ B = BillsOf(v)
  OBVIOUS
<1>2. /\ B \in SUBSET KnownBills /\ T \in SUBSET B /\ T \in SUBSET KnownBills
      /\ O \in SUBSET KnownBills /\ N \in SUBSET KnownBills /\ U \in SUBSET KnownBills
      /\ L \in SUBSET KnownBills
      /\ O \cap N = {} /\ (O \union N) \cap U = {} /\ (O \union N) \union U = T
      /\ O \union N \in SUBSET KnownBills
  BY <1>1 DEF Overdue, NotYetDue, Undated, Tracked, BillsOf, KnownBills
<1>3. O \in SUBSET L
  <2> SUFFICES ASSUME NEW b \in O PROVE b \in L
    OBVIOUS
  <2>1. b \in Tracked(v) \ Undated(v) /\ positions[b].due < d /\ b \in Bill /\ Known(b)
    BY <1>1 DEF Overdue, Tracked, BillsOf
  <2>2. positions[b].due \in Nat
    BY <2>1, KnownPosition DEF Undated
  <2> QED
    BY <1>1, <2>1, <2>2 DEF Overdue
<1>4. TotalOpen(B) = TotalOpen(T)
  <2>1. \A b \in B \ T : positions[b].open = 0
    BY <1>1, KnownPosition DEF Tracked, BillsOf, Fits
  <2> QED
    BY <1>2, <2>1, OpenOfRest
<1>5. TotalOpen(T) = (TotalOpen(O) + TotalOpen(N)) + TotalOpen(U)
  <2>1. TotalOpen(O \union N) = TotalOpen(O) + TotalOpen(N)
    BY <1>2, OpenSplits
  <2>2. TotalOpen((O \union N) \union U) = TotalOpen(O \union N) + TotalOpen(U)
    BY <1>2, OpenSplits
  <2> QED
    BY <1>2, <2>1, <2>2
<1>6. TotalOpen(O) <= TotalOpen(L)
  BY <1>2, <1>3, OpenGrows
<1>7. PICK C : C = {b \in B : positions[b].status = "open"}
  OBVIOUS
<1>8. /\ IsFiniteSet(C) /\ T \subseteq C /\ IsFiniteSet(O) /\ IsFiniteSet(N) /\ IsFiniteSet(U)
      /\ IsFiniteSet(T)
  BY <1>1, <1>2, <1>7, OpenSums, FS_Subset DEF Tracked
<1>9. PICK o \in Nat, n \in Nat, u \in Nat, c \in Nat, t \in Nat :
        /\ o = Cardinality(O) /\ n = Cardinality(N) /\ u = Cardinality(U)
        /\ c = Cardinality(C) /\ t = Cardinality(T)
  BY <1>8, FS_CardinalityType
<1>10. t = o + n + u
  <2>1. IsFiniteSet(O \union N) /\ Cardinality(O \union N) = o + n
    BY <1>2, <1>8, <1>9, SizeOfParts
  <2>2. Cardinality((O \union N) \union U) = Cardinality(O \union N) + u
    BY <1>2, <1>8, <1>9, <2>1, SizeOfParts
  <2> QED
    BY <1>2, <1>9, <2>1, <2>2
<1>11. t <= c
  BY <1>8, <1>9, FS_Subset
<1>12. /\ VendorPayableState(v).open = TotalOpen(B) /\ VendorPayableState(v).countOpen = c
       /\ VendorDueTracking(v, d).overdue = TotalOpen(O) /\ VendorDueTracking(v, d).due = TotalOpen(N)
       /\ VendorDueTracking(v, d).unknown = TotalOpen(U) /\ VendorDueTracking(v, d).count = o + n + u
       /\ VendorDueTracking(v, later).overdue = TotalOpen(L)
  BY <1>1, <1>7, <1>9, DueBuckets DEF VendorPayableState
<1> QED
  BY <1>4, <1>5, <1>6, <1>10, <1>11, <1>12

-----------------------------------------------------------------------------
(* What the entries of bill events carry.                                  *)
Share(line, accounts) == IF line.account \in accounts THEN Signed(line) ELSE 0

LEMMA BalanceOfTwo ==
    ASSUME NEW a \in Line, NEW b \in Line, NEW accounts
    PROVE  LineBalance(<<a, b>>, accounts) = Share(a, accounts) + Share(b, accounts)
<1>1. Share(a, accounts) \in Int /\ Share(b, accounts) \in Int
  BY DEF Share, Signed, Line
<1>2. PICK f : f = [k \in 1 .. 2 |-> IF k = 1 THEN Share(a, accounts) ELSE Share(b, accounts)]
  OBVIOUS
<1>3. f \in [1 .. 2 -> Int] /\ f[1] = Share(a, accounts) /\ f[2] = Share(b, accounts)
  BY <1>1, <1>2
<1>4. f = [k \in DOMAIN <<a, b>> |->
             IF <<a, b>>[k].account \in accounts THEN Signed(<<a, b>>[k]) ELSE 0]
  <2>1. DOMAIN <<a, b>> = 1 .. 2 /\ <<a, b>>[1] = a /\ <<a, b>>[2] = b
    OBVIOUS
  <2> QED
    BY <1>2, <2>1 DEF Share
<1>5. LineBalance(<<a, b>>, accounts) = SumFunction(f)
  BY <1>4, Zenon DEF LineBalance
<1> QED
  BY <1>3, <1>5, SumOfTwo

LEMMA BalanceOfThree ==
    ASSUME NEW a \in Line, NEW b \in Line, NEW c \in Line, NEW accounts
    PROVE  LineBalance(<<a, b, c>>, accounts)
             = Share(a, accounts) + Share(b, accounts) + Share(c, accounts)
<1>1. Share(a, accounts) \in Int /\ Share(b, accounts) \in Int /\ Share(c, accounts) \in Int
  BY DEF Share, Signed, Line
<1>2. PICK f : f = [k \in 1 .. 3 |-> IF k = 1 THEN Share(a, accounts)
                                     ELSE IF k = 2 THEN Share(b, accounts) ELSE Share(c, accounts)]
  OBVIOUS
<1>3. /\ f \in [1 .. 3 -> Int]
      /\ f[1] = Share(a, accounts) /\ f[2] = Share(b, accounts) /\ f[3] = Share(c, accounts)
  BY <1>1, <1>2
<1>4. f = [k \in DOMAIN <<a, b, c>> |->
             IF <<a, b, c>>[k].account \in accounts THEN Signed(<<a, b, c>>[k]) ELSE 0]
  <2>1. /\ DOMAIN <<a, b, c>> = 1 .. 3
        /\ <<a, b, c>>[1] = a /\ <<a, b, c>>[2] = b /\ <<a, b, c>>[3] = c
    OBVIOUS
  <2> QED
    BY <1>2, <2>1 DEF Share
<1>5. LineBalance(<<a, b, c>>, accounts) = SumFunction(f)
  BY <1>4, Zenon DEF LineBalance
<1> QED
  BY <1>3, <1>5, SumOfThree

LEMMA PayableShares ==
    ASSUME NEW n \in Nat, NEW line,
           line \in {Debit("operating_expense", n), Debit("sales_tax_payable", n),
                     Debit("accounts_payable", n), Credit("accounts_payable", n), Credit("cash", n)}
    PROVE  /\ line \in Line
           /\ Share(line, {"accounts_payable"}) =
                IF line = Debit("accounts_payable", n) THEN 0 - n
                ELSE IF line = Credit("accounts_payable", n) THEN n ELSE 0
           /\ Share(line, OfType({"expense"})) = IF line = Debit("operating_expense", n) THEN n ELSE 0
<1>1. /\ line.account \in Account /\ line.amount = n
      /\ line = [account |-> line.account, direction |-> line.direction, amount |-> n]
  BY DEF Debit, Credit, Account, AccountType
<1>2. line \in Line
  BY <1>1 DEF Debit, Credit, Line
<1>3. CASE line = Debit("operating_expense", n)
  BY <1>2, <1>3 DEF Debit, Credit, Share, Signed, OfType, Account, AccountType
<1>4. CASE line = Debit("sales_tax_payable", n)
  BY <1>2, <1>4 DEF Debit, Credit, Share, Signed, OfType, Account, AccountType
<1>5. CASE line = Debit("accounts_payable", n)
  BY <1>2, <1>5 DEF Debit, Credit, Share, Signed, OfType, Account, AccountType
<1>6. CASE line = Credit("accounts_payable", n)
  BY <1>2, <1>6 DEF Debit, Credit, Share, Signed, OfType, Account, AccountType
<1>7. CASE line = Credit("cash", n)
  BY <1>2, <1>7 DEF Debit, Credit, Share, Signed, OfType, Account, AccountType
<1> QED
  BY <1>3, <1>4, <1>5, <1>6, <1>7

LEMMA PostedBalance ==
    ASSUME PayablesInv, NEW e \in posted
    PROVE  /\ e \in BillEvent
           /\ BillContent[e].type = "bill.created" \/ BillContent[e].type = "bill.paid"
           /\ LineBalance(BillEntry(e).lines, {"accounts_payable"}) =
                IF BillContent[e].type = "bill.created" THEN BillContent[e].amount
                                                        ELSE 0 - BillContent[e].amount
           /\ LineBalance(BillEntry(e).lines, OfType({"expense"})) \in Nat
<1>1. e \in BillEvent
  BY DEF PayablesInv, APTypeOK
<1>2. BillContent[e].type = "bill.created" \/ BillContent[e].type = "bill.paid"
  BY <1>1, BillEventContent DEF PayablesInv, Buildable
<1>3. PICK total \in Nat, tax \in Nat : total = BillContent[e].amount /\ tax = BillContent[e].tax
  BY <1>1, BillEventContent
<1>4. PICK lines : lines = EventLines(BillContent[e].type, total, tax)
  OBVIOUS
<1>5. BillEntry(e).lines = lines
  BY <1>3, <1>4 DEF BillEntry
<1>6. CASE BillContent[e].type = "bill.paid"
  <2>1. lines = << Debit("accounts_payable", total), Credit("cash", total) >>
    BY <1>4, <1>6 DEF EventLines
  <2>2. /\ LineBalance(lines, {"accounts_payable"}) = 0 - total
        /\ LineBalance(lines, OfType({"expense"})) = 0
    <3>1. PICK a, b : a = Debit("accounts_payable", total) /\ b = Credit("cash", total)
      OBVIOUS
    <3>2. /\ a \in Line /\ b \in Line
          /\ Share(a, {"accounts_payable"}) = 0 - total /\ Share(b, {"accounts_payable"}) = 0
          /\ Share(a, OfType({"expense"})) = 0 /\ Share(b, OfType({"expense"})) = 0
      <4>1. a # Debit("operating_expense", total) /\ b # Debit("operating_expense", total)
            /\ b # Debit("accounts_payable", total) /\ b # Credit("accounts_payable", total)
        BY <3>1 DEF Debit, Credit
      <4> QED
        BY <3>1, <4>1, PayableShares
    <3> QED
      BY <2>1, <3>1, <3>2, BalanceOfTwo
  <2> QED
    BY <1>1, <1>3, <1>5, <1>6, <2>2
<1>7. CASE BillContent[e].type = "bill.created"
  <2>1. PICK safe \in Nat : safe = Larger(0, Smaller(total, tax))
    BY DEF Larger, Smaller
  <2>2. PICK cost \in Nat : cost = Larger(0, total - safe)
    BY DEF Larger
  <2>3. PICK a, t, b : /\ a = Debit("operating_expense", cost) /\ t = Debit("sales_tax_payable", safe)
                       /\ b = Credit("accounts_payable", total)
    OBVIOUS
  <2>4. lines = << a >> \o (IF safe > 0 THEN << t >> ELSE <<>>) \o << b >>
    BY <1>4, <1>7, <2>1, <2>2, <2>3 DEF EventLines, BillLines
  <2>5. lines = << a, t, b >> \/ lines = << a, b >>
    <3>1. CASE safe > 0
      <4>1. lines = << a >> \o << t >> \o << b >>
        BY <2>4, <3>1
      <4> QED
        BY <4>1, JoinedTuples
    <3>2. CASE ~(safe > 0)
      <4>1. lines = << a >> \o <<>> \o << b >>
        BY <2>4, <3>2
      <4> QED
        BY <4>1, JoinedTuples
    <3> QED
      BY <3>1, <3>2
  <2>6. /\ a \in Line /\ t \in Line /\ b \in Line
        /\ Share(a, {"accounts_payable"}) = 0 /\ Share(t, {"accounts_payable"}) = 0
        /\ Share(b, {"accounts_payable"}) = total
        /\ Share(a, OfType({"expense"})) = cost /\ Share(t, OfType({"expense"})) = 0
        /\ Share(b, OfType({"expense"})) = 0
    <3>1. /\ a # Debit("accounts_payable", cost) /\ a # Credit("accounts_payable", cost)
          /\ t # Debit("accounts_payable", safe) /\ t # Credit("accounts_payable", safe)
          /\ t # Debit("operating_expense", safe) /\ b # Debit("accounts_payable", total)
          /\ b # Debit("operating_expense", total)
      BY <2>3 DEF Debit, Credit
    <3> QED
      BY <2>3, <3>1, PayableShares
  <2>7. /\ LineBalance(lines, {"accounts_payable"}) = total
        /\ LineBalance(lines, OfType({"expense"})) = cost
    BY <2>5, <2>6, BalanceOfTwo, BalanceOfThree
  <2> QED
    BY <1>1, <1>3, <1>5, <1>7, <2>7
<1> QED
  BY <1>2, <1>6, <1>7

-----------------------------------------------------------------------------
(* The outflow projection, with and without a simulated bill.              *)
Owing == {b \in OpenBills : positions[b].open > 0}

LEMMA OwingIsAll ==
    ASSUME PayablesInv, NEW S \in SUBSET KnownBills
    PROVE  TotalOpen(S \cap Owing) = TotalOpen(S)
<1>1. PICK T : T = S \cap Owing
  OBVIOUS
<1>2. T \in SUBSET S
  BY <1>1
<1>3. \A b \in S \ T : positions[b].open = 0
  BY <1>1, KnownPosition DEF Owing, OpenBills, KnownBills, Fits
<1> QED
  BY <1>1, <1>2, <1>3, OpenOfRest

LEMMA OpenOfOne ==
    ASSUME PayablesInv, NEW b \in KnownBills
    PROVE  TotalOpen({b}) = positions[b].open
<1>1. PICK f : f = Restrict(OpenOf, {b})
  OBVIOUS
<1>2. f \in [{} \union {b} -> Int] /\ f[b] = positions[b].open
  BY <1>1, OpenSums DEF Restrict, OpenOf
<1>3. SumFunction(f) = f[b] + SumFunction(Restrict(f, {}))
  BY <1>2, FS_EmptySet, SumOfOneMore
<1>4. SumFunction(Restrict(f, {})) = 0
  BY SumOfNone
<1>5. positions[b].open \in Nat /\ {b} \in SUBSET KnownBills
  BY KnownPosition DEF KnownBills
<1> QED
  BY <1>1, <1>2, <1>3, <1>4, <1>5, OpenSums

LEMMA ObligationsOfNone ==
    ASSUME PayablesInv PROVE Obligations({}) = TotalOpen(KnownBills)
<1>1. PICK g : g = [s \in {} |-> s.amount]
  OBVIOUS
<1>2. DOMAIN g = {} /\ g = [s \in {} |-> g[s]]
  BY <1>1
<1>3. SumFunction(g) = 0
  BY <1>2, SumOfNothing
<1>4. {s \in {} : s.amount > 0} = {}
  OBVIOUS
<1>5. {b \in OpenBills : positions[b].open > 0 /\ \A s \in {} : s.bill # b} = KnownBills \cap Owing
  BY DEF Owing, OpenBills, KnownBills
<1>6. Obligations({}) = TotalOpen(KnownBills \cap Owing) + SumFunction(g)
  BY <1>1, <1>4, <1>5 DEF Obligations
<1> QED
  BY <1>3, <1>6, OwingIsAll, OpenSums

LEMMA ObligationsOfOne ==
    ASSUME PayablesInv, NEW b \in Bill
    PROVE  Obligations({[bill |-> b, amount |-> 1]}) =
             TotalOpen(KnownBills) + 1 - (IF Known(b) THEN positions[b].open ELSE 0)
<1>1. PICK s : s = [bill |-> b, amount |-> 1]
  OBVIOUS
<1>2. s.bill = b /\ s.amount = 1
  BY <1>1
<1>3. PICK g : g = [r \in {s} |-> r.amount]
  OBVIOUS
<1>4. SumFunction(g) = 1
  <2>1. g \in [{} \union {s} -> Int] /\ g[s] = 1
    BY <1>2, <1>3
  <2>2. SumFunction(g) = g[s] + SumFunction(Restrict(g, {}))
    BY <2>1, FS_EmptySet, SumOfOneMore
  <2> QED
    BY <2>1, <2>2, SumOfNone
<1>5. {r \in {s} : r.amount > 0} = {s}
  BY <1>2
<1>6. PICK S \in SUBSET KnownBills : S = KnownBills \ {b}
  OBVIOUS
<1>7. {c \in OpenBills : positions[c].open > 0 /\ \A r \in {s} : r.bill # c} = S \cap Owing
  BY <1>2, <1>6 DEF Owing, OpenBills, KnownBills
<1>8. Obligations({s}) = TotalOpen(S \cap Owing) + SumFunction(g)
  BY <1>3, <1>5, <1>7 DEF Obligations
<1>9. Obligations({s}) = TotalOpen(S) + 1 /\ TotalOpen(S) \in Nat /\ TotalOpen(KnownBills) \in Nat
  BY <1>4, <1>6, <1>8, OwingIsAll, OpenSums
<1>10. CASE ~Known(b)
  <2>1. S = KnownBills
    BY <1>6, <1>10 DEF KnownBills
  <2>2. TotalOpen(S) = TotalOpen(KnownBills)
    BY <2>1, Zenon
  <2> QED
    BY <1>1, <1>9, <1>10, <2>2
<1>11. CASE Known(b)
  <2>1. b \in KnownBills /\ {b} \in SUBSET KnownBills /\ S \cap {b} = {} /\ S \union {b} = KnownBills
    BY <1>6, <1>11 DEF KnownBills
  <2>2. TotalOpen(KnownBills) = TotalOpen(S) + TotalOpen({b})
    BY <2>1, OpenSplits
  <2>3. TotalOpen({b}) = positions[b].open
    BY <2>1, OpenOfOne
  <2>4. positions[b].open \in Nat
    BY <1>11, KnownPosition
  <2> QED
    BY <1>1, <1>9, <1>11, <2>2, <2>3, <2>4
<1> QED
  BY <1>10, <1>11

LEMMA ExpensesAreTheBalance ==
    ASSUME PayablesInv, NEW d
    PROVE  Expenses(d) = Balance({x \in EntriesOf(Bill) : x.period <= d}, OfType({"expense"}))
<1>1. PICK dated : dated = {x \in EntriesOf(Bill) : x.period <= d}
  OBVIOUS
<1>2. ASSUME NEW x \in dated
      PROVE  Larger(0, LineBalance(x.lines, OfType({"expense"}))) = LineBalance(x.lines, OfType({"expense"}))
  <2>1. PICK e \in posted : x = BillEntry(e)
    BY <1>1 DEF EntriesOf
  <2>2. PICK n \in Nat : n = LineBalance(x.lines, OfType({"expense"}))
    BY <2>1, PostedBalance
  <2> QED
    BY <2>2 DEF Larger
<1>3. [x \in dated |-> Larger(0, LineBalance(x.lines, OfType({"expense"})))]
        = [x \in dated |-> LineBalance(x.lines, OfType({"expense"}))]
  BY <1>2
<1> QED
  BY <1>1, <1>3 DEF Expenses, Balance

LEMMA ViewsTellTheSame ==
    ASSUME PayablesInv PROVE ViewsAgree
<1>1. PICK days : days = {BillContent[e].period : e \in BillEvent}
  OBVIOUS
<1>2. \A d \in days : d \in Nat
  BY <1>1, BillEventContent
<1>3. PICK open : open = TotalOpen({b \in Bill : Known(b)}) /\ open = TotalOpen(KnownBills)
  BY DEF KnownBills
<1>4. open = SumFunction([v \in Vendor |-> VendorPayableState(v).open])
  BY <1>3, VendorsAddUp
<1>5. \A d \in days :
        OutflowProjection(d, {}) =
          open + Balance({x \in EntriesOf(Bill) : x.period <= d}, OfType({"expense"}))
  BY <1>3, ObligationsOfNone, ExpensesAreTheBalance DEF OutflowProjection
<1>6. \A b \in Bill :
        Obligations({[bill |-> b, amount |-> 1]}) =
          open + 1 - (IF Known(b) THEN positions[b].open ELSE 0)
  BY <1>3, ObligationsOfOne
<1>7. \A v \in Vendor, d \in days :
        /\ VendorDueTracking(v, d).overdue + VendorDueTracking(v, d).due
             + VendorDueTracking(v, d).unknown = VendorPayableState(v).open
        /\ VendorDueTracking(v, d).count <= VendorPayableState(v).countOpen
        /\ \A later \in days :
             d <= later => VendorDueTracking(v, d).overdue <= VendorDueTracking(v, later).overdue
  BY <1>2, BucketsAddUp
<1> QED
  BY <1>1, <1>3, <1>4, <1>5, <1>6, <1>7, Zenon DEF ViewsAgree

-----------------------------------------------------------------------------
(* The control account.  Each posted event moves it by its amount, so its  *)
(* balance for some bills is the sum of what their events moved, and for a *)
(* regular bill that is what the position says.                            *)
Moves(e) == IF BillContent[e].type = "bill.created" THEN BillContent[e].amount
                                                    ELSE 0 - BillContent[e].amount
PostedOf(some) == {e \in posted : BillContent[e].bill \in some}

LEMMA PostedMoves ==
    ASSUME PayablesInv, NEW some
    PROVE  /\ IsFiniteSet(PostedOf(some))
           /\ [e \in PostedOf(some) |-> Moves(e)] \in [PostedOf(some) -> Int]
<1>1. PostedOf(some) \subseteq posted
  BY DEF PostedOf
<1>2. IsFiniteSet(PostedOf(some))
  BY <1>1, FS_Subset DEF PayablesInv
<1>3. \A e \in PostedOf(some) : Moves(e) \in Int
  BY <1>1, BillEventContent DEF PayablesInv, APTypeOK, Moves
<1> QED
  BY <1>2, <1>3

LEMMA BalanceIsWhatMoved ==
    ASSUME PayablesInv, NEW some
    PROVE  Balance(EntriesOf(some), {"accounts_payable"})
             = SumFunction([e \in PostedOf(some) |-> Moves(e)])
<1>1. PICK D, E : D = PostedOf(some) /\ E = EntriesOf(some)
  OBVIOUS
<1>2. PICK g \in [D -> Int] : g = [e \in PostedOf(some) |-> Moves(e)]
  BY <1>1, PostedMoves
<1>3. PICK h : h = [e \in D |-> BillEntry(e)]
  OBVIOUS
<1>4. E = {h[e] : e \in D} /\ h \in [D -> E]
  BY <1>1, <1>3 DEF EntriesOf, PostedOf
<1>5. IsFiniteSet(D) /\ IsFiniteSet(E)
  <2>1. h \in Surjection(D, E)
    BY <1>4 DEF Surjection
  <2> QED
    BY <1>1, <2>1, PostedMoves, FS_Surjection
<1>6. Renames(h, D, E)
  <2>1. \A e \in D : h[e].id = e
    BY <1>3 DEF BillEntry
  <2> QED
    BY <1>4, <2>1 DEF Renames
<1>7. PICK f : f = [x \in E |-> LineBalance(x.lines, {"accounts_payable"})]
  OBVIOUS
<1>8. \A e \in D : g[e] = f[h[e]] /\ f[h[e]] \in Int
  <2> SUFFICES ASSUME NEW e \in D PROVE g[e] = f[h[e]] /\ f[h[e]] \in Int
    OBVIOUS
  <2>1. e \in posted /\ h[e] = BillEntry(e) /\ h[e] \in E
    BY <1>1, <1>3, <1>4 DEF PostedOf
  <2>2. f[h[e]] = Moves(e)
    BY <1>7, <2>1, PostedBalance DEF Moves
  <2>3. g[e] = Moves(e) /\ g[e] \in Int
    BY <1>1, <1>2
  <2> QED
    BY <2>2, <2>3
<1>9. f \in [E -> Int]
  BY <1>4, <1>7, <1>8
<1>10. SumFunction(g) = SumFunction(f)
  BY <1>5, <1>6, <1>8, <1>9, SumRenames
<1> QED
  BY <1>1, <1>2, <1>7, <1>10 DEF Balance

LEMMA RegularBillMoves ==
    ASSUME PayablesInv, NEW b \in Bill, Regular(b)
    PROVE  SumFunction([e \in PostedOf({b}) |-> Moves(e)]) = positions[b].open
<1>1. PICK D : D = PaymentsOf(b) \cap posted
  OBVIOUS
<1>2. D \in SUBSET BillEvent /\ IsFiniteSet(D)
  <2>1. D \subseteq posted
    BY <1>1
  <2> QED
    BY <2>1, FS_Subset DEF PayablesInv, APTypeOK
<1>3. PICK a : ApprovalsOf(b) \cap posted = {a}
  <2>1. PICK A : A = ApprovalsOf(b) \cap posted
    OBVIOUS
  <2>2. Cardinality(A) = 1 /\ IsFiniteSet(A)
    BY <2>1, FS_Subset DEF Regular, PayablesInv
  <2> QED
    BY <2>1, <2>2, FS_Singleton
<1>4. PICK total \in Nat, open \in Nat : total = positions[b].total /\ open = positions[b].open
  BY KnownPosition DEF Regular
<1>5. a \in posted /\ a \in ApprovalsOf(b)
  BY <1>3
<1>6. BillContent[a].type = "bill.created" /\ a \notin D /\ BillContent[a].bill = b
  BY <1>1, <1>5, PostedBalance DEF ApprovalsOf, PaymentsOf
<1>7. BillContent[a].amount = total
  BY <1>3, <1>4 DEF Regular
<1>8. PostedOf({b}) = D \union {a}
  BY <1>1, <1>3, <1>5 DEF PostedOf, PaymentsOf, ApprovalsOf, PayablesInv, APTypeOK
<1>9. PICK f : f = [e \in PostedOf({b}) |-> Moves(e)]
  OBVIOUS
<1>10. f \in [D \union {a} -> Int] /\ f[a] = total
  BY <1>6, <1>7, <1>8, <1>9, PostedMoves DEF Moves
<1>11. SumFunction(f) = total + SumFunction(Restrict(f, D))
  BY <1>2, <1>6, <1>10, SumOfOneMore
<1>12. PICK n \in Nat : n = AmountOf(D)
  BY <1>2, AmountsAdd
<1>13. SumFunction(Restrict(f, D)) = 0 - n
  <2>1. PICK down : down = Restrict(f, D)
    OBVIOUS
  <2>2. PICK up : up = [e \in D |-> BillContent[e].amount]
    OBVIOUS
  <2>3. PICK none : none = [e \in D |-> 0]
    OBVIOUS
  <2>4. AddsPointwise(none, down, up, D)
    <3>1. ASSUME NEW e \in D
          PROVE  down[e] = 0 - BillContent[e].amount /\ BillContent[e].amount \in Nat
      <4>1. e \in BillEvent /\ e \in PostedOf({b}) /\ BillContent[e].type = "bill.paid"
        BY <1>1, <1>2, <1>8 DEF PaymentsOf
      <4>2. f[e] = Moves(e) /\ down[e] = f[e]
        BY <1>9, <2>1, <4>1 DEF Restrict
      <4> QED
        BY <4>1, <4>2, BillEventContent DEF Moves
    <3>2. down = [e \in D |-> down[e]]
      BY <2>1 DEF Restrict
    <3>3. down \in [D -> Int] /\ up \in [D -> Int] /\ none \in [D -> Int]
      BY <2>2, <2>3, <3>1, <3>2
    <3> QED
      BY <1>2, <2>2, <2>3, <3>1, <3>3 DEF AddsPointwise
  <2>5. SumFunction(none) = SumFunction(down) + SumFunction(up)
    BY <2>4, SumAdds
  <2>6. SumFunction(none) = 0
    BY <1>2, <2>3, SumOfZeros
  <2>7. SumFunction(down) \in Int /\ SumFunction(up) = n
    <3>1. down \in [D -> Int]
      BY <2>4 DEF AddsPointwise
    <3> QED
      BY <1>2, <1>12, <2>2, <3>1, SumIsInt DEF AmountOf
  <2> QED
    BY <2>1, <2>5, <2>6, <2>7
<1>14. Counted(b) = D
  BY <1>1 DEF Counted, Regular
<1>15. open = Larger(0, total - n)
  <2>1. AmountOf(Counted(b)) = n
    BY <1>12, <1>14, Zenon
  <2> QED
    BY <1>4, <2>1 DEF PayablesInv, OpenIsRight, Regular
<1>16. n <= total
  BY <1>1, <1>4, <1>12, Zenon DEF Regular
<1> QED
  BY <1>4, <1>9, <1>11, <1>13, <1>15, <1>16 DEF Larger

LEMMA ControlAccountHolds ==
    ASSUME PayablesInv PROVE ControlAccountAgrees
<1>1. PICK R : R = {b \in Bill : Regular(b)}
  OBVIOUS
<1>2. R \in SUBSET KnownBills /\ IsFiniteSet(R)
  <2>1. R \in SUBSET KnownBills
    BY <1>1 DEF Regular, KnownBills
  <2> QED
    BY <2>1, OpenSums, FS_Subset
<1>3. PICK n \in Nat : n = TotalOpen(R)
  BY <1>2, OpenSums
<1>4. TotalOpen(OpenBills \cap R) = n
  <2>1. PICK T : T = OpenBills \cap R
    OBVIOUS
  <2>2. T \in SUBSET R
    BY <2>1
  <2>3. \A b \in R \ T : positions[b].open = 0
    BY <1>2, <2>1, KnownPosition DEF OpenBills, KnownBills, Fits
  <2> QED
    BY <1>2, <1>3, <2>1, <2>2, <2>3, OpenOfRest
<1>5. PICK D : D = PostedOf(R) /\ IsFiniteSet(D)
  BY PostedMoves
<1>6. PICK f \in [D -> Int] : f = [e \in PostedOf(R) |-> Moves(e)]
  BY <1>5, PostedMoves
<1>7. PICK h \in [D -> R] : h = [e \in D |-> BillContent[e].bill]
  BY <1>5 DEF PostedOf
<1>8. SumFunction(f) = SumFunction(FiberSums(f, h, D, R))
  BY <1>2, <1>5, SumOfFibers
<1>9. ASSUME NEW b \in R PROVE SumFunction(Restrict(f, Fiber(h, D, b))) = positions[b].open
  <2>1. Fiber(h, D, b) = PostedOf({b})
    BY <1>5, <1>7 DEF Fiber, PostedOf
  <2>2. Restrict(f, PostedOf({b})) = [e \in PostedOf({b}) |-> Moves(e)]
    BY <1>5, <1>6 DEF Restrict, PostedOf
  <2>3. Regular(b) /\ b \in Bill
    BY <1>1
  <2> QED
    BY <2>1, <2>2, <2>3, RegularBillMoves
<1>10. FiberSums(f, h, D, R) = [b \in R |-> positions[b].open]
  BY <1>9 DEF FiberSums
<1>11. SumFunction(f) = n
  BY <1>3, <1>8, <1>10 DEF TotalOpen
<1>12. Balance(EntriesOf(R), {"accounts_payable"}) = n
  BY <1>6, <1>11, BalanceIsWhatMoved
<1>13. Variance(R) = 0
  BY <1>4, <1>12 DEF Variance
<1> QED
  BY <1>1, <1>13, Zenon DEF ControlAccountAgrees

-----------------------------------------------------------------------------
(***************************************************************************)
(* Taxes.  Rounding is half of the divisor away at most, whatever the      *)
(* signs, so the tax of a line is its rate to the nearest unit.            *)
(***************************************************************************)
LEMMA Quotient ==
    ASSUME NEW n \in Int, NEW m \in Nat \ {0}
    PROVE  n \div m \in Int /\ m * (n \div m) <= n /\ n < m * (n \div m) + m
BY Z3

\* Rates a line can be taxed at.
LineRate == Int \ {-10000}

LEMMA TaxesAreCounted ==
    /\ \A amount \in LineAmount : amount \in Nat
    /\ \A p \in BasisPoints \cup LinePoints \cup {0} : p \in LineRate
<1>1. \A p \in BasisPoints : p \in Nat
  BY TaxAssumption
<1>2. \A p \in Nat : p \in LineRate
  BY DEF LineRate
<1>3. LinePoints \subseteq LineRate
  BY TaxAssumption DEF LineRate
<1>4. 0 \in LineRate
  BY <1>2
<1>5. \A p \in BasisPoints \cup LinePoints \cup {0} : p \in LineRate
  BY <1>1, <1>2, <1>3, <1>4, Zenon
<1> QED
  BY <1>5, TaxAssumption

\* The quotient of a and b to the nearest unit is q.
Nearest(a, b, q) == q \in Int /\ Magnitude(2 * (b * q) - 2 * a) <= Magnitude(b)

LEMMA RoundedHalf ==
    ASSUME NEW a \in Int, NEW b \in Nat \ {0}, NEW q, q = (2 * a + b) \div (2 * b)
    PROVE  Nearest(a, b, q)
<1>1. PICK n \in Int, m \in Nat \ {0} : n = 2 * a + b /\ m = 2 * b
  OBVIOUS
<1>2. PICK r \in Int : r = n \div m /\ m * r <= n /\ n < m * r + m
  BY Quotient
<1>3. q = r
  BY <1>1, <1>2
<1>4. PICK w \in Int : w = b * r
  OBVIOUS
<1>5. m * r = 2 * w
  BY <1>1, <1>4
<1>6. 2 * w - 2 * a <= b /\ 2 * a - 2 * w <= b
  BY <1>1, <1>2, <1>5
<1>7. Magnitude(2 * w - 2 * a) <= b /\ Magnitude(b) = b
  BY <1>6 DEF Magnitude
<1> QED
  BY <1>2, <1>3, <1>4, <1>7 DEF Nearest

LEMMA Rounded ==
    ASSUME NEW a \in Int, NEW b \in Int \ {0} PROVE Nearest(a, b, RoundDiv(a, b))
<1>1. PICK q : q = RoundDiv(a, b)
  OBVIOUS
<1>2. CASE b > 0
  <2>1. q = (2 * a + b) \div (2 * b) /\ b \in Nat \ {0}
    BY <1>1, <1>2 DEF RoundDiv
  <2> QED
    BY <1>1, <2>1, RoundedHalf
<1>3. CASE b < 0
  <2>1. PICK c \in Int, d \in Nat \ {0} : c = 0 - a /\ d = 0 - b
    BY <1>3
  <2>2. 0 - 2 * a - b = 2 * c + d /\ 0 - 2 * b = 2 * d
    BY <2>1
  <2>3. q = (2 * c + d) \div (2 * d)
    BY <1>1, <1>3, <2>2 DEF RoundDiv
  <2>4. Nearest(c, d, q)
    BY <2>3, RoundedHalf
  <2>5. q \in Int
    BY <2>4 DEF Nearest
  <2>6. d * q = 0 - b * q
    BY <2>1, <2>5
  <2>7. PICK w \in Int : w = b * q
    BY <2>5
  <2>8. Magnitude(2 * (0 - w) - 2 * c) <= Magnitude(d)
    BY <2>4, <2>6, <2>7 DEF Nearest
  <2>9. Magnitude(2 * w - 2 * a) <= Magnitude(b)
    BY <1>3, <2>1, <2>8 DEF Magnitude
  <2> QED
    BY <1>1, <2>5, <2>7, <2>9 DEF Nearest
<1> QED
  BY <1>2, <1>3

\* A line as calculateLineTax leaves it.
LineHolds(line) ==
    /\ line.base \in Int /\ line.tax \in Int /\ line.total = line.base + line.tax
    /\ line.code \in TaxCode \cup {NoValue}
    /\ LineIsExact(line)

LEMMA ExclusiveLine ==
    ASSUME NEW amount \in Nat, NEW p \in LineRate, NEW code \in TaxCode \cup {NoValue}
    PROVE  LineHolds(LineTax(amount, p, FALSE, code))
<1>1. PICK product \in Int : product = amount * p
  BY DEF LineRate
<1>2. PICK whole \in Int \ {0} : whole = 10000
  OBVIOUS
<1>3. PICK tax \in Int : tax = RoundDiv(product, whole) /\ Nearest(product, whole, tax)
  BY Rounded DEF Nearest
<1>4. PICK line : line = LineTax(amount, p, FALSE, code)
  OBVIOUS
<1>5. line = [amount |-> amount, code |-> code, points |-> p, inclusive |-> FALSE,
              base |-> amount, tax |-> tax, total |-> amount + tax]
  BY <1>1, <1>2, <1>3, <1>4 DEF LineTax
<1>6. /\ line.base = amount /\ line.tax = tax /\ line.total = amount + tax
      /\ line.code = code /\ line.inclusive = FALSE /\ line.points = p
  BY <1>5
<1>7. RoundingError(line) = Magnitude(2 * (whole * tax) - 2 * product)
  <2>1. 2 * line.base * line.points = 2 * product
    BY <1>1, <1>6 DEF LineRate
  <2>2. 20000 * line.tax = 2 * (whole * tax)
    BY <1>2, <1>6
  <2> QED
    BY <2>1, <2>2 DEF RoundingError
<1>8. RoundingError(line) <= Magnitude(whole)
  BY <1>3, <1>7 DEF Nearest
<1>9. LineIsExact(line)
  BY <1>2, <1>6, <1>8 DEF LineIsExact
<1>10. LineHolds(line)
  BY <1>3, <1>6, <1>9 DEF LineHolds
<1> QED
  BY <1>4, <1>10, Zenon

LEMMA InclusiveLine ==
    ASSUME NEW amount \in Nat, NEW p \in LineRate, NEW code \in TaxCode \cup {NoValue}
    PROVE  LineHolds(LineTax(amount, p, TRUE, code))
<1>1. PICK whole \in Int \ {0} : whole = 10000 + p
  BY DEF LineRate
<1>2. PICK all \in Int : all = amount * 10000
  OBVIOUS
<1>3. PICK base \in Int : base = RoundDiv(all, whole) /\ Nearest(all, whole, base)
  BY Rounded DEF Nearest
<1>4. PICK tax \in Int : tax = amount - base
  OBVIOUS
<1>5. PICK line : line = LineTax(amount, p, TRUE, code)
  OBVIOUS
<1>6. line = [amount |-> amount, code |-> code, points |-> p, inclusive |-> TRUE,
              base |-> base, tax |-> tax, total |-> amount]
  BY <1>1, <1>2, <1>3, <1>4, <1>5 DEF LineTax
<1>7. /\ line.base = base /\ line.tax = tax /\ line.total = amount /\ line.amount = amount
      /\ line.code = code /\ line.inclusive = TRUE /\ line.points = p
  BY <1>6
<1>8. RoundingError(line) = Magnitude(2 * (whole * base) - 2 * all)
  <2>1. PICK share \in Int : share = base * p
    BY DEF LineRate
  <2>2. PICK product \in Int : product = whole * base /\ product = 10000 * base + share
    BY <1>1, <2>1 DEF LineRate
  <2>3. 2 * line.base * line.points = 2 * share
    BY <1>7, <2>1 DEF LineRate
  <2>4. 20000 * line.tax = 2 * all - 20000 * base
    BY <1>2, <1>4, <1>7
  <2>5. PICK twice \in Int, given \in Int : twice = 2 * product /\ given = 2 * all
    OBVIOUS
  <2>6. 20000 * line.tax - 2 * line.base * line.points = given - twice
    BY <2>2, <2>3, <2>4, <2>5
  <2>7. RoundingError(line) = Magnitude(given - twice)
    BY <2>6 DEF RoundingError
  <2>8. Magnitude(given - twice) = Magnitude(twice - given)
    BY DEF Magnitude
  <2> QED
    BY <2>2, <2>5, <2>7, <2>8
<1>9. RoundingError(line) <= Magnitude(whole)
  BY <1>3, <1>8 DEF Nearest
<1>10. LineIsExact(line)
  BY <1>1, <1>7, <1>9 DEF LineIsExact
<1>11. line.total = line.base + line.tax
  BY <1>4, <1>7
<1>12. LineHolds(line)
  BY <1>3, <1>7, <1>10, <1>11, <1>4 DEF LineHolds
<1> QED
  BY <1>5, <1>12, Zenon

-----------------------------------------------------------------------------
\* The lines a document can have.
Taxed == {line \in {LineTax(amount, p, inclusive, code) :
                      amount \in LineAmount, p \in BasisPoints \cup LinePoints \cup {0},
                      inclusive \in BOOLEAN, code \in TaxCode \cup {NoValue}} : LineHolds(line)}

TaxInv ==
    /\ rates \in [RateId -> Rate \cup {NoValue}]
    /\ document \in Seq(Taxed)

LEMMA TaxInvStarts == TaxInit => TaxInv
BY DEF TaxInit, TaxInv

LEMMA TaxInvKeeps == TaxInv /\ [TaxNext]_taxVars => TaxInv'
<1> SUFFICES ASSUME TaxInv, [TaxNext]_taxVars PROVE TaxInv'
  OBVIOUS
<1>1. CASE UNCHANGED taxVars
  BY <1>1 DEF TaxInv, taxVars
<1>2. ASSUME NEW id \in RateId, NEW rate \in Rate, UpsertTaxRate(id, rate) PROVE TaxInv'
  BY <1>2 DEF TaxInv, UpsertTaxRate
<1>3. ASSUME NEW jurisdiction \in Jurisdiction, NEW day \in TaxDay, NEW amount \in LineAmount,
             NEW code \in TaxCode \cup {NoValue}, NEW points \in LinePoints \cup {NoValue},
             NEW inclusive \in {TRUE, FALSE, NoValue},
             AddTaxedLine(jurisdiction, day, amount, code, points, inclusive)
      PROVE  TaxInv'
  <2> DEFINE found == RatesFor(jurisdiction, code, day)
             or(given, field, default) ==
               IF given # NoValue THEN {given}
               ELSE IF found = {} THEN {default}
               ELSE {rates[id][field] : id \in found}
  <2>1. PICK p \in or(points, "points", 0), i \in or(inclusive, "inclusive", FALSE) :
          document' = Append(document, LineTax(amount, p, i, code))
    BY <1>3, Zenon DEF AddTaxedLine
  <2>2. \A id \in found : id \in RateId /\ rates[id] \in Rate
    BY DEF RatesFor, InForce, TaxInv
  <2>3. \A id \in found : rates[id]["points"] \in BasisPoints /\ rates[id]["inclusive"] \in BOOLEAN
    BY <2>2 DEF Rate
  <2>4. p \in BasisPoints \cup LinePoints \cup {0}
    BY <2>3
  <2>5. i \in BOOLEAN
    BY <2>3
  <2> HIDE DEF found, or
  <2>6. amount \in Nat /\ p \in LineRate
    <3>1. amount \in Nat
      BY TaxesAreCounted
    <3>2. p \in LineRate
      BY <2>4, TaxesAreCounted
    <3> QED
      BY <3>1, <3>2
  <2>7. LineHolds(LineTax(amount, p, i, code))
    <3>1. CASE i = TRUE
      BY <2>6, <3>1, InclusiveLine, Zenon
    <3>2. CASE i = FALSE
      BY <2>6, <3>2, ExclusiveLine, Zenon
    <3> QED
      BY <2>5, <3>1, <3>2
  <2>8. LineTax(amount, p, i, code) \in Taxed
    BY <2>4, <2>5, <2>7 DEF Taxed
  <2>9. rates' = rates
    BY <1>3, Zenon DEF AddTaxedLine
  <2>10. document' \in Seq(Taxed)
    <3>1. PICK line \in Taxed : line = LineTax(amount, p, i, code)
      BY <2>8
    <3> QED
      BY <2>1, <3>1 DEF TaxInv
  <2> QED
    BY <2>9, <2>10 DEF TaxInv
<1> QED
  BY <1>1, <1>2, <1>3, Zenon DEF TaxNext

LEMMA TaxInvTypes == TaxInv => TaxTypeOK
<1> SUFFICES ASSUME TaxInv PROVE TaxTypeOK
  OBVIOUS
<1>1. ASSUME NEW k \in DOMAIN document
      PROVE  /\ {document[k].base, document[k].tax, document[k].total} \subseteq Int
             /\ document[k].code \in TaxCode \cup {NoValue}
  <2>1. PICK line : line = document[k] /\ line \in Taxed
    BY DEF TaxInv
  <2>2. line.base \in Int /\ line.tax \in Int /\ line.total = line.base + line.tax /\ line.code \in TaxCode \cup {NoValue}
    BY <2>1 DEF Taxed, LineHolds
  <2> QED
    BY <2>1, <2>2
<1> QED
  BY <1>1 DEF TaxInv, TaxTypeOK

\* The groups by tax code hold the tax of the lines that have a code: a line
\* that is left out of them has no tax.
LEMMA GroupsHoldTheTax ==
    ASSUME IsFiniteSet(DOMAIN document), \A k \in DOMAIN document : document[k].tax \in Int
    PROVE  SumFunction([g \in ByTaxCode |-> g.tax])
             = SumFunction([k \in {k \in DOMAIN document : document[k].code # NoValue} |-> document[k].tax])
<1>1. PICK C : C = {k \in DOMAIN document : document[k].code # NoValue}
  OBVIOUS
<1>2. PICK S : S = {k \in DOMAIN document : document[k].code # NoValue /\ document[k].tax # 0}
  OBVIOUS
<1>3. IsFiniteSet(C) /\ S \in SUBSET C /\ IsFiniteSet(S) /\ S \subseteq DOMAIN document
  <2>1. C \subseteq DOMAIN document /\ S \subseteq C /\ S \subseteq DOMAIN document
    BY <1>1, <1>2
  <2> QED
    BY <2>1, FS_Subset
<1>4. PICK f \in [C -> Int] : f = [k \in C |-> document[k].tax]
  BY <1>1
<1>5. SumFunction(f) = SumFunction(Restrict(f, S))
  <2>1. \A k \in C \ S : f[k] = 0
    BY <1>1, <1>2, <1>4
  <2> QED
    BY <1>3, <1>4, <2>1, SumLeavesOutZeros
<1>6. PICK taxes \in [S -> Int] : taxes = Restrict(f, S) /\ taxes = [k \in S |-> document[k].tax]
  BY <1>3, <1>4 DEF Restrict
<1>7. PICK h : h = [k \in S |-> <<document[k].code, document[k].points>>]
  OBVIOUS
<1>8. PICK E : E = {h[k] : k \in S}
  OBVIOUS
<1>9. IsFiniteSet(E) /\ h \in [S -> E]
  <2>1. h \in [S -> E]
    BY <1>7, <1>8
  <2>2. \A e \in E : \E k \in S : h[k] = e
    BY <1>8
  <2>3. h \in Surjection(S, E)
    BY <2>1, <2>2 DEF Surjection
  <2> QED
    BY <1>3, <2>1, <2>3, FS_Surjection
<1>10. PICK sums \in [E -> Int] : sums = FiberSums(taxes, h, S, E)
  BY <1>3, <1>6, <1>9, FiberSumsAreInt
<1>11. SumFunction(taxes) = SumFunction(sums)
  BY <1>3, <1>6, <1>9, <1>10, SumOfFibers
<1>12. PICK of : of = [e \in E |-> Fiber(h, S, e)]
  OBVIOUS
<1>13. PICK group : group = [e \in E |-> [key |-> e, tax |-> SumFunction([k \in of[e] |-> document[k].tax]),
                                          base |-> SumFunction([k \in of[e] |-> document[k].base])]]
  OBVIOUS
<1>14. ByTaxCode = {group[e] : e \in E}
  <2> DEFINE grouped == {k \in DOMAIN document : document[k].code # NoValue /\ document[k].tax # 0}
             key(k) == <<document[k].code, document[k].points>>
             theirs(g) == {k \in grouped : key(k) = g}
             record(g) == [key |-> g, tax |-> SumFunction([k \in theirs(g) |-> document[k].tax]),
                           base |-> SumFunction([k \in theirs(g) |-> document[k].base])]
  <2>1. grouped = S /\ (\A k \in S : key(k) = h[k])
    BY <1>2, <1>7
  <2>2. {key(k) : k \in grouped} = E
    <3> HIDE DEF key, grouped
    <3>1. \A k \in grouped : key(k) = h[k]
      BY <2>1, Zenon
    <3>2. E = {h[k] : k \in grouped}
      BY <1>8, <2>1, Zenon
    <3> QED
      BY <3>1, <3>2
  <2>3. ASSUME NEW e \in E PROVE record(e) = group[e]
    <3>1. theirs(e) = of[e]
      BY <1>12, <2>1 DEF Fiber
    <3> QED
      BY <1>13, <3>1, Zenon
  <2>4. ByTaxCode = {record(g) : g \in {key(k) : k \in grouped}}
    BY Zenon DEF ByTaxCode
  <2> HIDE DEF record, key, grouped
  <2> QED
    BY <2>2, <2>3, <2>4
<1>15. PICK G : G = ByTaxCode
  OBVIOUS
<1>16. \A e \in E : group[e].key = e /\ group[e].tax = sums[e]
  <2> SUFFICES ASSUME NEW e \in E PROVE group[e].key = e /\ group[e].tax = sums[e]
    OBVIOUS
  <2>1. group[e].key = e /\ group[e].tax = SumFunction([k \in of[e] |-> document[k].tax])
    BY <1>13
  <2>2. PICK F : F = Fiber(h, S, e)
    OBVIOUS
  <2>3. Restrict(taxes, F) = [k \in F |-> document[k].tax]
    BY <1>6, <2>2 DEF Restrict, Fiber
  <2>4. of[e] = F /\ sums[e] = SumFunction(Restrict(taxes, F))
    BY <1>10, <1>12, <2>2 DEF FiberSums
  <2> QED
    BY <2>1, <2>3, <2>4, Zenon
<1>17. Renames(group, E, G)
  <2>1. DOMAIN group = E /\ group = [e \in E |-> group[e]]
    BY <1>13
  <2>2. G = {group[e] : e \in E}
    BY <1>14, <1>15
  <2>3. \A d, e \in E : group[d] = group[e] => d = e
    BY <1>16, Zenon
  <2> QED
    BY <2>1, <2>2, <2>3 DEF Renames
<1>18. IsFiniteSet(G)
  <2>1. group \in Surjection(E, G)
    BY <1>17 DEF Renames, Surjection
  <2> QED
    BY <1>9, <2>1, FS_Surjection
<1>19. PICK t \in [G -> Int] : t = [g \in G |-> g.tax]
  <2>1. \A g \in G : g.tax \in Int
    BY <1>14, <1>15, <1>16
  <2> QED
    BY <2>1
<1>20. SumFunction(sums) = SumFunction(t)
  <2>1. \A e \in E : sums[e] = t[group[e]]
    BY <1>14, <1>15, <1>16, <1>19
  <2> QED
    BY <1>9, <1>10, <1>17, <1>18, <1>19, <2>1, SumRenames
<1> QED
  BY <1>1, <1>4, <1>5, <1>6, <1>11, <1>15, <1>19, <1>20, Zenon

LEMMA TaxInvAddsUp == TaxInv => TaxAddsUp
<1> SUFFICES ASSUME TaxInv PROVE TaxAddsUp
  OBVIOUS
<1>1. PICK D : D = DOMAIN document
  OBVIOUS
<1>2. IsFiniteSet(D) /\ \A k \in D : LineHolds(document[k])
  <2>1. PICK n \in Nat : D = 1 .. n
    BY <1>1 DEF TaxInv
  <2>2. IsFiniteSet(D)
    BY <2>1, FS_Interval
  <2> QED
    BY <1>1, <2>2 DEF TaxInv, Taxed
<1>3. \A k \in D : /\ document[k].base \in Int /\ document[k].tax \in Int /\ document[k].total \in Int
                    /\ document[k].total = document[k].base + document[k].tax
  BY <1>2 DEF LineHolds
<1>4. DocumentTax.total = DocumentTax.subtotal + DocumentTax.tax
  <2>1. PICK h : h = [k \in D |-> document[k].total]
    OBVIOUS
  <2>2. PICK f : f = [k \in D |-> document[k].base]
    OBVIOUS
  <2>3. PICK g : g = [k \in D |-> document[k].tax]
    OBVIOUS
  <2>4. AddsPointwise(h, f, g, D)
    BY <1>2, <1>3, <2>1, <2>2, <2>3 DEF AddsPointwise
  <2>5. SumFunction(h) = SumFunction(f) + SumFunction(g)
    BY <2>4, SumAdds
  <2>6. DocumentTax.total = SumFunction(h) /\ DocumentTax.subtotal = SumFunction(f) /\ DocumentTax.tax = SumFunction(g)
    BY <1>1, <2>1, <2>2, <2>3 DEF DocumentTax, LineSum
  <2> QED
    BY <2>5, <2>6, Zenon
<1>5. \A k \in DOMAIN document : LineIsExact(document[k])
  BY <1>1, <1>2, Zenon DEF LineHolds
<1>6. SumFunction([g \in ByTaxCode |-> g.tax])
         = SumFunction([k \in {k \in DOMAIN document : document[k].code # NoValue} |-> document[k].tax])
  BY <1>2, <1>3, <1>1, GroupsHoldTheTax, Zenon
<1> QED
  BY <1>4, <1>5, <1>6 DEF TaxAddsUp

-----------------------------------------------------------------------------
(***************************************************************************)
(* Types.  Where the invariant of a module does not hold the types of its  *)
(* variables, they are kept beside it.                                     *)
(***************************************************************************)
LEMMA ApprovalTypes == OverridesInv /\ ItemsInv /\ resent \subseteq Item
                         => ApprovalsTypeOK /\ ReconciliationTypeOK
<1> SUFFICES ASSUME OverridesInv, ItemsInv, resent \subseteq Item
             PROVE  ApprovalsTypeOK /\ ReconciliationTypeOK
  OBVIOUS
<1>1. ApprovalsTypeOK
  BY DEF OverridesInv, ApprovalsInv, ApprovalsTypeOK
<1>2. matches \subseteq SUBSET Item
  BY DEF ItemsInv
<1> QED
  BY <1>1, <1>2 DEF OverridesInv, ItemsInv, ReconciliationTypeOK

LEMMA PollingTypes == PollingInv => PollingTypeOK
<1> SUFFICES ASSUME PollingInv PROVE PollingTypeOK
  OBVIOUS
<1>1. \A p \in Pull :
        \/ pulls[p] = Idle
        \/ pulls[p].phase = "asked" /\ pulls[p].cursor \in Cursor
        \/ /\ pulls[p].phase = "answered"
           /\ pulls[p].cursor \in Cursor /\ pulls[p].upto \in Cursor
           /\ pulls[p].next \in Cursor \cup {NoCursor}
  BY DEF PollingInv, PullState
<1> QED
  BY <1>1 DEF PollingInv, PollingTypeOK

LEMMA IngestionTypes == IngestionInv => IngestionTypeOK
<1> SUFFICES ASSUME IngestionInv PROVE IngestionTypeOK
  OBVIOUS
<1>1. \A k \in DOMAIN kept : kept[k] \in Inbound \cup Anonymous
  BY DEF IngestionInv, Deliverable
<1>2. ASSUME NEW a \in answers
      PROVE  a.channel \in Channel /\ {a.delivery, a.answer} \subseteq Inbound \cup Anonymous
  <2>1. PICK c \in Channel, d \in Deliverable :
          KeyOf(c, d) \in DOMAIN kept /\ a = Answered(c, d, kept[KeyOf(c, d)])
    BY DEF IngestionInv
  <2>2. a.channel = c /\ a.delivery = d /\ a.answer = kept[KeyOf(c, d)]
    BY <2>1 DEF Answered
  <2> QED
    BY <1>1, <2>1, <2>2 DEF Deliverable
<1> QED
  BY <1>1, <1>2 DEF IngestionInv, IngestionTypeOK

LEMMA BalanceTypes == BalancesInv => BalancesTypeOK
<1> SUFFICES ASSUME BalancesInv PROVE BalancesTypeOK
  OBVIOUS
<1>1. DOMAIN eventDeltas = {EventDeltaKey(e) : e \in Naming}
  BY DEF BalancesInv
<1>2. ASSUME NEW e \in Naming
      PROVE  EventDeltaKey(e) \in BalanceCustomer \X {"invoice.created", "payment.received"}
                                    \X {d.id : d \in BalanceEvent}
  <2>1. e \in BalanceEvent /\ e.customer \in BalanceCustomer
    BY BalancesAssumption DEF BalancesInv, Naming
  <2> QED
    BY <2>1 DEF EventDeltaKey
<1> QED
  BY <1>1, <1>2 DEF BalancesInv, BalancesTypeOK

LEMMA BusTypes == BusInv => BusTypeOK
<1> SUFFICES ASSUME BusInv, NEW s \in Subscriber
             PROVE  Cardinality(busSubscriptions[s].current) <= 1
  BY DEF BusInv, BusTypeOK
<1>1. PICK r : r = busSubscriptions[s]
  OBVIOUS
<1>2. PICK rest : \A e \in r.current : rest # <<>> /\ e = Head(rest)
  BY <1>1 DEF BusInv, SubscriptionHolds, SubscriptionInv, Follows
<1>3. r.current \in SUBSET {Head(rest)}
  BY <1>2
<1>4. IsFiniteSet({Head(rest)}) /\ Cardinality({Head(rest)}) = 1
  BY FS_Singleton
<1> QED
  BY <1>1, <1>3, <1>4, FS_Subset

\* The log holds as many ids as events, all of a type of the catalog, and the
\* consumers have handled nothing that was not published.
LogTypes ==
    /\ exposed \subseteq published /\ published \subseteq LoggedEvent
    /\ handled \in Seq(LoggedEvent) /\ ToSet(handled) \subseteq published
    /\ referenced \subseteq IdsOf(published)

LEMMA EventLogTypes == EventLogInv /\ LogTypes => LogTypeOK
<1> SUFFICES ASSUME EventLogInv, LogTypes PROVE LogTypeOK
  OBVIOUS
<1>1. PICK s \in Seq(LoggedEvent) : s = log /\ SoundLog(s)
  BY DEF EventLogInv, SoundLog
<1>2. \A n \in DOMAIN s : s[n].id \in EventId /\ s[n].type \in EventType
  <2>1. \A e \in LoggedEvent : e.id \in EventId /\ e.type \in EventType
    BY InputAssumption DEF LoggedEvent, NewEvent
  <2> QED
    BY <1>1, <2>1
<1>3. PICK T : T = Ids
  OBVIOUS
<1>4. T = {s[n].id : n \in DOMAIN s}
  BY <1>1, <1>3 DEF Ids, IdsOf, ToSet
<1>5. Cardinality(T) = Len(s)
  <2>1. PICK f : f = [n \in 1 .. Len(s) |-> s[n].id]
    OBVIOUS
  <2>2. f \in [1 .. Len(s) -> T] /\ \A i \in T : \E n \in 1 .. Len(s) : f[n] = i
    BY <1>1, <1>4, <2>1
  <2>3. \A m, n \in 1 .. Len(s) : f[m] = f[n] => m = n
    BY <1>1, <2>1 DEF SoundLog
  <2>4. f \in Bijection(1 .. Len(s), T)
    BY <2>2, <2>3 DEF Bijection, Injection, Surjection, IsInjective
  <2>5. ExistsBijection(1 .. Len(s), T)
    BY <2>4 DEF ExistsBijection
  <2> QED
    BY <1>1, <2>5, FS_CountingElements
<1>6. T \subseteq EventId
  BY <1>2, <1>4
<1> QED
  BY <1>1, <1>2, <1>3, <1>5, <1>6 DEF EventLogInv, LogTypes, LogTypeOK

\* What is published are logged events, whoever published them.
LEMMA AnnounceTypes ==
    ASSUME LogTypes, NEW e \in LoggedEvent, NEW inside \in BOOLEAN, Announce(e, inside),
           UNCHANGED <<handled, referenced>>
    PROVE  LogTypes'
<1>1. published \subseteq published' /\ published' \subseteq LoggedEvent /\ exposed' \subseteq published'
  BY DEF Announce, LogTypes
<1>2. IdsOf(published) \subseteq IdsOf(published')
  BY <1>1 DEF IdsOf
<1> QED
  BY <1>1, <1>2 DEF LogTypes

LEMMA LogTypesKeep == ASSUME EventLogInv, LogTypes, LogNext PROVE LogTypes'
<1>0. ToSet(log) \subseteq LoggedEvent
  BY DEF EventLogInv, SoundLog, ToSet
<1>1. ASSUME NEW input \in Input, NEW inside \in BOOLEAN, LogEvent(input, inside) PROVE LogTypes'
  <2>1. PICK e : /\ Announce(e, inside)
                 /\ e \in Existing(input) \/ \E id \in EventId : e = NewEvent(input, id)
    BY <1>1 DEF LogEvent
  <2>2. e \in LoggedEvent
    BY <1>0, <1>1, <2>1 DEF LogEvent, Existing, LoggedEvent
  <2> QED
    BY <1>1, <2>1, <2>2, AnnounceTypes DEF LogEvent
<1>2. ASSUME CreateSnapshot \/ RestoreSnapshot PROVE LogTypes'
  BY <1>2 DEF CreateSnapshot, RestoreSnapshot, LogTypes
<1>3. ASSUME Commit PROVE LogTypes'
  <2>1. /\ published' = published \cup outbox /\ exposed' = exposed \ ToSet(log)
        /\ outbox \subseteq LoggedEvent /\ UNCHANGED <<handled, referenced>>
    BY <1>0, <1>3 DEF Commit, EventLogInv
  <2>2. IdsOf(published) \subseteq IdsOf(published')
    BY <2>1 DEF IdsOf
  <2> QED
    BY <2>1, <2>2 DEF LogTypes
<1>4. ASSUME NEW e \in published, Project(e) PROVE LogTypes'
  <2>1. handled' = Append(handled, e) /\ UNCHANGED <<published, exposed, referenced>>
    BY <1>4 DEF Project
  <2>2. ToSet(handled') = ToSet(handled) \union {e} /\ handled' \in Seq(LoggedEvent)
    BY <1>4, <2>1, AppendElements DEF LogTypes
  <2> QED
    BY <1>4, <2>1, <2>2 DEF LogTypes
<1>5. ASSUME NEW e \in published, PostReference(e) PROVE LogTypes'
  <2>1. referenced' = referenced \cup {e.id} /\ UNCHANGED <<published, exposed, handled>>
    BY <1>5 DEF PostReference
  <2> QED
    BY <1>5, <2>1 DEF LogTypes, IdsOf
<1> QED
  BY <1>1, <1>2, <1>3, <1>4, <1>5 DEF LogNext

\* Every invoice that is under way or there was billed to a subscription on
\* a date.
SubscriptionTypes ==
    /\ \A i \in pending \cup invoiced : i.of \in Subscription /\ i.date \in Nat
    /\ patched \in [Subscription -> 0 .. MaxPatches]

LEMMA SubscriptionTypesHold ==
    SubscriptionsInv /\ SubscriptionTypes => SubscriptionsTypeOK
<1> SUFFICES ASSUME SubscriptionsInv, SubscriptionTypes PROVE SubscriptionsTypeOK
  OBVIOUS
<1>1. \A s \in Subscription : subscriptions[s] \in Schedule /\ billed[s] \in Seq(Nat)
  BY DEF SubscriptionsInv
<1>2. \A s \in Subscription :
        /\ subscriptions[s].status \in SubscriptionStatus
        /\ subscriptions[s].frequency \in Frequency
        /\ {subscriptions[s].end, subscriptions[s].next} \subseteq OptionalDate
  BY <1>1 DEF Schedule
<1> QED
  BY <1>1, <1>2 DEF SubscriptionsInv, SubscriptionTypes, SubscriptionsTypeOK

LEMMA SubscriptionTypesKeep ==
    ASSUME SubscriptionsInv, SubscriptionTypes, SubscriptionsNext PROVE SubscriptionTypes'
<1>0. MaxPatches \in Nat \ {0} /\ patched \in [Subscription -> 0 .. MaxPatches]
  BY SubscriptionsAssumption DEF SubscriptionTypes
<1>1. ASSUME NEW s \in Subscription, NEW status, NEW start, NEW next, NEW end, NEW f,
             CreateSubscription(s, status, start, end, next, f)
      PROVE  SubscriptionTypes'
  BY <1>0, <1>1 DEF CreateSubscription, SubscriptionTypes
<1>2. ASSUME NEW s \in Subscription, NEW next, NEW end, NEW f, UpdateSubscription(s, end, next, f)
      PROVE  SubscriptionTypes'
  <2>1. PICK n \in 0 .. MaxPatches : patched' = [patched EXCEPT ![s] = n]
    <3>1. PICK m \in 0 .. MaxPatches : m = patched[s]
      BY <1>0
    <3>2. \/ patched' = [patched EXCEPT ![s] = m]
          \/ m < MaxPatches /\ patched' = [patched EXCEPT ![s] = m + 1]
      BY <1>2, <3>1 DEF UpdateSubscription
    <3>3. m < MaxPatches => m + 1 \in 0 .. MaxPatches
      BY <1>0
    <3> QED
      BY <3>2, <3>3
  <2> QED
    BY <1>0, <1>2, <2>1 DEF UpdateSubscription, SubscriptionTypes
<1>3. ASSUME (\E s \in Subscription : CancelSubscription(s)) \/ NextDay PROVE SubscriptionTypes'
  BY <1>3 DEF CancelSubscription, NextDay, SubscriptionTypes
<1>4. ASSUME NEW afternoon \in BOOLEAN, RunDailyJob(afternoon) PROVE SubscriptionTypes'
  <2>1. PICK due : due = {s \in Subscription : IsDue(s, afternoon)}
    OBVIOUS
  <2>2. PICK dates : dates = [s \in Subscription |-> IF s \in due THEN DatesDue(subscriptions[s]) ELSE <<>>]
    OBVIOUS
  <2>3. /\ pending' = pending \cup UNION {{[of |-> s, date |-> dates[s][k], lineTax |-> 0] :
                                            k \in DOMAIN dates[s]} : s \in due}
        /\ UNCHANGED <<invoiced, patched>>
    BY <1>4, <2>1, <2>2 DEF RunDailyJob
  <2>4. ASSUME NEW s \in due PROVE dates[s] \in Seq(Nat)
    <3>1. PICK r \in Schedule : r = subscriptions[s]
      BY <2>1 DEF SubscriptionsInv
    <3>2. r.next # NoDate /\ r.next <= today /\ s \in Subscription
      BY <2>1, <3>1 DEF IsDue
    <3>3. PICK q : q = DatesDue(r)
      OBVIOUS
    <3>4. PICK next : next = NextDate(r)
      OBVIOUS
    <3>5. PICK done \in Seq(Nat) : done = billed[s]
      BY <3>2 DEF SubscriptionsInv
    <3>6. q \in Seq(Nat)
      BY <3>2, <3>3, <3>4, JobFollows DEF SubscriptionsInv
    <3> QED
      BY <2>2, <3>1, <3>2, <3>3, <3>6
  <2>5. \A i \in pending' : i.of \in Subscription /\ i.date \in Nat
    <3> SUFFICES ASSUME NEW i \in pending' \ pending PROVE i.of \in Subscription /\ i.date \in Nat
      BY DEF SubscriptionTypes
    <3>1. PICK s \in due : i \in {[of |-> s, date |-> dates[s][k], lineTax |-> 0] : k \in DOMAIN dates[s]}
      BY <2>3
    <3>2. PICK k \in DOMAIN dates[s] : i = [of |-> s, date |-> dates[s][k], lineTax |-> 0]
      BY <3>1
    <3>3. dates[s][k] \in Nat
      BY <2>4, <3>2
    <3> QED
      BY <2>1, <3>2, <3>3
  <2> QED
    BY <2>3, <2>5 DEF SubscriptionTypes
<1>5. ASSUME NEW i \in pending, SettleInvoice(i) PROVE SubscriptionTypes'
  BY <1>5 DEF SettleInvoice, SubscriptionTypes
<1> QED
  BY <1>1, <1>2, <1>3, <1>4, <1>5 DEF SubscriptionsNext

-----------------------------------------------------------------------------
\* The customers and whom a walk names are there.
CustomerTypes ==
    /\ Len(customers) <= MaxCustomers /\ millis <= MaxMillis
    /\ \A i \in 1 .. Len(customers) : customers[i].created <= MaxMillis
    /\ walk.shown \cup walk.expected \subseteq DOMAIN customers

LEMMA CustomerTypesHold == CustomersInv /\ CustomerTypes => CustomersTypeOK
<1> SUFFICES ASSUME CustomersInv, CustomerTypes PROVE CustomersTypeOK
  OBVIOUS
<1>1. \A i \in 1 .. Len(customers) :
        /\ customers[i].name \in Name \cup {NoName} /\ customers[i].created \in Nat
        /\ customers[i].deleted \in BOOLEAN
  <2>1. \A i \in 1 .. Len(customers) : customers[i] \in CustomerRecord
    BY DEF CustomersInv
  <2> QED
    BY <2>1 DEF CustomerRecord
<1>2. \A i \in 1 .. Len(customers) : customers[i].created \in 0 .. MaxMillis
  BY <1>1, CustomersAssumption DEF CustomerTypes
<1>3. walk.offset \in Nat /\ walk.hasMore \in BOOLEAN /\ walk.disturbed \in BOOLEAN
  BY DEF CustomersInv, IsWalk
<1> QED
  BY <1>1, <1>2, <1>3 DEF CustomerTypes, CustomersTypeOK

\* Every place of the list has a customer who matches.
LEMMA ScopedMatches ==
    ASSUME customers \in Seq(CustomerRecord), NEW search, NEW k \in DOMAIN Scoped(search)
    PROVE  Scoped(search)[k] \in Matches(search)
<1>0. PICK M : M = Matches(search)
  OBVIOUS
<1>1. PICK n \in Nat : M = Matches(search) /\ n = Cardinality(M)
  BY <1>0, MatchesAreFinite
<1>2. PICK f : f = [i \in M |-> Place(i, search)]
  OBVIOUS
<1>3. f \in [M -> 1 .. n]
  BY <1>1, <1>2, PlaceIsOne
<1>4. ASSUME NEW i \in M, NEW j \in M, f[i] = f[j] PROVE i = j
  <2>1. Scoped(search)[Place(i, search)] = i /\ Scoped(search)[Place(j, search)] = j
    BY <1>1, ScopedAtPlace
  <2> QED
    BY <1>2, <1>4, <2>1
<1>5. f \in Injection(M, 1 .. n)
  BY <1>3, <1>4 DEF Injection, IsInjective
<1>6. IsFiniteSet(1 .. n) /\ Cardinality(1 .. n) = n
  BY FS_Interval
<1>7. f \in Surjection(M, 1 .. n)
  BY <1>1, <1>5, <1>6, FS_Injection
<1>8. k \in 1 .. n /\ Scoped(search)[k] = CHOOSE i \in M : Place(i, search) = k
  BY <1>1 DEF Scoped
<1>9. PICK i \in M : Place(i, search) = k
  BY <1>2, <1>7, <1>8 DEF Surjection
<1> QED
  BY <1>1, <1>8, <1>9

LEMMA LeastOfTwo == ASSUME NEW a \in Int, NEW b \in Int PROVE Min({a, b}) = IF a <= b THEN a ELSE b
BY DEF Min

LEMMA PageShowsMatches ==
    ASSUME CustomersInv, NEW w, IsWalk(w), NEW offset \in Nat, ListCustomers(w, offset)
    PROVE  walk'.shown \subseteq w.shown \cup Matches(w.search)
<1>1. PICK s, last : s = Scoped(w.search) /\ last = Min({offset + Limit, Len(s)})
  OBVIOUS
<1>2. PICK n \in Nat : n = Cardinality(Matches(w.search))
  BY MatchesAreFinite DEF CustomersInv
<1>3. s \in Seq(Matches(w.search)) /\ Len(s) = n
  <2>1. s = [k \in 1 .. n |-> s[k]] /\ DOMAIN s = 1 .. n
    BY <1>1, <1>2 DEF Scoped
  <2>2. \A k \in 1 .. n : s[k] \in Matches(w.search)
    BY <1>1, <2>1, ScopedMatches DEF CustomersInv
  <2> QED
    BY <2>1, <2>2
<1>4. last \in Int /\ last <= n
  <2>1. offset + Limit \in Nat
    BY CustomersAssumption
  <2> QED
    BY <1>1, <1>3, <2>1, LeastOfTwo
<1>5. ToSet(SubSeq(s, offset + 1, last)) \subseteq Matches(w.search)
  <2>1. SubSeq(s, offset + 1, last) \in Seq(Matches(w.search))
    BY <1>3, <1>4, SubSeqProperties
  <2> QED
    BY <2>1 DEF ToSet
<1>6. PICK rows : rows = ToSet(SubSeq(s, offset + 1, last))
  OBVIOUS
<1>7. walk' = [w EXCEPT !.shown = w.shown \cup rows, !.hasMore = HasMore(offset, Len(s)),
                        !.offset = offset + Limit]
  BY <1>1, <1>6, Zenon DEF ListCustomers
<1>8. walk'.shown = w.shown \cup rows
  BY <1>7 DEF IsWalk
<1> QED
  BY <1>5, <1>6, <1>8

LEMMA CustomerTypesKeep ==
    ASSUME CustomersInv, CustomerTypes, CustomersNext PROVE CustomerTypes'
<1>0. /\ customers \in Seq(CustomerRecord) /\ millis \in Nat /\ IsWalk(walk)
      /\ MaxCustomers \in Nat /\ MaxMillis \in Nat
  BY CustomersAssumption DEF CustomersInv
<1>1. ASSUME NEW name \in Name, CreateCustomer(name) PROVE CustomerTypes'
  <2>1. PICK r : r = [name |-> name, created |-> millis, deleted |-> FALSE]
    OBVIOUS
  <2>2. /\ r \in CustomerRecord /\ customers' = Append(customers, r)
        /\ UNCHANGED <<millis, walk>> /\ Len(customers) < MaxCustomers
    BY <1>0, <1>1, <2>1 DEF CreateCustomer, CustomerRecord
  <2>3. /\ Len(customers') = Len(customers) + 1 /\ DOMAIN customers \subseteq DOMAIN customers'
        /\ \A i \in 1 .. Len(customers') :
             customers'[i] = IF i = Len(customers) + 1 THEN r ELSE customers[i]
    BY <1>0, <2>2
  <2>4. \A i \in 1 .. Len(customers') : customers'[i].created <= MaxMillis
    BY <1>0, <2>1, <2>3 DEF CustomerTypes
  <2> QED
    BY <1>0, <2>2, <2>3, <2>4 DEF CustomerTypes
<1>2. ASSUME NEW i \in 1 .. Len(customers), NEW r \in CustomerRecord, r.created = customers[i].created,
             customers' = [customers EXCEPT ![i] = r], millis' = millis,
             walk'.shown = walk.shown, walk'.expected = walk.expected
      PROVE  CustomerTypes'
  <2>1. /\ Len(customers') = Len(customers) /\ DOMAIN customers' = DOMAIN customers
        /\ \A j \in 1 .. Len(customers) : customers'[j] = IF j = i THEN r ELSE customers[j]
    BY <1>0, <1>2
  <2>2. \A j \in 1 .. Len(customers') : customers'[j].created <= MaxMillis
    BY <1>2, <2>1 DEF CustomerTypes
  <2> QED
    BY <1>2, <2>1, <2>2 DEF CustomerTypes
<1>3. ASSUME NEW i \in 1 .. Len(customers), NEW name \in Name \cup {NoName}, UpdateCustomer(i, name)
      PROVE  CustomerTypes'
  <2>1. PICK r : r = [customers[i] EXCEPT !.name = name]
    OBVIOUS
  <2>2. customers[i] \in CustomerRecord
    BY <1>0
  <2>3. r \in CustomerRecord /\ r.created = customers[i].created
    BY <2>1, <2>2 DEF CustomerRecord
  <2>4. customers' = [customers EXCEPT ![i] = r] /\ millis' = millis
    BY <1>3, <2>1 DEF UpdateCustomer
  <2>5. walk'.shown = walk.shown /\ walk'.expected = walk.expected
    BY <1>0, <1>3 DEF UpdateCustomer, IsWalk
  <2> QED
    BY <1>2, <2>3, <2>4, <2>5
<1>4. ASSUME NEW i \in 1 .. Len(customers), DeleteCustomer(i) PROVE CustomerTypes'
  <2>1. PICK r : r = [customers[i] EXCEPT !.deleted = TRUE]
    OBVIOUS
  <2>2. customers[i] \in CustomerRecord
    BY <1>0
  <2>3. r \in CustomerRecord /\ r.created = customers[i].created
    BY <2>1, <2>2 DEF CustomerRecord
  <2>4. customers' = [customers EXCEPT ![i] = r] /\ millis' = millis
    BY <1>4, <2>1 DEF DeleteCustomer
  <2>5. walk'.shown = walk.shown /\ walk'.expected = walk.expected
    BY <1>0, <1>4 DEF DeleteCustomer, IsWalk
  <2> QED
    BY <1>2, <2>3, <2>4, <2>5
<1>5. ASSUME NextMillisecond PROVE CustomerTypes'
  BY <1>0, <1>5 DEF NextMillisecond, CustomerTypes
<1>6. ASSUME NEW w, IsWalk(w), NEW offset \in Nat, ListCustomers(w, offset),
             w.shown \cup w.expected \subseteq DOMAIN customers
      PROVE  CustomerTypes'
  <2>1. Matches(w.search) \subseteq DOMAIN customers
    BY <1>0, MatchesAreFinite
  <2>2. walk'.shown \subseteq w.shown \cup Matches(w.search) /\ walk'.expected = w.expected
    BY <1>6, PageShowsMatches, PageKeepsShape
  <2>3. UNCHANGED <<customers, millis>>
    BY <1>6 DEF ListCustomers
  <2> QED
    BY <1>6, <2>1, <2>2, <2>3 DEF CustomerTypes
<1>7. ASSUME NEW search \in Name \cup {NoName}, StartWalk(search) PROVE CustomerTypes'
  <2>1. PICK w : w = [NoWalk EXCEPT !.search = search, !.expected = Matches(search)]
    OBVIOUS
  <2>2. IsWalk(w) /\ w.expected = Matches(search) /\ w.shown = {}
    BY <2>1 DEF NoWalk, IsWalk
  <2>3. ListCustomers(w, 0) /\ Matches(search) \subseteq DOMAIN customers
    BY <1>0, <1>7, <2>1, MatchesAreFinite DEF StartWalk
  <2> QED
    BY <1>6, <2>2, <2>3
<1>8. ASSUME NextPage PROVE CustomerTypes'
  <2>1. PICK w : w = walk
    OBVIOUS
  <2>2. IsWalk(w) /\ w.offset \in Nat /\ ListCustomers(w, w.offset)
    BY <1>0, <1>8, <2>1 DEF NextPage, IsWalk
  <2>3. w.shown \cup w.expected \subseteq DOMAIN customers
    BY <2>1 DEF CustomerTypes
  <2> QED
    BY <1>6, <2>2, <2>3
<1> QED
  BY <1>1, <1>3, <1>4, <1>5, <1>7, <1>8 DEF CustomersNext

-----------------------------------------------------------------------------
(***************************************************************************)
(* The matching engine.  A loop is followed round by round: what a record  *)
(* and its matches come to stays its amount, and each round of the inner   *)
(* loop settles the record at hand or uses up one of the others, so that   *)
(* nobody it should have matched is left over.                             *)
(***************************************************************************)
(***************************************************************************)
(* The order of the candidates.                                            *)
(***************************************************************************)
Ranked(c) == c.rank[1] \in Int /\ c.rank[2] \in Int /\ c.rank[3] \in Int

LEMMA BeatsIs ==
    ASSUME NEW c, NEW d
    PROVE  Beats(c, d) <=> \/ c.rank[1] > d.rank[1]
                           \/ c.rank[1] = d.rank[1] /\ c.rank[2] > d.rank[2]
                           \/ c.rank[1] = d.rank[1] /\ c.rank[2] = d.rank[2] /\ c.rank[3] > d.rank[3]
<1>1. 1 .. 3 = {1, 2, 3} /\ 1 .. 0 = {} /\ 1 .. 1 = {1} /\ 1 .. 2 = {1, 2}
  OBVIOUS
<1>2. ASSUME NEW k \in 1 .. 3
      PROVE  (c.rank[k] > d.rank[k] /\ \A j \in 1 .. k - 1 : c.rank[j] = d.rank[j])
               <=> \/ k = 1 /\ c.rank[1] > d.rank[1]
                   \/ k = 2 /\ c.rank[1] = d.rank[1] /\ c.rank[2] > d.rank[2]
                   \/ k = 3 /\ c.rank[1] = d.rank[1] /\ c.rank[2] = d.rank[2] /\ c.rank[3] > d.rank[3]
  <2>1. CASE k = 1
    BY <1>1, <2>1
  <2>2. CASE k = 2
    BY <1>1, <2>2
  <2>3. CASE k = 3
    BY <1>1, <2>3
  <2> QED
    BY <2>1, <2>2, <2>3
<1> QED
  BY <1>1, <1>2 DEF Beats

LEMMA BeatsOrders ==
    ASSUME NEW c, Ranked(c), NEW d, Ranked(d), NEW e, Ranked(e)
    PROVE  ~Beats(c, c) /\ (Beats(c, d) /\ Beats(d, e) => Beats(c, e))
<1>1. PICK c1 \in Int, c2 \in Int, c3 \in Int : c1 = c.rank[1] /\ c2 = c.rank[2] /\ c3 = c.rank[3]
  BY DEF Ranked
<1>2. PICK d1 \in Int, d2 \in Int, d3 \in Int : d1 = d.rank[1] /\ d2 = d.rank[2] /\ d3 = d.rank[3]
  BY DEF Ranked
<1>3. PICK e1 \in Int, e2 \in Int, e3 \in Int : e1 = e.rank[1] /\ e2 = e.rank[2] /\ e3 = e.rank[3]
  BY DEF Ranked
<1>4. Beats(c, d) <=> c1 > d1 \/ (c1 = d1 /\ c2 > d2) \/ (c1 = d1 /\ c2 = d2 /\ c3 > d3)
  BY <1>1, <1>2, BeatsIs
<1>5. Beats(d, e) <=> d1 > e1 \/ (d1 = e1 /\ d2 > e2) \/ (d1 = e1 /\ d2 = e2 /\ d3 > e3)
  BY <1>2, <1>3, BeatsIs
<1>6. Beats(c, e) <=> c1 > e1 \/ (c1 = e1 /\ c2 > e2) \/ (c1 = e1 /\ c2 = e2 /\ c3 > e3)
  BY <1>1, <1>3, BeatsIs
<1>7. Beats(c, c) <=> c1 > c1 \/ (c1 = c1 /\ c2 > c2) \/ (c1 = c1 /\ c2 = c2 /\ c3 > c3)
  BY <1>1, BeatsIs
<1> QED
  BY <1>4, <1>5, <1>6, <1>7

\* Of finitely many candidates one at least is not beaten.
LEMMA BestExists ==
    ASSUME NEW C, IsFiniteSet(C), \A c \in C : Ranked(c), C # {}
    PROVE  \E c \in C : ~\E d \in C : Beats(d, c)
<1> DEFINE P == {s \in SUBSET C : s = {} \/ \E c \in s : ~\E d \in s : Beats(d, c)}
<1>1. {} \in P
  OBVIOUS
<1>2. ASSUME NEW s \in P, NEW x \in C \ s PROVE s \union {x} \in P
  <2>0. \A c, d, e \in C : ~Beats(c, c) /\ (Beats(c, d) /\ Beats(d, e) => Beats(c, e))
    BY BeatsOrders
  <2>1. CASE s = {}
    BY <2>0, <2>1
  <2>2. CASE s # {}
    <3>1. PICK c \in s : ~\E d \in s : Beats(d, c)
      BY <2>2
    <3>2. CASE Beats(x, c)
      <4>1. ~\E d \in s \union {x} : Beats(d, x)
        BY <2>0, <3>1, <3>2
      <4> QED
        BY <4>1
    <3>3. CASE ~Beats(x, c)
      <4>1. ~\E d \in s \union {x} : Beats(d, c)
        BY <3>1, <3>3
      <4> QED
        BY <4>1
    <3> QED
      BY <3>2, <3>3
  <2> QED
    BY <2>1, <2>2
<1>3. C \in P
  <2> HIDE DEF P
  <2>1. P \in SUBSET (SUBSET C)
    BY DEF P
  <2> QED
    BY <1>1, <1>2, <2>1, FiniteInduction
<1> QED
  BY <1>3

(***************************************************************************)
(* The order of the records: as many come before a record as its place     *)
(* says, so that each has one place and each place one record.             *)
(***************************************************************************)
EarlierThan(i) == {j \in DOMAIN from : Earlier(j, i)}

LEMMA Records ==
    ASSUME MatchingTypeOK
    PROVE  /\ DOMAIN from = 1 .. Len(from) /\ Len(from) \in Nat
           /\ DOMAIN to = 1 .. Len(to) /\ Len(to) \in Nat
           /\ \A i \in DOMAIN from : from[i].date \in Nat /\ from[i].amount \in Nat
           /\ \A t \in DOMAIN to : to[t].date \in Nat /\ to[t].amount \in Nat
<1>1. \A c \in Record : c.date \in Nat /\ c.amount \in Nat
  BY MatchingAssumption
<1> QED
  BY <1>1 DEF MatchingTypeOK

LEMMA EarlierOrders ==
    ASSUME MatchingTypeOK, NEW i \in DOMAIN from, NEW j \in DOMAIN from, NEW k \in DOMAIN from
    PROVE  /\ ~Earlier(i, i)
           /\ Earlier(i, j) /\ Earlier(j, k) => Earlier(i, k)
           /\ i # j => Earlier(i, j) \/ Earlier(j, i)
<1>1. PICK a \in Nat, b \in Nat, c \in Nat : a = from[i].date /\ b = from[j].date /\ c = from[k].date
  BY Records
<1>2. i \in Nat /\ j \in Nat /\ k \in Nat
  BY Records
<1>3. /\ Earlier(i, i) <=> a < a \/ (a = a /\ i < i)
      /\ Earlier(i, j) <=> a < b \/ (a = b /\ i < j)
      /\ Earlier(j, i) <=> b < a \/ (b = a /\ j < i)
      /\ Earlier(j, k) <=> b < c \/ (b = c /\ j < k)
      /\ Earlier(i, k) <=> a < c \/ (a = c /\ i < k)
  BY <1>1 DEF Earlier
<1> QED
  BY <1>2, <1>3

LEMMA PlacesDiffer ==
    ASSUME MatchingTypeOK, NEW i \in DOMAIN from, NEW j \in DOMAIN from, Earlier(i, j)
    PROVE  Cardinality(EarlierThan(i)) < Cardinality(EarlierThan(j))
<1>0. PICK n \in Nat : DOMAIN from = 1 .. n
  BY Records
<1>1. IsFiniteSet(DOMAIN from) /\ EarlierThan(i) \subseteq DOMAIN from /\ EarlierThan(j) \subseteq DOMAIN from
  <2>1. IsFiniteSet(1 .. n)
    BY FS_Interval
  <2> QED
    BY <1>0, <2>1 DEF EarlierThan
<1>2. IsFiniteSet(EarlierThan(i)) /\ IsFiniteSet(EarlierThan(j))
  BY <1>1, FS_Subset
<1>3. EarlierThan(i) \union {i} \subseteq EarlierThan(j) /\ i \notin EarlierThan(i)
  BY EarlierOrders DEF EarlierThan
<1>4. Cardinality(EarlierThan(i) \union {i}) = Cardinality(EarlierThan(i)) + 1
  BY <1>2, <1>3, FS_AddElement
<1>5. Cardinality(EarlierThan(i) \union {i}) <= Cardinality(EarlierThan(j))
  BY <1>2, <1>3, FS_Subset
<1>6. Cardinality(EarlierThan(i)) \in Nat /\ Cardinality(EarlierThan(j)) \in Nat
  BY <1>2, FS_CardinalityType
<1> QED
  BY <1>4, <1>5, <1>6

LEMMA EveryPlaceHasARecord ==
    ASSUME MatchingTypeOK
    PROVE  /\ \A k \in 1 .. Len(from) : ByDate(k) \in DOMAIN from /\ Cardinality(EarlierThan(ByDate(k))) = k - 1
           /\ \A k, l \in 1 .. Len(from) : ByDate(k) = ByDate(l) => k = l
           /\ \A i \in DOMAIN from : \E k \in 1 .. Len(from) : ByDate(k) = i
<1>1. PICK n \in Nat : n = Len(from) /\ DOMAIN from = 1 .. n
  <2>1. Len(from) \in Nat /\ DOMAIN from = 1 .. Len(from)
    BY Records
  <2> QED
    BY <2>1
<1>2. PICK rank : rank = [i \in 1 .. n |-> Cardinality(EarlierThan(i)) + 1]
  OBVIOUS
<1>3. ASSUME NEW i \in 1 .. n
      PROVE  Cardinality(EarlierThan(i)) \in Nat /\ Cardinality(EarlierThan(i)) < n
  <2>1. IsFiniteSet(1 .. n) /\ Cardinality(1 .. n) = n
    BY FS_Interval
  <2>2. EarlierThan(i) \subseteq (1 .. n) \ {i}
    BY <1>1, EarlierOrders DEF EarlierThan
  <2>3. IsFiniteSet((1 .. n) \ {i}) /\ Cardinality((1 .. n) \ {i}) = n - 1
    BY <2>1, FS_RemoveElement
  <2>4. IsFiniteSet(EarlierThan(i)) /\ Cardinality(EarlierThan(i)) <= n - 1
    BY <2>2, <2>3, FS_Subset
  <2> QED
    BY <2>4, FS_CardinalityType
<1>4. rank \in [1 .. n -> 1 .. n]
  <2>1. ASSUME NEW i \in 1 .. n PROVE Cardinality(EarlierThan(i)) + 1 \in 1 .. n
    <3>1. PICK c \in Nat : c = Cardinality(EarlierThan(i)) /\ c < n
      BY <1>3
    <3>2. c + 1 \in 1 .. n
      BY <3>1
    <3> QED
      BY <3>1, <3>2
  <2> QED
    BY <1>2, <2>1
<1>5. \A i, j \in 1 .. n : rank[i] = rank[j] => i = j
  <2> SUFFICES ASSUME NEW i \in 1 .. n, NEW j \in 1 .. n, i # j PROVE rank[i] # rank[j]
    OBVIOUS
  <2>1. Cardinality(EarlierThan(i)) # Cardinality(EarlierThan(j))
    <3>1. CASE Earlier(i, j)
      BY <1>1, <1>3, <3>1, PlacesDiffer
    <3>2. CASE Earlier(j, i)
      BY <1>1, <1>3, <3>2, PlacesDiffer
    <3> QED
      BY <1>1, <3>1, <3>2, EarlierOrders
  <2> QED
    BY <1>2, <1>3, <2>1
<1>6. \A k \in 1 .. n : \E i \in 1 .. n : rank[i] = k
  <2>1. IsFiniteSet(1 .. n)
    BY FS_Interval
  <2>2. rank \in Injection(1 .. n, 1 .. n)
    BY <1>4, <1>5 DEF Injection, IsInjective
  <2>3. rank \in Surjection(1 .. n, 1 .. n)
    BY <2>1, <2>2, FS_Injection
  <2> QED
    BY <2>3 DEF Surjection
<1>7. ASSUME NEW k \in 1 .. n PROVE ByDate(k) \in 1 .. n /\ Cardinality(EarlierThan(ByDate(k))) = k - 1
  <2>1. PICK i \in 1 .. n : rank[i] = k
    BY <1>6
  <2>2. Cardinality(EarlierThan(i)) = k - 1
    <3>1. PICK c \in Nat : c = Cardinality(EarlierThan(i))
      BY <1>3
    <3>2. c + 1 = k
      BY <1>2, <2>1, <3>1
    <3>3. c = k - 1
      BY <3>2
    <3> QED
      BY <3>1, <3>3
  <2>3. ByDate(k) = CHOOSE j \in DOMAIN from : Cardinality(EarlierThan(j)) = k - 1
    BY DEF ByDate, EarlierThan
  <2> QED
    BY <1>1, <2>2, <2>3
<1>8. \A k \in 1 .. n : rank[ByDate(k)] = k
  BY <1>2, <1>7
<1>9. \A k, l \in 1 .. n : ByDate(k) = ByDate(l) => k = l
  BY <1>8
<1>10. ASSUME NEW i \in 1 .. n PROVE \E k \in 1 .. n : ByDate(k) = i
  <2>1. PICK k \in 1 .. n : k = rank[i]
    BY <1>4
  <2>2. rank[ByDate(k)] = rank[i] /\ ByDate(k) \in 1 .. n
    BY <1>7, <1>8, <2>1
  <2> QED
    BY <1>5, <2>2
<1> QED
  BY <1>1, <1>7, <1>9, <1>10

(***************************************************************************)
(* The matches of a run, and what they come to.                            *)
(***************************************************************************)
Match == [from : Nat, to : DOMAIN to, amount : Nat]

LEMMA TogetherIsNat ==
    ASSUME NEW M \in SUBSET Match, IsFiniteSet(M) PROVE Together(M) \in Nat
<1>1. PICK f : f = [m \in M |-> m.amount]
  OBVIOUS
<1>2. f \in [M -> Nat]
  BY <1>1 DEF Match
<1>3. SumFunction(f) \in Nat
  BY <1>2, SumIsNat
<1> QED
  BY <1>1, <1>3 DEF Together

LEMMA TogetherNothing == Together({}) = 0
<1>1. PICK f : f = [m \in {} |-> m.amount]
  OBVIOUS
<1>2. DOMAIN f = {} /\ f = [x \in {} |-> f[x]]
  BY <1>1
<1>3. SumFunction(f) = 0
  BY <1>2, SumOfNothing
<1> QED
  BY <1>1, <1>3 DEF Together

LEMMA TogetherSplits ==
    ASSUME NEW A \in SUBSET Match, NEW B \in SUBSET Match, IsFiniteSet(A), IsFiniteSet(B), A \cap B = {}
    PROVE  /\ Together(A \union B) = Together(A) + Together(B)
           /\ IsFiniteSet(A \union B)
           /\ Together(A) \in Nat /\ Together(B) \in Nat
<1>1. PICK f : f = [m \in A \union B |-> m.amount]
  OBVIOUS
<1>2. IsFiniteSet(A \union B)
  BY FS_Union
<1>3. f \in [A \union B -> Int]
  BY <1>1 DEF Match
<1>4. SumFunction(f) = SumFunction(Restrict(f, A)) + SumFunction(Restrict(f, B))
  <2>1. InTwoParts(f, A, B)
    BY <1>2, <1>3 DEF InTwoParts
  <2> QED
    BY <2>1, SumOfTwoParts
<1>5. Restrict(f, A) = [m \in A |-> m.amount] /\ Restrict(f, B) = [m \in B |-> m.amount]
  BY <1>1 DEF Restrict
<1> QED
  BY <1>1, <1>2, <1>4, <1>5, TogetherIsNat DEF Together

\* One match more, and what a record of from and one of to are matched with.
LEMMA TogetherGrows ==
    ASSUME NEW M \in SUBSET Match, IsFiniteSet(M), NEW x \in Match, x \notin M
    PROVE  /\ Together(M \union {x}) = Together(M) + x.amount
           /\ \A t : Together({m \in M \union {x} : m.to = t}) =
                       Together({m \in M : m.to = t}) + (IF x.to = t THEN x.amount ELSE 0)
           /\ \A t : Together({m \in M : m.to = t}) \in Nat
<1>1. Together({x}) = x.amount
  <2>1. PICK f : f = [m \in {x} |-> m.amount]
    OBVIOUS
  <2>2. f \in [{} \union {x} -> Int] /\ f[x] = x.amount
    BY <2>1 DEF Match
  <2>3. SumFunction(f) = f[x] + SumFunction(Restrict(f, {}))
    BY <2>2, FS_EmptySet, SumOfOneMore
  <2>4. SumFunction(Restrict(f, {})) = 0
    BY SumOfNone
  <2>5. x.amount \in Nat
    BY DEF Match
  <2>6. SumFunction(f) = x.amount
    BY <2>2, <2>3, <2>4, <2>5
  <2> QED
    BY <2>1, <2>6 DEF Together
<1>2. \A N \in SUBSET M : Together(N \union {x}) = Together(N) + x.amount /\ Together(N) \in Nat
  <2> SUFFICES ASSUME NEW N \in SUBSET M
               PROVE  Together(N \union {x}) = Together(N) + x.amount /\ Together(N) \in Nat
    OBVIOUS
  <2>1. IsFiniteSet(N) /\ IsFiniteSet({x}) /\ N \in SUBSET Match /\ {x} \in SUBSET Match /\ N \cap {x} = {}
    BY FS_Subset, FS_Singleton
  <2>2. Together(N \union {x}) = Together(N) + Together({x}) /\ Together(N) \in Nat
    BY <2>1, TogetherSplits
  <2> QED
    BY <1>1, <2>2
<1>3. ASSUME NEW t
      PROVE  /\ Together({m \in M \union {x} : m.to = t}) =
                  Together({m \in M : m.to = t}) + (IF x.to = t THEN x.amount ELSE 0)
             /\ Together({m \in M : m.to = t}) \in Nat
  <2>1. PICK N \in SUBSET M : N = {m \in M : m.to = t}
    OBVIOUS
  <2>2. {m \in M \union {x} : m.to = t} = IF x.to = t THEN N \union {x} ELSE N
    BY <2>1
  <2>3. Together(N \union {x}) = Together(N) + x.amount /\ Together(N) \in Nat
    BY <1>2
  <2>4. CASE x.to = t
    BY <2>1, <2>2, <2>3, <2>4
  <2>5. CASE x.to # t
    <3>1. Together({m \in M \union {x} : m.to = t}) = Together(N)
      BY <2>2, <2>5
    <3> QED
      BY <2>1, <2>3, <2>5, <3>1
  <2> QED
    BY <2>4, <2>5
<1> QED
  BY <1>2, <1>3

(***************************************************************************)
(* The rounds of the inner loop for the record i.                          *)
(***************************************************************************)
Rest == [DOMAIN to -> Nat]
RoundState == [left : Nat, rest : Rest, matches : SUBSET Match, ambiguous : BOOLEAN]

\* Whoever shares the reference of i and its currency, near its date, has
\* nothing left, or i has nothing left.
Served(i, left, rest) ==
    \/ left = 0
    \/ \A t \in DOMAIN to :
          (/\ rest[t] > 0 /\ SameReference(from[i], to[t]) /\ from[i].currency = to[t].currency) =>
             Distance(from[i], to[t]) > MaxDistance

LEMMA DistanceIsNat ==
    ASSUME MatchingTypeOK, NEW i \in DOMAIN from, NEW t \in DOMAIN to
    PROVE  Distance(from[i], to[t]) \in Nat
<1>1. PICK a \in Nat, b \in Nat : a = from[i].date /\ b = to[t].date
  BY Records
<1>2. Distance(from[i], to[t]) = IF a >= b THEN a - b ELSE b - a
  BY <1>1 DEF Distance
<1> QED
  BY <1>1, <1>2

LEMMA PairsAre ==
    ASSUME MatchingTypeOK, NEW i \in DOMAIN from, NEW left \in Nat, NEW rest \in Rest, NEW split \in BOOLEAN
    PROVE  /\ IsFiniteSet(PairsFor(from[i], left, rest, split))
           /\ \A c \in PairsFor(from[i], left, rest, split) :
                 /\ Ranked(c) /\ c.id \in DOMAIN to /\ c.amount = Smaller(left, rest[c.id])
                 /\ left > 0 /\ rest[c.id] > 0
           /\ PairsFor(from[i], left, rest, split) = {} => Served(i, left, rest)
<1> DEFINE near(t)    == Distance(from[i], to[t]) <= MaxDistance
           exact(t)   == left = rest[t]
           partial(t) == /\ split \/ left > rest[t]
                         /\ Distance(from[i], to[t]) <= MaxPartialDistance
           score(t) == IF SameReference(from[i], to[t])
                       THEN 1000 + MaxDistance - Distance(from[i], to[t]) + (IF exact(t) THEN 10 ELSE 0)
                       ELSE IF exact(t) THEN 500 + MaxDistance - Distance(from[i], to[t])
                       ELSE 100 + MaxPartialDistance - Distance(from[i], to[t])
           pair(t) == [id |-> t, rank |-> <<score(t), 0 - Distance(from[i], to[t]), Smaller(left, rest[t])>>,
                       amount |-> Smaller(left, rest[t])]
           T == {t \in DOMAIN to :
                   /\ to[t].currency = from[i].currency /\ left > 0 /\ rest[t] > 0
                   /\ near(t) /\ (SameReference(from[i], to[t]) \/ exact(t) \/ partial(t))}
<1>1. PairsFor(from[i], left, rest, split) = {pair(t) : t \in T}
  BY DEF PairsFor
<1>2. IsFiniteSet({pair(t) : t \in T})
  <2>1. PICK n \in Nat : DOMAIN to = 1 .. n
    BY Records
  <2>2. IsFiniteSet(1 .. n)
    BY FS_Interval
  <2>3. IsFiniteSet(T)
    BY <2>1, <2>2, FS_Subset
  <2> HIDE DEF T, pair
  <2>4. PICK f : f = [t \in T |-> pair(t)]
    OBVIOUS
  <2>5. f \in Surjection(T, {pair(t) : t \in T})
    BY <2>4 DEF Surjection
  <2> QED
    BY <2>3, <2>5, FS_Surjection
<1>3. ASSUME NEW t \in T
      PROVE  /\ Ranked(pair(t)) /\ pair(t).id \in DOMAIN to
             /\ pair(t).amount = Smaller(left, rest[pair(t).id])
             /\ left > 0 /\ rest[pair(t).id] > 0
  <2>1. PICK d \in Nat : d = Distance(from[i], to[t])
    BY DistanceIsNat
  <2>2. MaxDistance \in Nat /\ MaxPartialDistance \in Nat
    BY MatchingAssumption
  <2>3. PICK r \in Nat : r = rest[t]
    BY DEF Rest
  <2>4. score(t) \in Int
    BY <2>1, <2>2
  <2>5. Smaller(left, rest[t]) \in Int
    BY <2>3 DEF Smaller
  <2>6. 0 - Distance(from[i], to[t]) \in Int
    BY <2>1
  <2> HIDE DEF score
  <2>7. /\ pair(t).rank[1] = score(t) /\ pair(t).rank[2] = 0 - Distance(from[i], to[t])
        /\ pair(t).rank[3] = Smaller(left, rest[t])
    OBVIOUS
  <2>8. Ranked(pair(t))
    BY <2>4, <2>5, <2>6, <2>7 DEF Ranked
  <2>9. pair(t).id = t /\ pair(t).amount = Smaller(left, rest[t]) /\ t \in DOMAIN to /\ left > 0 /\ rest[t] > 0
    OBVIOUS
  <2> QED
    BY <2>8, <2>9, Zenon
<1>4. T = {} => Served(i, left, rest)
  <2> SUFFICES ASSUME T = {}, left > 0, NEW t \in DOMAIN to, rest[t] > 0,
                      SameReference(from[i], to[t]), from[i].currency = to[t].currency
               PROVE  Distance(from[i], to[t]) > MaxDistance
    BY DEF Served
  <2>1. ~near(t)
    BY DEF T
  <2>2. MaxDistance \in Nat /\ Distance(from[i], to[t]) \in Nat
    BY MatchingAssumption, DistanceIsNat
  <2> QED
    BY <2>1, <2>2
<1> HIDE DEF T, pair
<1>5. {pair(t) : t \in T} = {} => T = {}
  OBVIOUS
<1> QED
  BY <1>1, <1>2, <1>3, <1>4, <1>5, Zenon

\* Who still has something left.
Unspent(rest) == {t \in DOMAIN to : rest[t] > 0}

\* After k rounds for i, which found rest: what was matched and what is left
\* add up, and each round has settled i or used up one of the others.
RoundSums(i, rest, s) ==
    /\ s \in RoundState /\ IsFiniteSet(s.matches)
    /\ \A m \in s.matches : m.from = i /\ (s.left = 0 \/ s.rest[m.to] = 0)
    /\ s.left + Together(s.matches) = from[i].amount
    /\ \A t \in DOMAIN to : s.rest[t] + Together({m \in s.matches : m.to = t}) = rest[t]
    /\ s.ambiguous => s.left > 0
RoundProgress(i, k, s) ==
    s.ambiguous \/ Served(i, s.left, s.rest) \/ Cardinality(Unspent(s.rest)) <= Len(to) - k

\* The state after a match with t.
Taken(i, s, t) ==
    LET a == Smaller(s.left, s.rest[t])
    IN  [left      |-> s.left - a,
         rest      |-> [s.rest EXCEPT ![t] = @ - a],
         matches   |-> s.matches \cup {[from |-> i, to |-> t, amount |-> a]},
         ambiguous |-> FALSE]

LEMMA RoundIs ==
    ASSUME MatchingTypeOK, NEW i \in DOMAIN from, NEW s \in RoundState
    PROVE  \/ Round(i, s) = s /\ (s.ambiguous \/ Served(i, s.left, s.rest))
           \/ Round(i, s) = [s EXCEPT !.ambiguous = TRUE] /\ s.left > 0
           \/ \E t \in DOMAIN to : s.left > 0 /\ s.rest[t] > 0 /\ ~s.ambiguous /\ Round(i, s) = Taken(i, s, t)
<1>1. PICK all : all = PairsFor(from[i], s.left, s.rest, s.matches # {})
  OBVIOUS
<1>2. PICK best : best = {c \in all : ~\E d \in all : Beats(d, c)}
  OBVIOUS
<1>3. PICK x : x = CHOOSE c \in best : TRUE
  OBVIOUS
<1>4. Round(i, s) =
        IF s.ambiguous \/ best = {} THEN s
        ELSE IF \E d \in best : d # x THEN [s EXCEPT !.ambiguous = TRUE]
        ELSE [left      |-> s.left - x.amount,
              rest      |-> [s.rest EXCEPT ![x.id] = @ - x.amount],
              matches   |-> s.matches \cup {[from |-> i, to |-> x.id, amount |-> x.amount]},
              ambiguous |-> FALSE]
  BY <1>1, <1>2, <1>3 DEF Round
<1>5. /\ IsFiniteSet(all)
      /\ \A c \in all : Ranked(c) /\ c.id \in DOMAIN to /\ c.amount = Smaller(s.left, s.rest[c.id])
                          /\ s.left > 0 /\ s.rest[c.id] > 0
      /\ all = {} => Served(i, s.left, s.rest)
  <2>1. PICK split \in BOOLEAN : split = (s.matches # {})
    OBVIOUS
  <2>2. s.left \in Nat /\ s.rest \in Rest
    BY DEF RoundState
  <2>3. all = PairsFor(from[i], s.left, s.rest, split)
    BY <1>1, <2>1
  <2> QED
    BY <2>2, <2>3, PairsAre
<1>6. best = {} => all = {}
  BY <1>2, <1>5, BestExists
<1>7. CASE s.ambiguous \/ best = {}
  BY <1>4, <1>5, <1>6, <1>7
<1>8. CASE ~s.ambiguous /\ best # {}
  <2>1. x \in best /\ x \in all
    BY <1>2, <1>3, <1>8
  <2>2. x.id \in DOMAIN to /\ x.amount = Smaller(s.left, s.rest[x.id]) /\ s.left > 0 /\ s.rest[x.id] > 0
    BY <1>5, <2>1
  <2>3. CASE \E d \in best : d # x
    BY <1>4, <1>8, <2>2, <2>3
  <2>4. CASE ~\E d \in best : d # x
    <3>1. Round(i, s) = Taken(i, s, x.id)
      BY <1>4, <1>8, <2>2, <2>4 DEF Taken
    <3> QED
      BY <1>8, <2>2, <3>1
  <2> QED
    BY <2>3, <2>4
<1> QED
  BY <1>7, <1>8

LEMMA SettledStays ==
    ASSUME NEW i, NEW left \in Nat, NEW rest \in Rest, NEW more \in Nat, NEW least \in Rest,
           more <= left, \A t \in DOMAIN to : least[t] <= rest[t], Served(i, left, rest)
    PROVE  Served(i, more, least)
<1>1. \A t \in DOMAIN to : least[t] > 0 => rest[t] > 0
  BY DEF Rest
<1> QED
  BY <1>1 DEF Served

\* What a match with t leaves.
LEMMA TakenKeeps ==
    ASSUME MatchingTypeOK, NEW i \in DOMAIN from, NEW s \in RoundState, NEW t \in DOMAIN to,
           s.left > 0, s.rest[t] > 0
    PROVE  /\ Taken(i, s, t) \in RoundState
           /\ Taken(i, s, t).left <= s.left
           /\ \A u \in DOMAIN to : Taken(i, s, t).rest[u] <= s.rest[u]
           /\ Taken(i, s, t).left = 0 \/ Taken(i, s, t).rest[t] = 0
           /\ \A u \in DOMAIN to : u # t => Taken(i, s, t).rest[u] = s.rest[u]
           /\ Taken(i, s, t).left = s.left - Smaller(s.left, s.rest[t])
           /\ Taken(i, s, t).rest[t] = s.rest[t] - Smaller(s.left, s.rest[t])
           /\ Taken(i, s, t).matches =
                s.matches \union {[from |-> i, to |-> t, amount |-> Smaller(s.left, s.rest[t])]}
           /\ [from |-> i, to |-> t, amount |-> Smaller(s.left, s.rest[t])] \in Match
           /\ ~Taken(i, s, t).ambiguous
<1>1. s.left \in Nat /\ s.rest \in [DOMAIN to -> Nat] /\ s.matches \in SUBSET Match
  BY DEF RoundState, Rest
<1>2. PICK l \in Nat, r \in Nat : l = s.left /\ r = s.rest[t]
  BY <1>1
<1>3. PICK a \in Nat : a = Smaller(s.left, s.rest[t]) /\ a <= l /\ a <= r /\ (a = l \/ a = r)
  BY <1>2 DEF Smaller
<1>4. PICK rest \in Rest : rest = [s.rest EXCEPT ![t] = @ - a]
  <2>1. PICK b \in Nat : b = r - a
    BY <1>3
  <2>2. s.rest[t] - a = b
    BY <1>2, <2>1
  <2>3. [s.rest EXCEPT ![t] = b] \in [DOMAIN to -> Nat]
    BY <1>1
  <2>4. [s.rest EXCEPT ![t] = @ - a] = [s.rest EXCEPT ![t] = b]
    BY <2>2, Zenon
  <2> QED
    BY <2>3, <2>4 DEF Rest
<1>5. PICK m : m = [from |-> i, to |-> t, amount |-> a]
  OBVIOUS
<1>6. m \in Match
  <2>1. i \in Nat
    BY Records
  <2> QED
    BY <1>5, <2>1 DEF Match
<1>7. Taken(i, s, t) = [left |-> l - a, rest |-> rest, matches |-> s.matches \union {m}, ambiguous |-> FALSE]
  BY <1>2, <1>3, <1>4, <1>5 DEF Taken
<1>8. rest[t] = r - a /\ (\A u \in DOMAIN to : u # t => rest[u] = s.rest[u])
  BY <1>1, <1>2, <1>4
<1>9. \A u \in DOMAIN to : rest[u] <= s.rest[u]
  BY <1>1, <1>2, <1>3, <1>8
<1>10. l - a \in Nat /\ l - a <= l /\ (l - a = 0 \/ r - a = 0)
  BY <1>3
<1>11. Taken(i, s, t) \in RoundState
  BY <1>1, <1>6, <1>7, <1>10 DEF RoundState
<1> QED
  BY <1>2, <1>3, <1>5, <1>6, <1>7, <1>8, <1>9, <1>10, <1>11

\* Nobody has more left than before, and one of the two has nothing.
Lessens(n, s, t) ==
    /\ n \in RoundState
    /\ n.left <= s.left
    /\ \A u \in DOMAIN to : n.rest[u] <= s.rest[u]
    /\ n.left = 0 \/ n.rest[t] = 0

LEMMA TakenLessens ==
    ASSUME MatchingTypeOK, NEW i \in DOMAIN from, NEW s \in RoundState, NEW t \in DOMAIN to,
           s.left > 0, s.rest[t] > 0
    PROVE  Lessens(Taken(i, s, t), s, t)
<1>1. PICK n : n = Taken(i, s, t)
  OBVIOUS
<1>2. /\ n \in RoundState
      /\ n.left <= s.left
      /\ \A u \in DOMAIN to : n.rest[u] <= s.rest[u]
      /\ n.left = 0 \/ n.rest[t] = 0
  <2>1. /\ Taken(i, s, t) \in RoundState
        /\ Taken(i, s, t).left <= s.left
        /\ \A u \in DOMAIN to : Taken(i, s, t).rest[u] <= s.rest[u]
        /\ Taken(i, s, t).left = 0 \/ Taken(i, s, t).rest[t] = 0
    BY TakenKeeps, Zenon
  <2> QED
    BY <1>1, <2>1
<1>3. Lessens(n, s, t)
  BY <1>2 DEF Lessens
<1> QED
  BY <1>1, <1>3

LEMMA RoundIsState ==
    ASSUME MatchingTypeOK, NEW i \in DOMAIN from, NEW s \in RoundState
    PROVE  Round(i, s) \in RoundState
<1>1. CASE Round(i, s) = s
  BY <1>1
<1>2. CASE Round(i, s) = [s EXCEPT !.ambiguous = TRUE]
  BY <1>2 DEF RoundState
<1>3. ASSUME NEW t \in DOMAIN to, s.left > 0, s.rest[t] > 0, Round(i, s) = Taken(i, s, t)
      PROVE  Round(i, s) \in RoundState
  BY <1>3, TakenKeeps
<1> QED
  BY <1>1, <1>2, <1>3, RoundIs

LEMMA TakenSums ==
    ASSUME MatchingTypeOK, NEW i \in DOMAIN from, NEW rest, NEW s, RoundSums(i, rest, s),
           NEW t \in DOMAIN to, s.left > 0, s.rest[t] > 0
    PROVE  RoundSums(i, rest, Taken(i, s, t))
<1>1. s \in RoundState /\ s.matches \in SUBSET Match /\ IsFiniteSet(s.matches) /\ s.left \in Nat /\ s.rest \in [DOMAIN to -> Nat]
  BY DEF RoundSums, RoundState, Rest
<1>2. PICK n : n = Taken(i, s, t)
  OBVIOUS
<1>3. PICK x : x = [from |-> i, to |-> t, amount |-> Smaller(s.left, s.rest[t])]
  OBVIOUS
<1>4. /\ n \in RoundState
      /\ n.left = 0 \/ n.rest[t] = 0
      /\ \A u \in DOMAIN to : u # t => n.rest[u] = s.rest[u]
      /\ n.left = s.left - x.amount
      /\ n.rest[t] = s.rest[t] - x.amount
      /\ n.matches = s.matches \union {x}
      /\ x \in Match
      /\ ~n.ambiguous
  BY <1>1, <1>2, <1>3, TakenKeeps
<1>5. x \notin s.matches
  <2>1. \A m \in s.matches : s.rest[m.to] = 0
    BY <1>1 DEF RoundSums
  <2> QED
    BY <1>3, <2>1
<1>6. PICK sum \in Nat : sum = Together(s.matches)
  BY <1>1, TogetherIsNat
<1>7. /\ Together(n.matches) = sum + x.amount
      /\ \A u : Together({m \in n.matches : m.to = u}) =
                  Together({m \in s.matches : m.to = u}) + (IF x.to = u THEN x.amount ELSE 0)
      /\ \A u : Together({m \in s.matches : m.to = u}) \in Nat
  <2>1. PICK M \in SUBSET Match : M = s.matches
    BY <1>1
  <2>2. /\ Together(M \union {x}) = Together(M) + x.amount
        /\ \A u : Together({m \in M \union {x} : m.to = u}) =
                    Together({m \in M : m.to = u}) + (IF x.to = u THEN x.amount ELSE 0)
        /\ \A u : Together({m \in M : m.to = u}) \in Nat
    BY <1>1, <1>4, <1>5, <2>1, TogetherGrows
  <2> QED
    <3>1. n.matches = M \union {x} /\ s.matches = M
      BY <1>4, <2>1
    <3>2. ASSUME NEW u
          PROVE  /\ Together({m \in n.matches : m.to = u}) =
                      Together({m \in s.matches : m.to = u}) + (IF x.to = u THEN x.amount ELSE 0)
                 /\ Together({m \in s.matches : m.to = u}) \in Nat
      <4>1. {m \in n.matches : m.to = u} = {m \in M \union {x} : m.to = u}
        BY <3>1
      <4>2. {m \in s.matches : m.to = u} = {m \in M : m.to = u}
        BY <3>1
      <4> QED
        BY <2>2, <4>1, <4>2, Zenon
    <3>3. Together(n.matches) = sum + x.amount
      BY <1>6, <2>2, <3>1, Zenon
    <3> QED
      BY <3>2, <3>3
<1>8. x.to = t /\ x.from = i /\ x.amount \in Nat
  BY <1>3, <1>4 DEF Match
<1>9. n.left + Together(n.matches) = from[i].amount
  <2>1. s.left + sum = from[i].amount
    BY <1>6 DEF RoundSums
  <2> QED
    BY <1>1, <1>4, <1>7, <1>8, <2>1
<1>10. ASSUME NEW u \in DOMAIN to
       PROVE  n.rest[u] + Together({m \in n.matches : m.to = u}) = rest[u]
  <2>1. PICK c \in Nat : c = Together({m \in s.matches : m.to = u})
    BY <1>7
  <2>2. s.rest[u] + c = rest[u] /\ s.rest[u] \in Nat
    BY <1>1, <2>1 DEF RoundSums
  <2>3. Together({m \in n.matches : m.to = u}) = c + (IF x.to = u THEN x.amount ELSE 0)
    BY <1>7, <2>1
  <2>4. CASE u = t
    <3>1. Together({m \in n.matches : m.to = u}) = c + x.amount /\ n.rest[u] = s.rest[u] - x.amount
      BY <1>4, <1>8, <2>3, <2>4
    <3> QED
      BY <1>8, <2>2, <3>1
  <2>5. CASE u # t
    <3>1. Together({m \in n.matches : m.to = u}) = c /\ n.rest[u] = s.rest[u]
      BY <1>4, <1>8, <2>1, <2>3, <2>5
    <3> QED
      BY <2>2, <3>1
  <2> QED
    BY <2>4, <2>5
<1>11. ASSUME NEW m \in n.matches PROVE m.from = i /\ (n.left = 0 \/ n.rest[m.to] = 0)
  <2>1. CASE m = x
    BY <1>4, <1>8, <2>1
  <2>2. CASE m \in s.matches
    <3>1. m.from = i /\ s.rest[m.to] = 0 /\ m.to \in DOMAIN to
      BY <1>1, <2>2 DEF RoundSums, Match
    <3>2. m.to # t
      BY <3>1
    <3> QED
      BY <1>4, <3>1, <3>2
  <2> QED
    BY <1>4, <1>11, <2>1, <2>2
<1>12. IsFiniteSet(n.matches)
  BY <1>1, <1>4, FS_AddElement
<1>13. RoundSums(i, rest, n)
  BY <1>4, <1>9, <1>10, <1>11, <1>12 DEF RoundSums
<1> QED
  BY <1>2, <1>13

LEMMA RoundKeepsSums ==
    ASSUME MatchingTypeOK, NEW i \in DOMAIN from, NEW rest, NEW s, RoundSums(i, rest, s)
    PROVE  RoundSums(i, rest, Round(i, s))
<1>1. s \in RoundState
  BY DEF RoundSums
<1>2. CASE Round(i, s) = s
  BY <1>2
<1>3. CASE Round(i, s) = [s EXCEPT !.ambiguous = TRUE] /\ s.left > 0
  <2>1. PICK n : n = [s EXCEPT !.ambiguous = TRUE]
    OBVIOUS
  <2>2. /\ n \in RoundState /\ n.left = s.left /\ n.rest = s.rest /\ n.matches = s.matches /\ n.left > 0
    BY <1>1, <1>3, <2>1 DEF RoundState
  <2>3. RoundSums(i, rest, n)
    BY <2>2 DEF RoundSums
  <2> QED
    BY <1>3, <2>1, <2>3
<1>4. ASSUME NEW t \in DOMAIN to, s.left > 0, s.rest[t] > 0, Round(i, s) = Taken(i, s, t)
      PROVE  RoundSums(i, rest, Round(i, s))
  BY <1>4, TakenSums
<1> QED
  BY <1>1, <1>2, <1>3, <1>4, RoundIs

LEMMA UnspentSize ==
    ASSUME MatchingTypeOK, NEW rest
    PROVE  /\ IsFiniteSet(Unspent(rest))
           /\ Cardinality(Unspent(rest)) \in Nat /\ Cardinality(Unspent(rest)) <= Len(to)
           /\ Cardinality(Unspent(rest)) = 0 => Unspent(rest) = {}
<1>1. PICK n \in Nat : DOMAIN to = 1 .. n /\ Len(to) = n
  BY Records
<1>2. IsFiniteSet(1 .. n) /\ Cardinality(1 .. n) = n
  BY FS_Interval
<1>3. Unspent(rest) \in SUBSET (1 .. n)
  BY <1>1 DEF Unspent
<1>4. IsFiniteSet(Unspent(rest)) /\ Cardinality(Unspent(rest)) <= n
  BY <1>2, <1>3, FS_Subset
<1> QED
  BY <1>1, <1>4, FS_CardinalityType, FS_EmptySet

LEMMA RoundProgresses ==
    ASSUME MatchingTypeOK, NEW i \in DOMAIN from, NEW s \in RoundState, NEW k \in 1 .. Len(to),
           RoundProgress(i, k - 1, s)
    PROVE  RoundProgress(i, k, Round(i, s))
<1>1. CASE Round(i, s) = s /\ (s.ambiguous \/ Served(i, s.left, s.rest))
  BY <1>1 DEF RoundProgress
<1>2. CASE Round(i, s) = [s EXCEPT !.ambiguous = TRUE]
  <2>1. Round(i, s).ambiguous
    BY <1>2 DEF RoundState
  <2> QED
    BY <2>1 DEF RoundProgress
<1>3. ASSUME NEW t \in DOMAIN to, s.left > 0, s.rest[t] > 0, ~s.ambiguous, Round(i, s) = Taken(i, s, t)
      PROVE  RoundProgress(i, k, Round(i, s))
  <2>1. PICK n : n = Round(i, s)
    OBVIOUS
  <2>2. /\ n \in RoundState
        /\ n.left <= s.left
        /\ \A u \in DOMAIN to : n.rest[u] <= s.rest[u]
        /\ n.left = 0 \/ n.rest[t] = 0
    <3>1. Lessens(Taken(i, s, t), s, t)
      <4>1. s.left > 0 /\ s.rest[t] > 0
        BY <1>3
      <4> QED
        BY <4>1, TakenLessens, Zenon
    <3>2. Lessens(n, s, t)
      BY <1>3, <2>1, <3>1, Zenon
    <3> QED
      BY <3>2 DEF Lessens
  <2>3. /\ n.left \in Nat /\ s.left \in Nat /\ n.rest \in Rest /\ s.rest \in Rest
    BY <2>2 DEF RoundState
  <2>4. CASE Served(i, s.left, s.rest)
    <3>1. Served(i, n.left, n.rest)
      BY <2>2, <2>3, <2>4, SettledStays
    <3> QED
      BY <2>1, <3>1 DEF RoundProgress
  <2>5. CASE n.left = 0
    BY <2>1, <2>5 DEF RoundProgress, Served
  <2>6. CASE n.rest[t] = 0 /\ Cardinality(Unspent(s.rest)) <= Len(to) - (k - 1)
    <3>1. Unspent(n.rest) \in SUBSET (Unspent(s.rest) \ {t}) /\ t \in Unspent(s.rest)
      BY <1>3, <2>2, <2>3, <2>6 DEF Unspent, Rest
    <3>2. IsFiniteSet(Unspent(s.rest))
      BY UnspentSize
    <3>3. IsFiniteSet(Unspent(s.rest) \ {t}) /\ Cardinality(Unspent(s.rest) \ {t}) = Cardinality(Unspent(s.rest)) - 1
      BY <3>1, <3>2, FS_RemoveElement
    <3>4. Cardinality(Unspent(n.rest)) <= Cardinality(Unspent(s.rest) \ {t})
      BY <3>1, <3>3, FS_Subset
    <3>5. PICK c \in Nat, d \in Nat, l \in Nat :
            c = Cardinality(Unspent(s.rest)) /\ d = Cardinality(Unspent(n.rest)) /\ l = Len(to)
      BY Records, UnspentSize
    <3>6. d <= c - 1 /\ c <= l - (k - 1) /\ k \in Nat
      BY <2>6, <3>3, <3>4, <3>5
    <3>7. d <= l - k
      BY <3>6
    <3> QED
      BY <2>1, <3>5, <3>7 DEF RoundProgress
  <2> QED
    BY <1>3, <2>2, <2>4, <2>5, <2>6 DEF RoundProgress
<1> QED
  BY <1>1, <1>2, <1>3, RoundIs

(***************************************************************************)
(* The inner loop.                                                         *)
(***************************************************************************)
RoundStart(i, rest) == [left |-> from[i].amount, rest |-> rest, matches |-> {}, ambiguous |-> FALSE]

LEMMA StartSums ==
    ASSUME MatchingTypeOK, NEW i \in DOMAIN from, NEW rest \in Rest
    PROVE  /\ RoundSums(i, rest, RoundStart(i, rest))
           /\ RoundProgress(i, 0, RoundStart(i, rest))
<1>1. PICK s : s = RoundStart(i, rest)
  OBVIOUS
<1>2. /\ s.left = from[i].amount /\ s.rest = rest /\ s.matches = {} /\ ~s.ambiguous
      /\ s \in RoundState
  <2>1. from[i].amount \in Nat
    BY Records
  <2> QED
    BY <1>1, <2>1 DEF RoundStart, RoundState
<1>3. \A t : {m \in s.matches : m.to = t} = {}
  BY <1>2
<1>4. s.left \in Nat /\ rest \in [DOMAIN to -> Nat]
  BY <1>2 DEF RoundState, Rest
<1>5. s.left + Together(s.matches) = from[i].amount
  BY <1>2, <1>4, TogetherNothing
<1>6. ASSUME NEW t \in DOMAIN to PROVE s.rest[t] + Together({m \in s.matches : m.to = t}) = rest[t]
  <2>1. rest[t] \in Nat /\ s.rest[t] = rest[t]
    BY <1>2, <1>4
  <2>2. Together({m \in s.matches : m.to = t}) = 0
    BY <1>3, TogetherNothing
  <2> QED
    BY <2>1, <2>2
<1>7. RoundSums(i, rest, s)
  BY <1>2, <1>5, <1>6, FS_EmptySet DEF RoundSums
<1>8. RoundProgress(i, 0, s)
  <2>1. Cardinality(Unspent(s.rest)) <= Len(to) /\ Len(to) \in Nat
    BY UnspentSize, Records
  <2>2. Len(to) - 0 = Len(to)
    BY <2>1
  <2> QED
    BY <2>1, <2>2 DEF RoundProgress
<1> QED
  BY <1>1, <1>7, <1>8

LEMMA MatchOneKeeps ==
    ASSUME MatchingTypeOK, NEW i \in DOMAIN from, NEW rest \in Rest
    PROVE  /\ RoundSums(i, rest, MatchOne(i, rest))
           /\ MatchOne(i, rest).ambiguous \/ Served(i, MatchOne(i, rest).left, MatchOne(i, rest).rest)
<1>1. PICK n \in Nat : n = Len(to)
  BY Records
<1>2. PICK x \in RoundState : x = RoundStart(i, rest)
  BY StartSums DEF RoundSums
<1>3. PICK F : F = [p \in (1 .. n) \X RoundState |-> Round(i, p[2])]
  OBVIOUS
<1>4. \A k \in 1 .. n, s \in RoundState : F[<<k, s>>] = Round(i, s) /\ F[<<k, s>>] \in RoundState
  BY <1>3, RoundIsState
<1>5. \E g \in [0 .. n -> RoundState] : Loops(g, n, x, F)
  <2>1. F \in [(1 .. n) \X RoundState -> RoundState]
    BY <1>3, RoundIsState
  <2> QED
    BY <2>1, RoundsExist
<1>6. PICK g \in [0 .. n -> RoundState] : g[0] = x /\ \A k \in 1 .. n : g[k] = Round(i, g[k - 1])
  <2>1. \A k \in 1 .. n : k - 1 \in 0 .. n
    OBVIOUS
  <2>2. PICK g \in [0 .. n -> RoundState] : g[0] = x /\ \A k \in 1 .. n : g[k] = F[<<k, g[k - 1]>>]
    BY <1>5 DEF Loops
  <2>3. \A k \in 1 .. n : g[k] = Round(i, g[k - 1])
    <3> TAKE k \in 1 .. n
    <3>1. g[k - 1] \in RoundState
      BY <2>1
    <3>2. F[<<k, g[k - 1]>>] = Round(i, g[k - 1])
      BY <1>4, <3>1, Zenon
    <3> QED
      BY <2>2, <3>2
  <2> QED
    BY <2>2, <2>3
<1> DEFINE step(r) == [k \in 0 .. Len(to) |->
              IF k = 0
              THEN [left |-> from[i].amount, rest |-> rest, matches |-> {}, ambiguous |-> FALSE]
              ELSE Round(i, r[k - 1])]
           round == CHOOSE r : r = step(r)
<1>7. MatchOne(i, rest) = round[n]
  BY <1>1 DEF MatchOne
<1>8. g = step(g)
  <2>1. \A k \in 0 .. n : g[k] = IF k = 0 THEN x ELSE Round(i, g[k - 1])
    BY <1>6
  <2>2. g = [k \in 0 .. n |-> IF k = 0 THEN x ELSE Round(i, g[k - 1])]
    BY <2>1
  <2> QED
    BY <1>1, <1>2, <2>2 DEF RoundStart
<1>9. round = step(round)
  BY <1>8
<1>10. round[0] = x /\ \A k \in 1 .. n : round[k] = Round(i, round[k - 1])
  <2>1. PICK r : r = round
    OBVIOUS
  <2>2. r = step(r)
    BY <1>9, <2>1
  <2>3. \A k \in 0 .. n : r[k] = IF k = 0 THEN x ELSE Round(i, r[k - 1])
    BY <1>1, <1>2, <2>2 DEF RoundStart
  <2>4. r[0] = x /\ \A k \in 1 .. n : r[k] = Round(i, r[k - 1])
    BY <2>3
  <2> HIDE DEF round
  <2> QED
    BY <2>1, <2>4
<1> HIDE DEF round
<1> DEFINE S == [k \in 0 .. n |-> {s \in RoundState : RoundSums(i, rest, s) /\ RoundProgress(i, k, s)}]
<1>11. round[0] \in S[0]
  BY <1>2, <1>10, StartSums
<1>12. ASSUME NEW k \in 1 .. n, round[k - 1] \in S[k - 1] PROVE round[k] \in S[k]
  <2>1. k - 1 \in 0 .. n /\ k \in 0 .. n
    OBVIOUS
  <2>2. /\ round[k - 1] \in RoundState
        /\ RoundSums(i, rest, round[k - 1]) /\ RoundProgress(i, k - 1, round[k - 1])
    BY <1>12, <2>1
  <2>3. /\ Round(i, round[k - 1]) \in RoundState
        /\ RoundSums(i, rest, Round(i, round[k - 1])) /\ RoundProgress(i, k, Round(i, round[k - 1]))
    BY <1>1, <2>2, RoundIsState, RoundKeepsSums, RoundProgresses
  <2> QED
    BY <1>10, <2>1, <2>3
<1>13. \A k \in 0 .. n : round[k] \in S[k]
  <2> HIDE DEF S
  <2> QED
    BY <1>11, <1>12, RoundsKeep
<1>14. RoundSums(i, rest, round[n]) /\ RoundProgress(i, n, round[n]) /\ round[n] \in RoundState
  BY <1>13
<1>15. round[n].ambiguous \/ Served(i, round[n].left, round[n].rest)
  <2>1. CASE Cardinality(Unspent(round[n].rest)) <= Len(to) - n
    <3>1. Unspent(round[n].rest) = {}
      <4>1. PICK c \in Nat : c = Cardinality(Unspent(round[n].rest))
        BY UnspentSize
      <4>2. c = 0
        BY <1>1, <2>1, <4>1
      <4> QED
        BY <4>1, <4>2, UnspentSize
    <3> QED
      BY <3>1 DEF Served, Unspent
  <2> QED
    BY <1>14, <2>1 DEF RoundProgress
<1> QED
  BY <1>7, <1>14, <1>15

RunState == [rest : Rest, matches : SUBSET Match, left : [DOMAIN from -> Nat], ambiguous : SUBSET DOMAIN from]

\* What a run has matched and left once the records in P had their turn.
RunSums(P, s) ==
    /\ s \in RunState /\ IsFiniteSet(s.matches)
    /\ \A m \in s.matches : m.from \in P
    /\ \A i \in DOMAIN from : s.left[i] + Together({m \in s.matches : m.from = i}) = from[i].amount
    /\ \A t \in DOMAIN to : s.rest[t] + Together({m \in s.matches : m.to = t}) = to[t].amount
    /\ \A i \in s.ambiguous : i \in P /\ s.left[i] > 0
    /\ \A i \in P : i \in s.ambiguous \/ Served(i, s.left[i], s.rest)

LEMMA TurnIsState ==
    ASSUME MatchingTypeOK, NEW i \in DOMAIN from, NEW s \in RunState
    PROVE  /\ Turn(i, s) \in RunState
           /\ Turn(i, s).rest = MatchOne(i, s.rest).rest
           /\ Turn(i, s).matches = s.matches \union MatchOne(i, s.rest).matches
           /\ Turn(i, s).left[i] = MatchOne(i, s.rest).left
           /\ \A j \in DOMAIN from : j # i => Turn(i, s).left[j] = s.left[j]
           /\ Turn(i, s).ambiguous = IF MatchOne(i, s.rest).ambiguous THEN s.ambiguous \union {i} ELSE s.ambiguous
<1>1. s.rest \in Rest /\ s.left \in [DOMAIN from -> Nat] /\ s.matches \in SUBSET Match /\ s.ambiguous \in SUBSET DOMAIN from
  BY DEF RunState
<1>2. PICK m : m = MatchOne(i, s.rest)
  OBVIOUS
<1>3. m \in RoundState
  BY <1>1, <1>2, MatchOneKeeps DEF RoundSums
<1>4. m.left \in Nat /\ m.rest \in Rest /\ m.matches \in SUBSET Match
  BY <1>3 DEF RoundState
<1>5. Turn(i, s) = [rest |-> m.rest, matches |-> s.matches \union m.matches, left |-> [s.left EXCEPT ![i] = m.left],
                    ambiguous |-> IF m.ambiguous THEN s.ambiguous \union {i} ELSE s.ambiguous]
  BY <1>2 DEF Turn
<1>6. PICK left \in [DOMAIN from -> Nat] : left = [s.left EXCEPT ![i] = m.left]
  BY <1>1, <1>4
<1>7. left[i] = m.left /\ \A j \in DOMAIN from : j # i => left[j] = s.left[j]
  BY <1>1, <1>6
<1>8. PICK ambiguous \in SUBSET DOMAIN from : ambiguous = IF m.ambiguous THEN s.ambiguous \union {i} ELSE s.ambiguous
  BY <1>1
<1>9. Turn(i, s) = [rest |-> m.rest, matches |-> s.matches \union m.matches, left |-> left, ambiguous |-> ambiguous]
  BY <1>5, <1>6, <1>8
<1>10. Turn(i, s) \in RunState
  BY <1>1, <1>4, <1>9 DEF RunState
<1> QED
  BY <1>2, <1>7, <1>8, <1>9, <1>10

LEMMA TurnKeeps ==
    ASSUME MatchingTypeOK, NEW P \in SUBSET DOMAIN from, NEW i \in DOMAIN from, i \notin P,
           NEW s, RunSums(P, s)
    PROVE  RunSums(P \union {i}, Turn(i, s))
<1>1. PICK m : m = MatchOne(i, s.rest)
  OBVIOUS
<1>2. PICK n : n = Turn(i, s)
  OBVIOUS
<1>3. s \in RunState /\ s.rest \in Rest /\ s.left \in [DOMAIN from -> Nat] /\ s.matches \in SUBSET Match
  BY DEF RunSums, RunState
<1>4. /\ n \in RunState
      /\ n.rest = m.rest
      /\ n.matches = s.matches \union m.matches
      /\ n.left[i] = m.left
      /\ \A j \in DOMAIN from : j # i => n.left[j] = s.left[j]
      /\ n.ambiguous = IF m.ambiguous THEN s.ambiguous \union {i} ELSE s.ambiguous
  BY <1>1, <1>2, <1>3, TurnIsState
<1>5. RoundSums(i, s.rest, m) /\ (m.ambiguous \/ Served(i, m.left, m.rest))
  BY <1>1, <1>3, MatchOneKeeps
<1>6. m \in RoundState /\ m.left \in Nat /\ m.rest \in Rest /\ m.matches \in SUBSET Match
  BY <1>5 DEF RoundSums, RoundState
<1>7. /\ IsFiniteSet(m.matches) /\ IsFiniteSet(s.matches)
      /\ \A x \in m.matches : x.from = i
      /\ \A x \in s.matches : x.from \in P /\ x.from # i
  BY <1>5 DEF RoundSums, RunSums
<1>8. IsFiniteSet(n.matches)
  <2>1. IsFiniteSet(s.matches \union m.matches)
    BY <1>7, FS_Union
  <2> QED
    BY <1>4, <2>1
<1>9. ASSUME NEW j \in DOMAIN from
      PROVE  n.left[j] + Together({x \in n.matches : x.from = j}) = from[j].amount
  <2>1. CASE j = i
    <3>1. {x \in n.matches : x.from = j} = m.matches
      BY <1>4, <1>7, <2>1
    <3>2. m.left + Together(m.matches) = from[i].amount
      BY <1>5 DEF RoundSums
    <3> QED
      BY <1>4, <2>1, <3>1, <3>2
  <2>2. CASE j # i
    <3>1. {x \in n.matches : x.from = j} = {x \in s.matches : x.from = j}
      BY <1>4, <1>7, <2>2
    <3>2. s.left[j] + Together({x \in s.matches : x.from = j}) = from[j].amount
      BY DEF RunSums
    <3> QED
      BY <1>4, <2>2, <3>1, <3>2
  <2> QED
    BY <2>1, <2>2
<1>10. ASSUME NEW t \in DOMAIN to
       PROVE  /\ n.rest[t] + Together({x \in n.matches : x.to = t}) = to[t].amount
              /\ n.rest[t] <= s.rest[t]
  <2>1. PICK A \in SUBSET Match : A = {x \in s.matches : x.to = t}
    BY <1>3
  <2>2. PICK B \in SUBSET Match : B = {x \in m.matches : x.to = t}
    BY <1>6
  <2>3. {x \in n.matches : x.to = t} = A \union B
    BY <1>4, <2>1, <2>2
  <2>4. A \cap B = {}
    BY <1>7, <2>1, <2>2
  <2>5. IsFiniteSet(A) /\ IsFiniteSet(B)
    BY <1>7, <2>1, <2>2, FS_Subset
  <2>6. Together(A \union B) = Together(A) + Together(B) /\ Together(A) \in Nat /\ Together(B) \in Nat
    BY <2>4, <2>5, TogetherSplits
  <2>7. s.rest[t] + Together(A) = to[t].amount
    BY <2>1 DEF RunSums
  <2>8. m.rest[t] + Together(B) = s.rest[t]
    BY <1>5, <2>2 DEF RoundSums
  <2>9. PICK a \in Nat, b \in Nat, r \in Nat : a = Together(A) /\ b = Together(B) /\ r = m.rest[t]
    BY <1>6, <2>6 DEF Rest
  <2>10. r + (a + b) = to[t].amount /\ r <= s.rest[t]
    <3>1. s.rest[t] = r + b
      BY <2>8, <2>9
    <3> QED
      BY <2>7, <2>9, <3>1
  <2> QED
    BY <1>4, <2>3, <2>6, <2>9, <2>10
<1>11. ASSUME NEW j \in n.ambiguous PROVE j \in P \union {i} /\ n.left[j] > 0
  <2>1. CASE j = i
    <3>1. m.ambiguous
      BY <1>4, <2>1 DEF RunSums
    <3> QED
      BY <1>4, <1>5, <2>1, <3>1 DEF RoundSums
  <2>2. CASE j # i
    <3>1. j \in s.ambiguous /\ j \in DOMAIN from
      BY <1>3, <1>4, <2>2 DEF RunState
    <3> QED
      BY <1>4, <2>2, <3>1 DEF RunSums
  <2> QED
    BY <2>1, <2>2
<1>12. ASSUME NEW j \in P \union {i} PROVE j \in n.ambiguous \/ Served(j, n.left[j], n.rest)
  <2>1. CASE j = i
    BY <1>4, <1>5, <2>1
  <2>2. CASE j # i
    <3>1. j \in DOMAIN from /\ (j \in s.ambiguous \/ Served(j, s.left[j], s.rest))
      BY <2>2 DEF RunSums
    <3>2. CASE j \in s.ambiguous
      BY <1>4, <3>2
    <3>3. CASE Served(j, s.left[j], s.rest)
      <4>1. s.left[j] \in Nat /\ n.left[j] = s.left[j] /\ n.rest \in Rest
        BY <1>3, <1>4, <1>6, <2>2, <3>1
      <4>2. Served(j, n.left[j], n.rest)
        <5>1. PICK l \in Nat, rest \in Rest, least \in Rest : l = s.left[j] /\ rest = s.rest /\ least = n.rest
          BY <1>3, <4>1
        <5>2. \A t \in DOMAIN to : least[t] <= rest[t]
          BY <1>10, <5>1
        <5>3. Served(j, l, rest) /\ l <= l
          BY <3>3, <5>1
        <5>4. Served(j, l, least)
          BY <5>2, <5>3, SettledStays
        <5> QED
          BY <4>1, <5>1, <5>4
      <4> QED
        BY <4>2
    <3> QED
      BY <3>1, <3>2, <3>3
  <2> QED
    BY <2>1, <2>2
<1>13. \A x \in n.matches : x.from \in P \union {i}
  BY <1>4, <1>7
<1>14. RunSums(P \union {i}, n)
  BY <1>4, <1>8, <1>9, <1>10, <1>11, <1>12, <1>13 DEF RunSums
<1> QED
  BY <1>2, <1>14

RunStart == [rest |-> [t \in DOMAIN to |-> to[t].amount], matches |-> {},
             left |-> [i \in DOMAIN from |-> from[i].amount], ambiguous |-> {}]

LEMMA RunStartSums ==
    ASSUME MatchingTypeOK PROVE RunSums({}, RunStart)
<1>1. PICK rest \in Rest : rest = [t \in DOMAIN to |-> to[t].amount]
  BY Records DEF Rest
<1>2. PICK left \in [DOMAIN from -> Nat] : left = [i \in DOMAIN from |-> from[i].amount]
  BY Records
<1>3. PICK s : s = RunStart
  OBVIOUS
<1>4. /\ s \in RunState /\ s.rest = rest /\ s.matches = {} /\ s.left = left /\ s.ambiguous = {}
  <2>1. s = [rest |-> rest, matches |-> {}, left |-> left, ambiguous |-> {}]
    BY <1>1, <1>2, <1>3 DEF RunStart
  <2> QED
    BY <2>1 DEF RunState
<1>5. (\A i : {m \in s.matches : m.from = i} = {}) /\ (\A t : {m \in s.matches : m.to = t} = {})
  BY <1>4
<1>6. ASSUME NEW i \in DOMAIN from
      PROVE  s.left[i] + Together({m \in s.matches : m.from = i}) = from[i].amount
  <2>1. s.left[i] = from[i].amount /\ from[i].amount \in Nat
    BY <1>2, <1>4, Records
  <2>2. Together({m \in s.matches : m.from = i}) = 0
    BY <1>5, TogetherNothing
  <2> QED
    BY <2>1, <2>2
<1>7. ASSUME NEW t \in DOMAIN to
      PROVE  s.rest[t] + Together({m \in s.matches : m.to = t}) = to[t].amount
  <2>1. s.rest[t] = to[t].amount /\ to[t].amount \in Nat
    BY <1>1, <1>4, Records
  <2>2. Together({m \in s.matches : m.to = t}) = 0
    BY <1>5, TogetherNothing
  <2> QED
    BY <2>1, <2>2
<1>8. RunSums({}, s)
  BY <1>4, <1>6, <1>7, FS_EmptySet DEF RunSums
<1> QED
  BY <1>3, <1>8

\* A whole run.
LEMMA MatchedSums ==
    ASSUME MatchingTypeOK PROVE RunSums(DOMAIN from, Matched)
<1>1. PICK n \in Nat : n = Len(from) /\ DOMAIN from = 1 .. n
  <2>1. Len(from) \in Nat /\ DOMAIN from = 1 .. Len(from)
    BY Records
  <2> QED
    BY <2>1
<1>2. PICK x \in RunState : x = RunStart
  BY RunStartSums DEF RunSums
<1>3. /\ \A k \in 1 .. n : ByDate(k) \in DOMAIN from
      /\ \A k, l \in 1 .. n : ByDate(k) = ByDate(l) => k = l
      /\ \A i \in DOMAIN from : \E k \in 1 .. n : ByDate(k) = i
  BY <1>1, EveryPlaceHasARecord
<1>4. PICK F : F = [p \in (1 .. n) \X RunState |-> Turn(ByDate(p[1]), p[2])]
  OBVIOUS
<1>5. \A k \in 1 .. n, s \in RunState : F[<<k, s>>] = Turn(ByDate(k), s) /\ F[<<k, s>>] \in RunState
  BY <1>3, <1>4, TurnIsState
<1>6. \E g \in [0 .. n -> RunState] : Loops(g, n, x, F)
  <2>1. F \in [(1 .. n) \X RunState -> RunState]
    BY <1>3, <1>4, TurnIsState
  <2> QED
    BY <2>1, RoundsExist
<1>7. PICK g \in [0 .. n -> RunState] : g[0] = x /\ \A k \in 1 .. n : g[k] = Turn(ByDate(k), g[k - 1])
  <2>1. \A k \in 1 .. n : k - 1 \in 0 .. n
    OBVIOUS
  <2>2. PICK g \in [0 .. n -> RunState] : g[0] = x /\ \A k \in 1 .. n : g[k] = F[<<k, g[k - 1]>>]
    BY <1>6 DEF Loops
  <2>3. \A k \in 1 .. n : g[k] = Turn(ByDate(k), g[k - 1])
    <3> TAKE k \in 1 .. n
    <3>1. g[k - 1] \in RunState
      BY <2>1
    <3>2. F[<<k, g[k - 1]>>] = Turn(ByDate(k), g[k - 1])
      BY <1>5, <3>1, Zenon
    <3> QED
      BY <2>2, <3>2
  <2> QED
    BY <2>2, <2>3
<1> DEFINE step(r) == [k \in 0 .. Len(from) |->
              IF k = 0
              THEN [rest |-> [t \in DOMAIN to |-> to[t].amount], matches |-> {},
                    left |-> [i \in DOMAIN from |-> from[i].amount], ambiguous |-> {}]
              ELSE Turn(ByDate(k), r[k - 1])]
           done == CHOOSE r : r = step(r)
<1>8. Matched = done[n]
  BY <1>1 DEF Matched
<1>9. g = step(g)
  <2>1. \A k \in 0 .. n : g[k] = IF k = 0 THEN x ELSE Turn(ByDate(k), g[k - 1])
    BY <1>7
  <2>2. g = [k \in 0 .. n |-> IF k = 0 THEN x ELSE Turn(ByDate(k), g[k - 1])]
    BY <2>1
  <2> QED
    BY <1>1, <1>2, <2>2 DEF RunStart
<1>10. done = step(done)
  BY <1>9
<1>11. done[0] = x /\ \A k \in 1 .. n : done[k] = Turn(ByDate(k), done[k - 1])
  <2>1. PICK r : r = done
    OBVIOUS
  <2>2. r = step(r)
    BY <1>10, <2>1
  <2>3. \A k \in 0 .. n : r[k] = IF k = 0 THEN x ELSE Turn(ByDate(k), r[k - 1])
    BY <1>1, <1>2, <2>2 DEF RunStart
  <2>4. r[0] = x /\ \A k \in 1 .. n : r[k] = Turn(ByDate(k), r[k - 1])
    BY <2>3
  <2> HIDE DEF done
  <2> QED
    BY <2>1, <2>4
<1> HIDE DEF done
<1> DEFINE P(k) == {ByDate(j) : j \in 1 .. k}
           S == [k \in 0 .. n |-> {s \in RunState : RunSums(P(k), s)}]
<1>12. done[0] \in S[0]
  <2>1. P(0) = {}
    <3>1. 1 .. 0 = {}
      OBVIOUS
    <3> QED
      BY <3>1
  <2>2. RunSums(P(0), x)
    BY <1>2, <2>1, RunStartSums
  <2> HIDE DEF P
  <2>3. 0 \in 0 .. n
    OBVIOUS
  <2>4. x \in S[0]
    BY <2>2, <2>3
  <2> HIDE DEF S
  <2> QED
    BY <1>11, <2>4
<1>13. ASSUME NEW k \in 1 .. n, done[k - 1] \in S[k - 1] PROVE done[k] \in S[k]
  <2>1. k - 1 \in 0 .. n /\ k \in 0 .. n
    OBVIOUS
  <2>2. done[k - 1] \in RunState /\ RunSums(P(k - 1), done[k - 1])
    BY <1>13, <2>1
  <2>3. P(k - 1) \in SUBSET DOMAIN from /\ ByDate(k) \in DOMAIN from /\ ByDate(k) \notin P(k - 1)
    BY <1>3
  <2>4. P(k) = P(k - 1) \union {ByDate(k)}
    <3>1. 1 .. k = (1 .. k - 1) \union {k}
      OBVIOUS
    <3> QED
      BY <3>1
  <2> HIDE DEF P
  <2>5. /\ RunSums(P(k), Turn(ByDate(k), done[k - 1]))
        /\ Turn(ByDate(k), done[k - 1]) \in RunState
    <3>1. PICK i \in DOMAIN from, Q \in SUBSET DOMAIN from, s \in RunState :
            i = ByDate(k) /\ Q = P(k - 1) /\ s = done[k - 1]
      BY <2>2, <2>3
    <3>2. RunSums(Q \union {i}, Turn(i, s)) /\ Turn(i, s) \in RunState
      BY <2>2, <2>3, <3>1, TurnKeeps, TurnIsState
    <3> QED
      BY <2>4, <3>1, <3>2
  <2> QED
    BY <1>11, <2>1, <2>5
<1>14. \A k \in 0 .. n : done[k] \in S[k]
  <2> HIDE DEF S
  <2> QED
    BY <1>12, <1>13, RoundsKeep
<1>15. P(n) = DOMAIN from
  BY <1>3
<1>16. RunSums(P(n), done[n])
  BY <1>14
<1> HIDE DEF P
<1> QED
  BY <1>8, <1>15, <1>16

LEMMA MatchesSound == MatchingTypeOK => MatchesAreSound
<1> SUFFICES ASSUME MatchingTypeOK PROVE MatchesAreSound
  OBVIOUS
<1>1. PICK run : run = Matched
  OBVIOUS
<1>2. RunSums(DOMAIN from, run)
  BY <1>1, MatchedSums
<1>3. PICK e : e = Exceptions(run)
  OBVIOUS
<1>4. /\ e.ambiguous = run.ambiguous
      /\ e.from = {i \in DOMAIN from : run.left[i] > 0} \ run.ambiguous
      /\ e.to = {t \in DOMAIN to : run.rest[t] > 0}
  BY <1>3 DEF Exceptions
<1>5. /\ run.left \in [DOMAIN from -> Nat] /\ run.rest \in [DOMAIN to -> Nat] /\ run.matches \in SUBSET Match
      /\ IsFiniteSet(run.matches)
  BY <1>2 DEF RunSums, RunState, Rest
<1>6. ASSUME NEW i \in DOMAIN from
      PROVE  LET sum == Together({m \in run.matches : m.from = i})
             IN  sum <= from[i].amount /\ (sum < from[i].amount <=> i \in e.ambiguous \cup e.from)
  <2>1. PICK M \in SUBSET Match : M = {m \in run.matches : m.from = i} /\ IsFiniteSet(M)
    <3>1. PICK M \in SUBSET run.matches : M = {m \in run.matches : m.from = i}
      OBVIOUS
    <3>2. IsFiniteSet(M)
      BY <1>5, FS_Subset
    <3> QED
      BY <1>5, <3>1, <3>2
  <2>2. PICK sum \in Nat, left \in Nat : sum = Together(M) /\ left = run.left[i]
    BY <1>5, <2>1, TogetherIsNat
  <2>3. left + sum = from[i].amount /\ (i \in run.ambiguous => left > 0)
    BY <1>2, <2>1, <2>2 DEF RunSums
  <2>4. i \in e.ambiguous \cup e.from <=> left > 0
    BY <1>4, <2>2, <2>3
  <2> QED
    BY <2>1, <2>2, <2>3, <2>4
<1>7. ASSUME NEW t \in DOMAIN to
      PROVE  LET sum == Together({m \in run.matches : m.to = t})
             IN  sum <= to[t].amount /\ (sum < to[t].amount <=> t \in e.to)
  <2>1. PICK M \in SUBSET Match : M = {m \in run.matches : m.to = t} /\ IsFiniteSet(M)
    <3>1. PICK M \in SUBSET run.matches : M = {m \in run.matches : m.to = t}
      OBVIOUS
    <3>2. IsFiniteSet(M)
      BY <1>5, FS_Subset
    <3> QED
      BY <1>5, <3>1, <3>2
  <2>2. PICK sum \in Nat, rest \in Nat : sum = Together(M) /\ rest = run.rest[t]
    BY <1>5, <2>1, TogetherIsNat
  <2>3. rest + sum = to[t].amount
    BY <1>2, <2>1, <2>2 DEF RunSums
  <2>4. t \in e.to <=> rest > 0
    BY <1>4, <2>2
  <2> QED
    BY <2>1, <2>2, <2>3, <2>4
<1>8. ASSUME NEW i \in e.from, NEW t \in e.to, SameReference(from[i], to[t]), from[i].currency = to[t].currency
      PROVE  Distance(from[i], to[t]) > MaxDistance
  <2>1. /\ i \in DOMAIN from /\ t \in DOMAIN to /\ run.left[i] > 0 /\ run.rest[t] > 0 /\ i \notin run.ambiguous
    BY <1>4
  <2>2. Served(i, run.left[i], run.rest) /\ run.left[i] # 0
    BY <1>2, <1>5, <2>1 DEF RunSums
  <2> QED
    BY <1>8, <2>1, <2>2 DEF Served
<1> QED
  BY <1>1, <1>3, <1>6, <1>7, <1>8 DEF MatchesAreSound

LEMMA MatchingStep == MatchingTypeOK /\ [MatchingNext]_matchingVars => MatchingTypeOK'
<1> SUFFICES ASSUME MatchingTypeOK, [MatchingNext]_matchingVars PROVE MatchingTypeOK'
  OBVIOUS
<1>1. ASSUME NEW c \in Record,
             \/ from' = Append(from, c) /\ UNCHANGED to
             \/ to' = Append(to, c) /\ UNCHANGED from
      PROVE  MatchingTypeOK'
  <2>1. PICK s \in Seq(Record) : s = from
    BY DEF MatchingTypeOK
  <2>2. PICK t \in Seq(Record) : t = to
    BY DEF MatchingTypeOK
  <2>3. Append(s, c) \in Seq(Record) /\ Append(t, c) \in Seq(Record)
    OBVIOUS
  <2> QED
    BY <1>1, <2>1, <2>2, <2>3 DEF MatchingTypeOK
<1>2. CASE UNCHANGED matchingVars
  BY <1>2 DEF MatchingTypeOK, matchingVars
<1> QED
  BY <1>1, <1>2 DEF MatchingNext

-----------------------------------------------------------------------------
(***************************************************************************)
(* The parts side by side: the part that moves keeps its invariant by the  *)
(* lemmas above, the others because they stay.                             *)
(***************************************************************************)
LEMMA OverridesRest ==
    ASSUME OverridesInv, UNCHANGED <<approvalVars, results>> PROVE OverridesInv'
<1>1. UNCHANGED <<requests, threshold, audit, executed, results>>
  BY DEF approvalVars
<1>2. ApprovalsInv' /\ Departed' = Departed /\ Overrides' = Overrides
  BY <1>1 DEF OverridesInv, ApprovalsInv, ApprovalStatus, Logs, Departed, Overrides
<1> QED
  BY <1>1, <1>2 DEF OverridesInv

LEMMA ItemsRest ==
    ASSUME ItemsInv, UNCHANGED <<items, matches, resent>> PROVE ItemsInv'
BY DEF ItemsInv, MatchesOf

LEMMA ReconcilingKeeps ==
    ASSUME OverridesInv /\ ItemsInv, [BackOfficeNext]_backOfficeVars
    PROVE  OverridesInv' /\ ItemsInv'
<1>1. CASE part = "overrides" /\ OverridesNext /\ OthersStay
  <2>1. UNCHANGED <<items, matches, resent>>
    BY <1>1 DEF OthersStay
  <2> QED
    BY <1>1, <2>1, OverridesKeep, ItemsRest
<1>2. CASE part = "manual_matches" /\ MatchesNext /\ OthersStay
  <2>1. UNCHANGED <<approvalVars, results>>
    BY <1>2 DEF OthersStay
  <2> QED
    BY <1>2, <2>1, ItemsKeep, OverridesRest
<1>3. CASE (part \notin Reconciling /\ OthersStay) \/ UNCHANGED backOfficeVars
  <2>1. UNCHANGED <<approvalVars, results, items, matches, resent>>
    BY <1>3 DEF OthersStay, Reconciling, backOfficeVars, reconVars
  <2> QED
    BY <2>1, ItemsRest, OverridesRest
<1> QED
  BY <1>1, <1>2, <1>3 DEF BackOfficeNext, Reconciling

LEMMA MatchingKeeps ==
    ASSUME MatchingTypeOK, [BackOfficeNext]_backOfficeVars PROVE MatchingTypeOK'
<1>1. CASE part = "matching" /\ MatchingNext
  BY <1>1, MatchingStep
<1>2. CASE (part # "matching" /\ OthersStay) \/ UNCHANGED backOfficeVars
  <2>1. UNCHANGED matchingVars
    BY <1>2 DEF OthersStay, backOfficeVars
  <2> QED
    BY <2>1, MatchingStep
<1> QED
  BY <1>1, <1>2 DEF BackOfficeNext

(* For any requests, results, items and records: whatever sensitive action *)
(* took effect had a request of its own that was approved, no result       *)
(* departs from its suggestion without an approved override, items that    *)
(* are not sent again are matched in pairs, and the matching engine        *)
(* matches nobody beyond his amount, names everybody who has something     *)
(* left and leaves no two over that carry one reference, near in date and  *)
(* in one currency, but where it said it could not choose.                 *)
THEOREM ApprovalsAndMatchesHold == BackOfficeSpec => []ApprovalsAndMatches
<1>1. BackOfficeInit => OverridesInv /\ ItemsInv /\ MatchingTypeOK
  BY OverridesStart, ItemsStart DEF BackOfficeInit, MatchingInit, MatchingTypeOK
<1>2. OverridesInv /\ ItemsInv /\ MatchingTypeOK => ApprovalsAndMatches
  <2> SUFFICES ASSUME OverridesInv, ItemsInv, MatchingTypeOK PROVE ApprovalsAndMatches
    OBVIOUS
  <2>1. ApprovalsAreSpentOnce
    BY SpentOnce DEF OverridesInv
  <2>2. MatchesPairOff
    BY ItemsPairOff DEF MatchesPairOff, OverridesInv, Departed, Overrides
  <2> QED
    BY <2>1, <2>2, MatchesSound DEF ApprovalsAndMatches
<1> QED
  BY <1>1, <1>2, ReconcilingKeeps, MatchingKeeps, PTL DEF BackOfficeSpec

\* The five modules of deliveries.
DeliveriesInv == PollingInv /\ IngestionInv /\ BalancesInv /\ EventLogInv /\ BusInv

LEMMA DeliveriesRest ==
    /\ PollingInv /\ UNCHANGED pollingVars => PollingInv'
    /\ IngestionInv /\ UNCHANGED ingestionVars => IngestionInv'
    /\ BalancesInv /\ UNCHANGED balanceVars => BalancesInv'
    /\ EventLogInv /\ UNCHANGED logVars => EventLogInv'
    /\ BusInv /\ UNCHANGED busVars => BusInv'
<1>1. PollingInv /\ UNCHANGED pollingVars => PollingInv'
  BY DEF PollingInv, pollingVars, Behind
<1>2. IngestionInv /\ UNCHANGED ingestionVars => IngestionInv'
  BY DEF IngestionInv, ingestionVars
<1>3. BalancesInv /\ UNCHANGED balanceVars => BalancesInv'
  BY DEF BalancesInv, balanceVars, Naming
<1>4. EventLogInv /\ UNCHANGED logVars => EventLogInv'
  BY EventLogRest DEF logVars
<1>5. BusInv /\ UNCHANGED busVars => BusInv'
  BY DEF BusInv, busVars, SubscriptionHolds
<1> QED
  BY <1>1, <1>2, <1>3, <1>4, <1>5

LEMMA DeliveriesKeep ==
    ASSUME DeliveriesInv, [BackOfficeNext]_backOfficeVars PROVE DeliveriesInv'
<1>1. CASE UNCHANGED backOfficeVars
  <2>1. UNCHANGED <<pollingVars, ingestionVars, balanceVars, logVars, busVars>>
    BY <1>1 DEF backOfficeVars
  <2> QED
    BY <2>1, DeliveriesRest DEF DeliveriesInv
<1>2. CASE BackOfficeNext
  <2>1. part = "polling" => PollingNext
    BY <1>2 DEF BackOfficeNext
  <2>2. part \in Ingesting => IngestionNext
    BY <1>2 DEF BackOfficeNext, Ingesting, IngestionNext
  <2>3. part = "balances" => BalancesNext
    BY <1>2 DEF BackOfficeNext
  <2>4. part \in Logging => LogNext
    BY <1>2 DEF BackOfficeNext, Logging
  <2>5. part = "event_bus" => BusNext
    BY <1>2 DEF BackOfficeNext
  <2>6. /\ part # "polling" => UNCHANGED pollingVars
        /\ part \notin Ingesting => UNCHANGED ingestionVars
        /\ part # "balances" => UNCHANGED balanceVars
        /\ part \notin Logging => UNCHANGED logVars
        /\ part # "event_bus" => UNCHANGED busVars
    BY <1>2 DEF BackOfficeNext, OthersStay
  <2>7. PollingInv'
    BY <2>1, <2>6, PollingKeeps, DeliveriesRest DEF DeliveriesInv
  <2>8. IngestionInv'
    BY <2>2, <2>6, IngestionKeeps, DeliveriesRest DEF DeliveriesInv
  <2>9. BalancesInv'
    BY <2>3, <2>6, BalancesKeep, DeliveriesRest DEF DeliveriesInv
  <2>10. EventLogInv'
    BY <2>4, <2>6, EventLogKeeps, DeliveriesRest DEF DeliveriesInv
  <2>11. BusInv'
    BY <2>5, <2>6, BusKeeps, DeliveriesRest DEF DeliveriesInv
  <2> QED
    BY <2>7, <2>8, <2>9, <2>10, <2>11 DEF DeliveriesInv
<1> QED
  BY <1>1, <1>2

(* For any feed, deliveries, events and subscribers: a feed is taken       *)
(* whole; the first delivery stands, and answers for no other but those of *)
(* other source systems that share its id; a balance counts every event    *)
(* once; the log has one event for a key, and what is published is in it   *)
(* for good unless a caller outside an open transaction published it; and  *)
(* the subscribers of the bus handle in order and answer.                  *)
THEOREM EveryDeliveryCountsOnce == BackOfficeSpec => []DeliveriesCountOnce
<1>1. BackOfficeInit => DeliveriesInv
  BY PollingStart, IngestionStart, BalancesStart, EventLogStart, BusStart
  DEF BackOfficeInit, DeliveriesInv
<1>2. DeliveriesInv => DeliveriesCountOnce
  BY FeedIsWhole, FirstStands, CountedOnce, LogSound, BusDelivers
  DEF DeliveriesInv, DeliveriesCountOnce
<1> QED
  BY <1>1, <1>2, DeliveriesKeep, PTL DEF BackOfficeSpec

\* The two modules of listings.
LEMMA ListsRest ==
    /\ BillsInv /\ UNCHANGED billsVars => BillsInv'
    /\ CustomersInv /\ UNCHANGED customersVars => CustomersInv'
<1>1. BillsInv /\ UNCHANGED billsVars => BillsInv'
  BY DEF BillsInv, billsVars, BillsTypeOK, DatesOrdered
<1>2. CustomersInv /\ UNCHANGED customersVars => CustomersInv'
  BY DEF CustomersInv, customersVars, IsWalk, WalkIsSound, StillToCome, Place, Matches, Positions,
         Alive, ListedBefore
<1> QED
  BY <1>1, <1>2

LEMMA ListsKeep ==
    ASSUME BillsInv, CustomersInv, [BackOfficeNext]_backOfficeVars
    PROVE  BillsInv' /\ CustomersInv'
<1>1. CASE UNCHANGED backOfficeVars
  <2>1. UNCHANGED <<billsVars, customersVars>>
    BY <1>1 DEF backOfficeVars
  <2> QED
    BY <2>1, ListsRest
<1>2. CASE BackOfficeNext
  <2>1. /\ part = "bills" => BillsNext
        /\ part = "customers" => CustomersNext
    BY <1>2 DEF BackOfficeNext
  <2>2. /\ part # "bills" => UNCHANGED billsVars
        /\ part # "customers" => UNCHANGED customersVars
    BY <1>2 DEF BackOfficeNext, OthersStay
  <2>3. BillsInv'
    BY <2>1, <2>2, BillsKeep, ListsRest
  <2>4. CustomersInv'
    BY <2>1, <2>2, CustomersKeep, ListsRest
  <2> QED
    BY <2>3, <2>4
<1> QED
  BY <1>1, <1>2

(* For any vendors, bills, customers and size of a page: a bill that is    *)
(* not deleted is in the list of a vendor that is found, and a walk        *)
(* through the pages of the customers shows everybody who was there at its *)
(* start, however many are created meanwhile and wherever they are listed. *)
THEOREM EveryListIsComplete == BackOfficeSpec => []ListsAreComplete
<1>1. BackOfficeInit => BillsInv /\ CustomersInv
  BY BillsStart, CustomersStart DEF BackOfficeInit
<1>2. BillsInv /\ CustomersInv => ListsAreComplete
  BY BillsListed, WalksComplete DEF ListsAreComplete
<1>3. BillsInv /\ CustomersInv /\ [BackOfficeNext]_backOfficeVars => BillsInv' /\ CustomersInv'
  BY ListsKeep
<1> QED
  BY <1>1, <1>2, <1>3, PTL DEF BackOfficeSpec

LEMMA SchedulesKeep ==
    ASSUME SubscriptionsInv, [BackOfficeNext]_backOfficeVars PROVE SubscriptionsInv'
<1>1. CASE part = "subscriptions" /\ SubscriptionsNext
  BY <1>1, SubscriptionsKeep
<1>2. CASE UNCHANGED subscriptionVars
  BY <1>2, SubscriptionsRest DEF subscriptionVars
<1>3. UNCHANGED backOfficeVars => UNCHANGED subscriptionVars
  BY DEF backOfficeVars
<1> QED
  BY <1>1, <1>2, <1>3 DEF BackOfficeNext, OthersStay

LEMMA TaxesKeep ==
    ASSUME TaxInv, [BackOfficeNext]_backOfficeVars PROVE TaxInv'
<1>1. CASE part = "tax" /\ TaxNext
  BY <1>1, TaxInvKeeps
<1>2. CASE UNCHANGED taxVars
  BY <1>2, TaxInvKeeps
<1>3. UNCHANGED backOfficeVars => UNCHANGED taxVars
  BY DEF backOfficeVars
<1> QED
  BY <1>1, <1>2, <1>3 DEF BackOfficeNext, OthersStay

(* For any months, subscriptions and dates: while nobody sets its schedule *)
(* by hand, a subscription has been billed on the dates of its schedule,   *)
(* each once, from the start up to the next one, however seldom and at     *)
(* whatever hour the job ran and whatever became of the subscription.  The *)
(* schedule moves to the month after and to another day for good where a   *)
(* month lacks the day.  Whatever was set by hand, a run bills only active *)
(* subscriptions, no date after the end, and leaves no date of the term    *)
(* due.  For any rates, those of lines above the bounds or below zero      *)
(* among them, codes and lines: base and tax make up the total of a        *)
(* document, each tax is its rate to the nearest unit, and the groups by   *)
(* tax code hold the tax of every line with a code.                        *)
THEOREM BillingIsAlwaysExact == BackOfficeSpec => BillingIsExact
<1>1. BackOfficeInit => SubscriptionsInv /\ TaxInv
  BY SubscriptionsStart, TaxInvStarts DEF BackOfficeInit
<1>2. SubscriptionsInv /\ TaxInv
        => (part = "subscriptions" => EachPeriodBilledOnce) /\ (part = "tax" => TaxAddsUp)
  BY FollowedOnceBilled, TaxInvAddsUp
<1>3. SubscriptionsInv /\ [BackOfficeNext]_backOfficeVars
        => [part = "subscriptions" => JobBillsTheTerm]_backOfficeVars
  <2> SUFFICES ASSUME SubscriptionsInv, BackOfficeNext, part = "subscriptions" PROVE JobBillsTheTerm
    OBVIOUS
  <2>1. SubscriptionsNext
    BY DEF BackOfficeNext, Logging
  <2> QED
    BY <2>1, JobBills
<1> QED
  BY <1>1, <1>2, <1>3, SchedulesKeep, TaxesKeep, PTL DEF BackOfficeSpec, BillingIsExact

LEMMA PositionsKeep ==
    ASSUME PayablesInv, [BackOfficeNext]_backOfficeVars PROVE PayablesInv'
<1>1. CASE part = "payables" /\ APNext
  BY <1>1, PayablesKeep
<1>2. CASE UNCHANGED apVars
  BY <1>2, PayablesRest
<1>3. UNCHANGED backOfficeVars => UNCHANGED apVars
  BY DEF backOfficeVars
<1> QED
  BY <1>1, <1>2, <1>3 DEF BackOfficeNext, OthersStay

(* For any bills, vendors and events of bills, repeated and interleaved in *)
(* any way: the position of a bill with one total is that total less what  *)
(* was paid after the bill came, a bill both consumers are done with       *)
(* leaves no variance on the control account of the ledger, and the        *)
(* vendors' totals, the due buckets of any day and the outflow projection  *)
(* add up to what is open.                                                 *)
THEOREM PositionsAlwaysAgree == BackOfficeSpec => []PositionsAgree
<1>1. BackOfficeInit => PayablesInv
  BY PayablesStart DEF BackOfficeInit
<1>2. PayablesInv => PositionsAgree
  BY OpenIsTotal, ControlAccountHolds, ViewsTellTheSame DEF PositionsAgree
<1> QED
  BY <1>1, <1>2, PositionsKeep, PTL DEF BackOfficeSpec

\* What the types need beside the invariants of the modules.
BesideTypes ==
    /\ SubscriptionTypes /\ CustomerTypes /\ LogTypes
    /\ resent \subseteq Item /\ MatchingTypeOK /\ ReportsTypeOK

LEMMA BesideTypesStart == BackOfficeInit => BesideTypes
<1> SUFFICES ASSUME BackOfficeInit PROVE BesideTypes
  OBVIOUS
<1>1. SubscriptionTypes
  <2>1. 0 \in 0 .. MaxPatches
    BY SubscriptionsAssumption
  <2> QED
    BY <2>1 DEF BackOfficeInit, SubscriptionsInit, SubscriptionTypes
<1>2. CustomerTypes
  BY CustomersAssumption DEF BackOfficeInit, CustomersInit, CustomerTypes, NoWalk
<1>3. LogTypes
  BY DEF BackOfficeInit, LogInit, LogTypes, ToSet
<1>4. resent \subseteq Item
  BY DEF BackOfficeInit, ReconciliationInit
<1>5. MatchingTypeOK
  BY DEF BackOfficeInit, MatchingInit, MatchingTypeOK
<1>6. ReportsTypeOK
  BY DEF BackOfficeInit, ReportsInit, ReportsTypeOK
<1> QED
  BY <1>1, <1>2, <1>3, <1>4, <1>5, <1>6 DEF BesideTypes

LEMMA BesideTypesRest ==
    /\ SubscriptionTypes /\ UNCHANGED subscriptionVars => SubscriptionTypes'
    /\ CustomerTypes /\ UNCHANGED customersVars => CustomerTypes'
    /\ LogTypes /\ UNCHANGED logVars => LogTypes'
    /\ MatchingTypeOK /\ [MatchingNext]_matchingVars => MatchingTypeOK'
    /\ ReportsTypeOK /\ [ReportsNext]_reportVars => ReportsTypeOK'
    /\ resent \subseteq Item /\ (MatchesNext \/ UNCHANGED resent) => (resent \subseteq Item)'
<1>1. SubscriptionTypes /\ UNCHANGED subscriptionVars => SubscriptionTypes'
  BY DEF subscriptionVars, SubscriptionTypes
<1>2. CustomerTypes /\ UNCHANGED customersVars => CustomerTypes'
  BY DEF customersVars, CustomerTypes
<1>3. LogTypes /\ UNCHANGED logVars => LogTypes'
  BY DEF logVars, LogTypes
<1>4. MatchingTypeOK /\ [MatchingNext]_matchingVars => MatchingTypeOK'
  BY MatchingStep
<1>5. ReportsTypeOK /\ [ReportsNext]_reportVars => ReportsTypeOK'
  BY DEF ReportsTypeOK, ReportsNext, PostEntry, reportVars
<1>6. resent \subseteq Item /\ (MatchesNext \/ UNCHANGED resent) => (resent \subseteq Item)'
  BY DEF MatchesNext, UpsertItem, CreateManualMatch
<1> QED
  BY <1>1, <1>2, <1>3, <1>4, <1>5, <1>6

LEMMA BesideTypesKeep ==
    ASSUME BesideTypes, SubscriptionsInv, CustomersInv, EventLogInv, [BackOfficeNext]_backOfficeVars
    PROVE  BesideTypes'
<1>1. CASE UNCHANGED backOfficeVars
  <2>1. UNCHANGED <<subscriptionVars, customersVars, logVars, matchingVars, reportVars, resent>>
    BY <1>1 DEF backOfficeVars, reconVars
  <2> QED
    BY <2>1, BesideTypesRest DEF BesideTypes
<1>2. CASE BackOfficeNext
  <2>1. /\ part = "subscriptions" => SubscriptionsNext
        /\ part = "customers" => CustomersNext
        /\ part \in Logging => LogNext
        /\ part = "matching" => MatchingNext
        /\ part = "reports" => ReportsNext
        /\ part = "manual_matches" => MatchesNext
    BY <1>2 DEF BackOfficeNext, Logging
  <2>2. /\ part # "subscriptions" => UNCHANGED subscriptionVars
        /\ part # "customers" => UNCHANGED customersVars
        /\ part \notin Logging => UNCHANGED logVars
        /\ part # "matching" => UNCHANGED matchingVars
        /\ part # "reports" => UNCHANGED reportVars
        /\ part # "manual_matches" => UNCHANGED resent
    BY <1>2 DEF BackOfficeNext, OthersStay
  <2>3. SubscriptionTypes'
    BY <2>1, <2>2, SubscriptionTypesKeep, BesideTypesRest DEF BesideTypes
  <2>4. CustomerTypes'
    BY <2>1, <2>2, CustomerTypesKeep, BesideTypesRest DEF BesideTypes
  <2>5. LogTypes'
    BY <2>1, <2>2, LogTypesKeep, BesideTypesRest DEF BesideTypes
  <2>6. MatchingTypeOK' /\ ReportsTypeOK' /\ (resent \subseteq Item)'
    BY <2>1, <2>2, BesideTypesRest DEF BesideTypes
  <2> QED
    BY <2>3, <2>4, <2>5, <2>6 DEF BesideTypes
<1> QED
  BY <1>1, <1>2

(* For any constants: every record of every store of the back office is    *)
(* one its services can have written, and the histories name only what     *)
(* happened.                                                               *)
THEOREM BackOfficeTypeCorrect == BackOfficeSpec => []BackOfficeTypeOK
<1>1. BackOfficeInit => DeliveriesInv /\ OverridesInv /\ ItemsInv
  BY PollingStart, IngestionStart, BalancesStart, EventLogStart, BusStart, OverridesStart, ItemsStart
  DEF BackOfficeInit, DeliveriesInv
<1>2. BackOfficeInit => BillsInv /\ CustomersInv /\ SubscriptionsInv /\ TaxInv /\ PayablesInv
  BY BillsStart, CustomersStart, SubscriptionsStart, TaxInvStarts, PayablesStart DEF BackOfficeInit
<1>3. ASSUME DeliveriesInv, OverridesInv, ItemsInv, BillsInv, CustomersInv, SubscriptionsInv, TaxInv,
             PayablesInv, BesideTypes
      PROVE  BackOfficeTypeOK
  <2>1. PollingTypeOK /\ IngestionTypeOK /\ BalancesTypeOK /\ BusTypeOK
    BY <1>3, PollingTypes, IngestionTypes, BalanceTypes, BusTypes DEF DeliveriesInv
  <2>2. LogTypeOK
    BY <1>3, EventLogTypes DEF DeliveriesInv, BesideTypes
  <2>3. ApprovalsTypeOK /\ ReconciliationTypeOK
    BY <1>3, ApprovalTypes DEF BesideTypes
  <2>4. SubscriptionsTypeOK /\ CustomersTypeOK
    BY <1>3, SubscriptionTypesHold, CustomerTypesHold DEF BesideTypes
  <2>5. APTypeOK /\ BillsTypeOK /\ TaxTypeOK
    BY <1>3, TaxInvTypes DEF PayablesInv, BillsInv
  <2>6. MatchingTypeOK /\ ReportsTypeOK
    BY <1>3 DEF BesideTypes
  <2> QED
    BY <2>1, <2>2, <2>3, <2>4, <2>5, <2>6 DEF BackOfficeTypeOK
<1>4. BillsInv /\ CustomersInv /\ [BackOfficeNext]_backOfficeVars => BillsInv' /\ CustomersInv'
  BY ListsKeep
<1>5. BesideTypes /\ SubscriptionsInv /\ CustomersInv /\ DeliveriesInv /\ [BackOfficeNext]_backOfficeVars
        => BesideTypes'
  BY BesideTypesKeep DEF DeliveriesInv
<1> QED
  BY <1>1, <1>2, <1>3, <1>4, <1>5, BesideTypesStart, DeliveriesKeep, ReconcilingKeeps, SchedulesKeep,
     TaxesKeep, PositionsKeep, PTL DEF BackOfficeSpec

=============================================================================
