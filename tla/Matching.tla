------------------------------ MODULE Matching ------------------------------
(***************************************************************************)
(* The three matchers of the backend, none of which knows of the others:   *)
(* MatchingEngine, which splits amounts greedily; suggestMatches of        *)
(* ReconciliationService, which scores the candidates of one transaction;  *)
(* and autoMatchTransaction of BankConnectorService, which counts rules.   *)
(*                                                                         *)
(* An id is a number, so that the order of ids is there.  Dates are days,  *)
(* and the assistant's score, a weighted sum of ratios, is an integer: a   *)
(* score of 1 is One.                                                      *)
(***************************************************************************)
EXTENDS Amounts, Integers, Sequences, FiniteSets, FiniteSetsExt, SequencesExt

CONSTANTS
    Record,          \* [amount, date, currency, reference, counterparty]
    MaxFrom, MaxTo,  \* bounds on the records of one run
    MaxDistance, MaxPartialDistance,   \* maxDateDistanceDays and its partial
    NoReference      \* no reference, no counterparty

ASSUME MatchingAssumption ==
    /\ \A c \in Record : c.amount \in Nat /\ c.date \in Nat
    /\ MaxFrom \in Nat \ {0} /\ MaxTo \in Nat
    /\ MaxDistance \in Nat /\ MaxPartialDistance \in Nat

VARIABLES
    from,  \* Seq(Record): the invoices, or the payments; an id is a place in it
    to     \* Seq(Record): the payments, or the credits of the bank

matchingVars == <<from, to>>

MatchingTypeOK == from \in Seq(Record) /\ to \in Seq(Record)

MatchingInit == from = <<>> /\ to = <<>>

\* One more record to match.
MatchingNext ==
    \E c \in Record :
        \/ Len(from) < MaxFrom /\ from' = Append(from, c) /\ UNCHANGED to
        \/ Len(to) < MaxTo /\ to' = Append(to, c) /\ UNCHANGED from

Distance(a, b) == IF a.date >= b.date THEN a.date - b.date ELSE b.date - a.date

\* sameReference, normalizedReferenceMatch
SameReference(a, b) == a.reference # NoReference /\ a.reference = b.reference

\* counterpartySimilarity, where a name is the same or another.
SameName(a, b) == a.counterparty # NoReference /\ a.counterparty = b.counterparty

-----------------------------------------------------------------------------
(* MatchingEngine *)

\* scorePair, canConsiderPair: the candidates for f, of which left is still
\* to be matched, when rest is what the others have left.  A partial match
\* takes less than all of the candidate only once f has been split before.
PairsFor(f, left, rest, split) ==
    LET near(t)    == Distance(f, to[t]) <= MaxDistance
        exact(t)   == left = rest[t]
        partial(t) == /\ split \/ left > rest[t]
                      /\ Distance(f, to[t]) <= MaxPartialDistance
        score(t) == IF SameReference(f, to[t])
                    THEN 1000 + MaxDistance - Distance(f, to[t]) + (IF exact(t) THEN 10 ELSE 0)
                    ELSE IF exact(t) THEN 500 + MaxDistance - Distance(f, to[t])
                    ELSE 100 + MaxPartialDistance - Distance(f, to[t])
    IN  {[id |-> t, rank |-> <<score(t), 0 - Distance(f, to[t]), Smaller(left, rest[t])>>,
          amount |-> Smaller(left, rest[t])] : t \in {t \in DOMAIN to :
            /\ to[t].currency = f.currency /\ left > 0 /\ rest[t] > 0
            /\ near(t) /\ (SameReference(f, to[t]) \/ exact(t) \/ partial(t))}}

\* The order candidates are sorted in: score, distance, amount.
Beats(c, d) ==
    \E k \in 1 .. 3 : c.rank[k] > d.rank[k] /\ \A j \in 1 .. k - 1 : c.rank[j] = d.rank[j]

\* A round of the inner loop for record i of from: the best candidate is
\* taken, unless another is as good, and uses up the record or itself.
Round(i, s) ==
    LET all  == PairsFor(from[i], s.left, s.rest, s.matches # {})
        best == {c \in all : ~\E d \in all : Beats(d, c)}
        c    == CHOOSE c \in best : TRUE
    IN  IF s.ambiguous \/ best = {} THEN s
        ELSE IF \E d \in best : d # c THEN [s EXCEPT !.ambiguous = TRUE]
        ELSE [left      |-> s.left - c.amount,
              rest      |-> [s.rest EXCEPT ![c.id] = @ - c.amount],
              matches   |-> s.matches \cup {[from |-> i, to |-> c.id, amount |-> c.amount]},
              ambiguous |-> FALSE]

\* The inner loop, which ends after as many rounds as there are candidates.
MatchOne(i, rest) ==
    LET round[k \in 0 .. Len(to)] ==
          IF k = 0
          THEN [left |-> from[i].amount, rest |-> rest, matches |-> {}, ambiguous |-> FALSE]
          ELSE Round(i, round[k - 1])
    IN  round[Len(to)]

\* match: the records of from in the order of their dates, then of their ids.
Earlier(i, j) == from[i].date < from[j].date \/ (from[i].date = from[j].date /\ i < j)
ByDate(k) == CHOOSE i \in DOMAIN from : Cardinality({j \in DOMAIN from : Earlier(j, i)}) = k - 1

Turn(i, s) ==
    LET m == MatchOne(i, s.rest)
    IN  [rest      |-> m.rest,
         matches   |-> s.matches \cup m.matches,
         left      |-> [s.left EXCEPT ![i] = m.left],
         ambiguous |-> IF m.ambiguous THEN s.ambiguous \cup {i} ELSE s.ambiguous]

Matched ==
    LET done[k \in 0 .. Len(from)] ==
          IF k = 0
          THEN [rest |-> [t \in DOMAIN to |-> to[t].amount], matches |-> {},
                left |-> [i \in DOMAIN from |-> from[i].amount], ambiguous |-> {}]
          ELSE Turn(ByDate(k), done[k - 1])
    IN  done[Len(from)]

\* The exceptions: who is ambiguous, and who else has something left.
Exceptions(run) ==
    [ambiguous |-> run.ambiguous,
     from |-> {i \in DOMAIN from : run.left[i] > 0} \ run.ambiguous,
     to   |-> {t \in DOMAIN to : run.rest[t] > 0}]

-----------------------------------------------------------------------------
(* suggestMatches *)
Unit == 420       \* of each of the four ratios
One == 1000 * Unit

\* computeConfidenceScore
Score(f, t) ==
    LET most   == Larger(1, Larger(f.amount, t.amount))
        amount == Unit - (Unit \div most) * (Larger(f.amount, t.amount) - Smaller(f.amount, t.amount))
        date   == IF Distance(f, t) <= 7 THEN Unit - (Unit \div 7) * Distance(f, t) ELSE 0
        refers == IF SameReference(f, t) THEN Unit ELSE 0
        named  == IF SameName(f, t) THEN Unit ELSE 0
        sum    == 45 * amount + 25 * date + 25 * refers + 5 * named
    IN  IF refers = 0 /\ named = 0 THEN 9 * sum ELSE 10 * sum

\* createSuggestionForTransaction: the candidate suggested for f, as a set.
Suggested(f) ==
    LET scored == {t \in DOMAIN to : to[t].currency = f.currency /\ Score(f, to[t]) > 0}
        first(t, u) == Score(f, to[t]) > Score(f, to[u])
                         \/ (Score(f, to[t]) = Score(f, to[u]) /\ t <= u)
        top    == {t \in scored : \A u \in scored : first(t, u)}
        others == scored \ top
        gap(t) == IF others = {} THEN One
                  ELSE Score(f, to[t]) - Max({Score(f, to[u]) : u \in others})
        sure(t) == IF SameReference(f, to[t])
                   THEN Score(f, to[t]) >= 550 * Unit /\ gap(t) >= 80 * Unit
                   ELSE /\ SameName(f, to[t])
                        /\ f.amount = to[t].amount /\ Distance(f, to[t]) <= 2
                        /\ Score(f, to[t]) >= 650 * Unit /\ gap(t) >= 140 * Unit
    IN  {t \in top : sure(t)}

-----------------------------------------------------------------------------
(* autoMatchTransaction, with the default rules *)

\* The rules a candidate meets, in order of priority: countMatchedEnabledRules
\* and matchesRule.  The currency is not looked at.
Rules(f, t) ==
    << SameReference(f, t), f.amount = t.amount, Distance(f, t) <= 2 >>

Eligible(f) ==
    {t \in DOMAIN to :
       /\ f.amount = to[t].amount
       /\ f.reference # NoReference => SameReference(f, to[t])
       /\ Cardinality({k \in 1 .. 3 : Rules(f, to[t])[k]}) >= 2}

\* One rule after another narrows the candidates down; a rule none of them
\* meets, or all, narrows nothing.
AutoMatch(f) ==
    LET narrowed[k \in 0 .. 3] ==
          IF k = 0 THEN Eligible(f)
          ELSE LET some == {t \in narrowed[k - 1] : Rules(f, to[t])[k]}
               IN  IF Cardinality(narrowed[k - 1]) <= 1 \/ some = {} THEN narrowed[k - 1] ELSE some
    IN  IF Cardinality(narrowed[3]) = 1 THEN narrowed[3] ELSE {}

-----------------------------------------------------------------------------
Together(matches) == SumFunction([m \in matches |-> m.amount])

\* Nothing is matched beyond its amount, an amount is either matched or named
\* as an exception, and no pair that carries one reference is left over but
\* where the engine said it could not choose (MatchingEngine.match).
MatchesAreSound ==
    LET run == Matched
        e   == Exceptions(run)
    IN  /\ \A i \in DOMAIN from :
             LET sum == Together({m \in run.matches : m.from = i})
             IN  sum <= from[i].amount /\ (sum < from[i].amount <=> i \in e.ambiguous \cup e.from)
        /\ \A t \in DOMAIN to :
             LET sum == Together({m \in run.matches : m.to = t})
             IN  sum <= to[t].amount /\ (sum < to[t].amount <=> t \in e.to)
        /\ \A i \in e.from, t \in e.to :
             (SameReference(from[i], to[t]) /\ from[i].currency = to[t].currency) =>
                Distance(from[i], to[t]) > MaxDistance

\* A transaction whose reference one candidate alone carries, in its currency,
\* of its amount and near its date, finds that candidate with every matcher:
\* the engine and the bank connector match the two, and the assistant
\* suggests no other.
MatchersAgree ==
    \A t \in DOMAIN to :
        (/\ Len(from) = 1
         /\ from[1].amount > 0
         /\ \A u \in DOMAIN to : SameReference(from[1], to[u]) <=> u = t
         /\ from[1].currency = to[t].currency /\ from[1].amount = to[t].amount
         /\ Distance(from[1], to[t]) <= MaxDistance) =>
            /\ Matched.matches = {[from |-> 1, to |-> t, amount |-> from[1].amount]}
            /\ AutoMatch(from[1]) = {t}
            /\ Suggested(from[1]) \subseteq {t}
=============================================================================
