-------------------------------- MODULE Tax --------------------------------
(***************************************************************************)
(* TaxService with its table of rates: the tax of a line, of a document    *)
(* and of each tax code in it.  Rates are basis points; JavaScript's       *)
(* Math.round of a/b is RoundDiv(a, b).  One tenant; a line's extended     *)
(* amount stands for amount_minor times quantity.                          *)
(***************************************************************************)
EXTENDS Amounts, Integers, Sequences, FiniteSets, Functions

CONSTANTS
    RateId, TaxCode, Jurisdiction,
    BasisPoints,   \* rates that may be configured
    LinePoints,    \* rates that may be given with a line
    LineAmount,
    TaxDay,        \* days a rate may begin or end, and a document be dated
    MaxDocument,   \* bound on the lines of a document
    NoValue

\* upsertTaxRate refuses a configured rate that is not from 0 to 100000.  What a
\* line says is taken as it is, above that or below zero; only at -10000 is an
\* inclusive base divided by zero, and no number.
ASSUME TaxAssumption ==
    /\ \A points \in BasisPoints : points \in Nat /\ points <= 100000
    /\ LinePoints \subseteq Int \ {-10000}
    /\ LineAmount \subseteq Nat /\ TaxDay \subseteq Nat
    /\ MaxDocument \in Nat
    /\ NoValue \notin BasisPoints \cup LinePoints \cup TaxDay /\ NoValue \notin TaxCode

VARIABLES
    rates,     \* [RateId -> rate or NoValue], as TaxRepository.rates
    document   \* the lines computed so far, with what they were computed from

taxVars == <<rates, document>>

Rate == [code : TaxCode, jurisdiction : Jurisdiction, points : BasisPoints,
         inclusive : BOOLEAN, from : TaxDay, to : TaxDay \cup {NoValue}]

TaxTypeOK ==
    /\ rates \in [RateId -> Rate \cup {NoValue}]
    /\ \A k \in DOMAIN document :
         /\ {document[k].base, document[k].tax, document[k].total} \subseteq Int
         /\ document[k].code \in TaxCode \cup {NoValue}

TaxInit == rates = [r \in RateId |-> NoValue] /\ document = <<>>

-----------------------------------------------------------------------------
UpsertTaxRate(id, rate) ==
    /\ rates' = [rates EXCEPT ![id] = rate]
    /\ UNCHANGED document

\* resolveRate: of the rates in force, the first in the order of listRates,
\* which is the one that began last.
InForce(jurisdiction, code, day) ==
    {id \in RateId :
       /\ rates[id] # NoValue
       /\ rates[id].code = code /\ rates[id].jurisdiction = jurisdiction
       /\ rates[id].from <= day
       /\ rates[id].to # NoValue => day <= rates[id].to}

RatesFor(jurisdiction, code, day) ==
    LET inForce == InForce(jurisdiction, code, day)
    IN  IF code = NoValue THEN {}
        ELSE {id \in inForce : \A other \in inForce : rates[other].from <= rates[id].from}

RoundDiv(a, b) ==
    IF b > 0 THEN (2 * a + b) \div (2 * b) ELSE (0 - 2 * a - b) \div (0 - 2 * b)

\* calculateLineTax.  What the line says goes before the table.
LineTax(amount, points, inclusive, code) ==
    LET base == IF inclusive THEN RoundDiv(amount * 10000, 10000 + points) ELSE amount
        tax  == IF inclusive THEN amount - base ELSE RoundDiv(base * points, 10000)
    IN  [amount |-> amount, code |-> code, points |-> points, inclusive |-> inclusive,
         base |-> base, tax |-> tax, total |-> IF inclusive THEN amount ELSE base + tax]

\* One more line of the document calculateDocumentTaxes is given.
AddTaxedLine(jurisdiction, day, amount, code, points, inclusive) ==
    /\ Len(document) < MaxDocument
    /\ LET found == RatesFor(jurisdiction, code, day)
           or(given, field, default) ==
             IF given # NoValue THEN {given}
             ELSE IF found = {} THEN {default}
             ELSE {rates[id][field] : id \in found}
       IN  \E p \in or(points, "points", 0), i \in or(inclusive, "inclusive", FALSE) :
             document' = Append(document, LineTax(amount, p, i, code))
    /\ UNCHANGED rates

LineSum(field) == SumFunction([k \in DOMAIN document |-> document[k][field]])

\* calculateDocumentTaxes: the totals, and the groups of by_tax_code.
DocumentTax ==
    [subtotal |-> LineSum("base"),
     tax      |-> LineSum("tax"),
     total    |-> LineSum("total")]

ByTaxCode ==
    LET grouped == {k \in DOMAIN document : document[k].code # NoValue /\ document[k].tax # 0}
        key(k)  == <<document[k].code, document[k].points>>
        of(g)   == {k \in grouped : key(k) = g}
    IN  {[key |-> g,
          tax |-> SumFunction([k \in of(g) |-> document[k].tax]),
          base |-> SumFunction([k \in of(g) |-> document[k].base])] : g \in {key(k) : k \in grouped}}

TaxNext ==
    \/ \E id \in RateId, rate \in Rate : document = <<>> /\ UpsertTaxRate(id, rate)
    \/ \E j \in Jurisdiction, day \in TaxDay, amount \in LineAmount,
          code \in TaxCode \cup {NoValue}, points \in LinePoints \cup {NoValue},
          inclusive \in {TRUE, FALSE, NoValue} :
         AddTaxedLine(j, day, amount, code, points, inclusive)

-----------------------------------------------------------------------------
\* Twice the distance of a line's tax from its rate times its base.
RoundingError(line) == Magnitude(20000 * line.tax - 2 * line.base * line.points)

\* An inclusive line costs what it said, and its tax is its rate to the
\* nearest unit.
LineIsExact(line) ==
    /\ line.inclusive => line.total = line.amount
    /\ RoundingError(line) <= Magnitude(IF line.inclusive THEN 10000 + line.points ELSE 10000)

\* Whatever mixture of inclusive and exclusive lines a document has, at the
\* rates of the table or any others they bring along, base and
\* tax make up its total, an inclusive line costs what it said, each tax is
\* its rate to the nearest unit, and the groups by tax code hold all the tax
\* of the lines that have a code (TaxService.calculateDocumentTaxes).
TaxAddsUp ==
    /\ DocumentTax.total = DocumentTax.subtotal + DocumentTax.tax
    /\ \A k \in DOMAIN document : LineIsExact(document[k])
    /\ SumFunction([g \in ByTaxCode |-> g.tax])
         = SumFunction([k \in {k \in DOMAIN document : document[k].code # NoValue} |-> document[k].tax])
=============================================================================
