----------------------------- MODULE Ingestion -----------------------------
(***************************************************************************)
(* What comes in from outside one delivery at a time, and is delivered     *)
(* again: signed webhooks (WebhooksService), Stripe events                 *)
(* (StripeConnector), external payments and bank transactions sent as      *)
(* events (IntegrationIngestionService) and the lines of a bank feed       *)
(* (BankConnectorService).  Each handler keeps the first of the deliveries *)
(* it takes for the same and answers the others with it.                   *)
(*                                                                         *)
(* The handlers run to their end without an await.  A webhook with a wrong *)
(* signature or a field missing is refused before anything is looked up    *)
(* and is no step here.                                                    *)
(***************************************************************************)
EXTENDS Integers, FiniteSets

CONSTANTS
    Source,    \* providers, source systems, or the accounts of a bank feed
    ExternalId,
    Sent,      \* what the provider sent: amounts, dates, references
    Detail,    \* what it sent besides: descriptions, names
    Broken,    \* contents a Stripe event cannot be mapped from
    MaxAnswers,   \* bound on the different answers given
    Nothing

ASSUME IngestionAssumption ==
    Broken \subseteq Sent /\ MaxAnswers \in Nat /\ Nothing \notin ExternalId

Inbound == [source : Source, id : ExternalId, content : Sent, detail : Detail]
Anonymous == [source : Source, id : {Nothing}, content : Sent, detail : Detail]

VARIABLES
    kept,      \* what each handler stores, by key
    webhooks,  \* idempotency records of the Stripe events: [ExternalId -> state]
    answers    \* history: [channel, delivery, answer]

ingestionVars == <<kept, webhooks, answers>>

Channel == {"webhook", "stripe", "payment", "bank_transaction", "bank_feed"}

IngestionTypeOK ==
    /\ \A k \in DOMAIN kept : kept[k] \in Inbound \cup Anonymous
    /\ webhooks \in [ExternalId -> {"none", "completed", "failed"}]
    /\ \A a \in answers : /\ a.channel \in Channel
                          /\ {a.delivery, a.answer} \subseteq Inbound \cup Anonymous

IngestionInit ==
    /\ kept = <<>>
    /\ webhooks = [e \in ExternalId |-> "none"]
    /\ answers = {}

\* The key under which a delivery is looked up and stored.
WebhookKey(d) == <<"webhook", d.source, d.id>>

StripeKey(d) == <<"stripe", d.id>>

\* The idempotency key of the event: the source system is no part of it.
EventKey(channel, d) == <<channel, d.id>>

\* A line without an id gets the hash of everything in it for an id; its
\* description and names are no part of the key otherwise.
BankFeedKey(d) ==
    IF d.id = Nothing THEN <<"bank_feed", d>>
    ELSE <<"bank_feed", d.source, d.id, d.content>>

\* Store the delivery unless there is one under its key, answer with the one there.
KeepFirst(channel, key, d) ==
    /\ Cardinality(answers) < MaxAnswers
    /\ kept' = [k \in DOMAIN kept \cup {key} |-> IF k \in DOMAIN kept THEN kept[k] ELSE d]
    /\ answers' = answers \cup {[channel |-> channel, delivery |-> d, answer |-> kept'[key]]}

-----------------------------------------------------------------------------
IngestWebhook(d) ==
    /\ KeepFirst("webhook", WebhookKey(d), d)
    /\ UNCHANGED webhooks

\* handleWebhook of the Stripe connector, within begin and complete of the
\* idempotency service; an event that cannot be mapped fails its record.
HandleStripe(d) ==
    IF webhooks[d.id] # "completed" /\ d.content \in Broken
    THEN /\ webhooks' = [webhooks EXCEPT ![d.id] = "failed"]
         /\ UNCHANGED <<kept, answers>>
    ELSE /\ KeepFirst("stripe", StripeKey(d), d)
         /\ webhooks' = [webhooks EXCEPT ![d.id] = "completed"]

\* ingestExternalPayment and syncBankTransaction log an event, which the
\* event log drops when it has one with its key.
IngestExternalPayment(d) ==
    /\ KeepFirst("payment", EventKey("payment", d), d)
    /\ UNCHANGED webhooks

SyncBankTransaction(d) ==
    /\ KeepFirst("bank_transaction", EventKey("bank_transaction", d), d)
    /\ UNCHANGED webhooks

\* ingestTransactions, line by line
IngestTransaction(d) ==
    /\ KeepFirst("bank_feed", BankFeedKey(d), d)
    /\ UNCHANGED webhooks

\* The handlers share no key: each can be looked at by itself.
WebhooksNext == \E d \in Inbound : IngestWebhook(d)
StripeNext == \E d \in Inbound : HandleStripe(d)
PaymentsNext == \E d \in Inbound : IngestExternalPayment(d)
SyncNext == \E d \in Inbound : SyncBankTransaction(d)
BankFeedNext == \E d \in Inbound : IngestTransaction(d)
AnonymousFeedNext == \E d \in Anonymous : IngestTransaction(d)

-----------------------------------------------------------------------------
\* Whether two deliveries are one delivery that was sent again.  A bank feed
\* is identified by account and content besides the id, and Stripe is one source.
SameDelivery(channel, d, e) ==
    CASE channel = "webhook" -> d.source = e.source /\ d.id = e.id
      [] channel = "stripe" -> d.id = e.id
      [] channel = "bank_feed" -> IF d.id = Nothing THEN d = e
                                  ELSE [d EXCEPT !.detail = e.detail] = e
      [] OTHER -> d.source = e.source /\ d.id = e.id

\* The events of external payments and bank transactions are named by their
\* id alone: two source systems that use one id are not told apart, and the
\* second one's payment is lost.
SharesId(channel, d, e) == channel \in {"payment", "bank_transaction"} /\ d.id = e.id

\* However often and with whatever content a delivery is sent again, it is
\* answered with what came first, which was itself delivered and answered so;
\* and no delivery is answered with another one, unless the two are payments,
\* or bank transactions, of two source systems that share an id
\* (WebhooksService.ingest, StripeConnector.handleWebhook,
\* EventsRepository.create, BankTransactionsRepository.upsert,
\* IntegrationIngestionService).
FirstDeliveryStands ==
    /\ \A a, b \in answers :
         (a.channel = b.channel /\ SameDelivery(a.channel, a.delivery, b.delivery))
            => a.answer = b.answer
    /\ \A a \in answers :
         /\ SameDelivery(a.channel, a.delivery, a.answer) \/ SharesId(a.channel, a.delivery, a.answer)
         /\ [a EXCEPT !.delivery = a.answer] \in answers
=============================================================================
