---------------------------- MODULE PaymentGateway ----------------------------
(***************************************************************************)
(* The payment platform as coverage-marketplace-service sees it through    *)
(* the PaymentGateway interface.  A payment intent is created by the       *)
(* service, authorised (or declined, or cancelled) by the outside world,   *)
(* and captured by the service.  Every call carries an idempotency key, so *)
(* the platform's record of a call IS the record of its key: captures and  *)
(* refunds are keyed by order, transfers by a pair <<order, n>>.           *)
(* Webhook events are facts that are never taken back: an event in sent    *)
(* may be delivered late, in any order, and any number of times.           *)
(***************************************************************************)
EXTENDS Naturals

CONSTANTS
  Orders, Intents,
  None,        \* no order, no intent
  Subscribed   \* the event types the webhook endpoint is subscribed to

IntentState == {"none", "created", "authorised", "captured", "canceled"}
EventType   == {"amount_capturable", "canceled", "charge_failed", "charge_refunded",
                "charge_dispute"}
Event       == EventType \X Intents

ASSUME GatewayAssumption ==
  /\ None \notin Orders \cup Intents
  /\ Subscribed \subseteq EventType

VARIABLES
  intent,     \* [Intents -> IntentState]: "none" is an id not handed out yet
  captures,   \* [Orders -> Intents or None]: what key idem_capture_<o> captured
  refunds,    \* [Orders -> Intents or None]: what key idem_refund_<o> refunded
  transfers,  \* set of <<o, n>>: the keys under which a transfer was executed
  sent        \* set of <<event type, intent>> the platform has emitted

gatewayVars == <<intent, captures, refunds, transfers, sent>>

GatewayTypeOK ==
  /\ intent \in [Intents -> IntentState]
  /\ captures \in [Orders -> Intents \cup {None}]
  /\ refunds \in [Orders -> Intents \cup {None}]
  /\ transfers \subseteq Orders \X Nat
  /\ sent \subseteq Event

GatewayInit ==
  /\ intent = [i \in Intents |-> "none"]
  /\ captures = [o \in Orders |-> None]
  /\ refunds = [o \in Orders |-> None]
  /\ transfers = {}
  /\ sent = {}

Emit(type, i) == sent' = IF type \in Subscribed THEN sent \cup {<<type, i>>} ELSE sent

-----------------------------------------------------------------------------
(* Calls of the service.  A call that the platform refuses has no effect    *)
(* and throws in the caller; it needs no operator here.                     *)

CreatePaymentIntent(i) ==
  /\ intent[i] = "none"
  /\ intent' = [intent EXCEPT ![i] = "created"]
  /\ UNCHANGED <<captures, refunds, transfers, sent>>

\* Only an authorised intent can be captured; the same key with the same
\* intent is answered from the idempotency record.
CapturePayment(o, i) ==
  /\ \/ /\ intent[i] = "authorised"
        /\ captures[o] = None
     \/ captures[o] = i
  /\ intent' = [intent EXCEPT ![i] = "captured"]
  /\ captures' = [captures EXCEPT ![o] = i]
  /\ UNCHANGED <<refunds, transfers, sent>>

TransferToProvider(key) ==
  /\ transfers' = transfers \cup {key}
  /\ UNCHANGED <<intent, captures, refunds, sent>>

\* Refunding an intent that is only authorised releases the hold.
Refund(o, i) ==
  /\ refunds[o] \in {None, i}
  /\ refunds' = [refunds EXCEPT ![o] = i]
  /\ intent' = [intent EXCEPT ![i] = IF @ = "authorised" THEN "canceled" ELSE @]
  /\ Emit("charge_refunded", i)
  /\ UNCHANGED <<captures, transfers>>

-----------------------------------------------------------------------------
(* What the writer, the card network and the platform do by themselves.     *)

Authorise(i) ==
  /\ intent[i] = "created"
  /\ intent' = [intent EXCEPT ![i] = "authorised"]
  /\ Emit("amount_capturable", i)
  /\ UNCHANGED <<captures, refunds, transfers>>

\* A declined card leaves the intent open: the writer may try another one.
Decline(i) ==
  /\ intent[i] = "created"
  /\ Emit("charge_failed", i)
  /\ UNCHANGED <<intent, captures, refunds, transfers>>

CancelIntent(i) ==
  /\ intent[i] \in {"created", "authorised"}
  /\ intent' = [intent EXCEPT ![i] = "canceled"]
  /\ Emit("canceled", i)
  /\ UNCHANGED <<captures, refunds, transfers>>

Chargeback(i) ==
  /\ intent[i] = "captured"
  /\ Emit("charge_dispute", i)
  /\ UNCHANGED <<intent, captures, refunds, transfers>>

=============================================================================
