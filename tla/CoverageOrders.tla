---------------------------- MODULE CoverageOrders ----------------------------
(***************************************************************************)
(* Orders, disputes, payouts, payout retries and Stripe webhooks of        *)
(* coverage-marketplace-service.                                           *)
(*                                                                         *)
(* Every request, webhook delivery and scheduler iteration is a worker     *)
(* that runs an async function: between two awaits nothing else runs, at   *)
(* each await any other worker may.  One action is therefore one call to   *)
(* the database or to the payment platform, and req[w] is what the         *)
(* function still holds in local variables: the order, intent, dispute,    *)
(* retry entry or event it read, which may be stale when it is used.       *)
(* A loop of the scheduler over the rows of one SELECT is one worker per   *)
(* row, which allows every interleaving the loop allows.                   *)
(***************************************************************************)
EXTENDS PaymentGateway, FiniteSets

CONSTANTS
  Handlers,     \* concurrent HTTP requests and webhook deliveries
  Sweepers,     \* concurrent runs of the SLA maintenance job
  Pollers,      \* concurrent runs of the payout retry poll
  MaxDisputes,  \* bound: rows of coverage_disputes
  MaxRetries,   \* bound: rows of payment_retry_queue
  Payable,      \* orders whose provider has a Stripe account
  Faults        \* which of "database" and "crash" may happen

Workers  == Handlers \cup Sweepers \cup Pollers
Disputes == 1 .. MaxDisputes
Retries  == 1 .. MaxRetries

Key == Orders \X Nat   \* idempotency keys of transfers

ASSUME OrdersAssumption ==
  /\ Payable \subseteq Orders
  /\ MaxDisputes \in Nat /\ MaxRetries \in Nat
  /\ Faults \subseteq {"database", "crash"}
  /\ None \notin Event \cup Key

VARIABLES
  status,     \* [Orders -> Status]: coverage_orders.status, "none" before INSERT
  payIntent,  \* [Orders -> Intents or None]: stripe_payment_intent_id
  paidBy,     \* [Orders -> transfer key or None]: stripe_transfer_id
  deliveries, \* orders with a row in coverage_deliveries
  dispute,    \* [Disputes -> row of coverage_disputes]
  trail,      \* coverage_dispute_events as <<dispute, event type>>
  retry,      \* [Retries -> row of payment_retry_queue]
  hook,       \* [Event -> processing_status of stripe_webhook_log]
  offered,    \* [Orders -> set of intents whose client secret the writer was sent]
  req         \* [Workers -> Request]

orderVars == <<status, payIntent, paidBy, offered>>
disputeVars == <<dispute, trail>>
otherVars == <<deliveries, disputeVars, retry, hook>>
tableVars == <<orderVars, otherVars>>
vars == <<gatewayVars, tableVars, req>>

Status == {"none", "placed", "payment_held", "claimed", "delivered", "completed",
           "disputed", "cancelled", "payment_failed", "refunded"}
Ruling == {"resolved_refund", "resolved_no_refund"}
Op     == {"none", "place", "repay", "claim", "deliver", "complete", "cancel",
           "dispute", "resolve", "auto", "sla", "poll", "hook"}
Step   == {"idle", "intent", "insert", "repay", "delivery", "write", "refund", "existing",
           "check", "open", "opened", "ruling", "resolved", "capture", "transfer",
           "queue", "settle", "mark", "reload", "succeed", "failed", "lookup", "receipt",
           "log", "logFailed"}

\* The local variables of a running function: which function (op), the await it
\* stands at (at), the order o and its intent i as read, the id of the dispute or
\* retry entry, the webhook event e, and the status or ruling it will write.
Request == [op : Op, at : Step, o : Orders \cup {None}, i : Intents \cup {None},
            id : Nat, e : Event \cup {None}, to : Status \cup Ruling]

Idle == [op |-> "none", at |-> "idle", o |-> None, i |-> None, id |-> 0, e |-> None,
         to |-> "none"]

NoDispute == [order |-> None, status |-> "none"]
NoRetry   == [order |-> None, status |-> "none"]

Init ==
  /\ GatewayInit
  /\ status = [o \in Orders |-> "none"]
  /\ payIntent = [o \in Orders |-> None]
  /\ paidBy = [o \in Orders |-> None]
  /\ deliveries = {}
  /\ dispute = [d \in Disputes |-> NoDispute]
  /\ trail = {}
  /\ retry = [r \in Retries |-> NoRetry]
  /\ hook = [e \in Event |-> "none"]
  /\ offered = [o \in Orders |-> {}]
  /\ req = [w \in Workers |-> Idle]

-----------------------------------------------------------------------------
Begin(w, r)   == req[w] = Idle /\ req' = [req EXCEPT ![w] = r]
Resume(w, r)  == req' = [req EXCEPT ![w] = r]
Goto(w, step) == Resume(w, [req[w] EXCEPT !.at = step])
At(w, step)   == req[w].at = step

OpenDisputes(o) == {d \in Disputes : dispute[d].order = o /\ dispute[d].status = "open"}

\* What the caller's catch block does with an exception thrown at an await.  The
\* scheduler's try blocks also cover the database writes after the transfer.
Catch(r) ==
  CASE r.op \in {"complete", "resolve"} /\ r.at = "transfer" -> [r EXCEPT !.at = "queue"]
    [] r.op = "auto" /\ r.at \in {"transfer", "settle"}      -> [r EXCEPT !.at = "queue"]
    [] r.op = "poll" /\ r.at \in {"transfer", "settle", "succeed"} ->
           [r EXCEPT !.at = "failed"]
    [] r.op = "hook" /\ r.at \in {"lookup", "write", "log"} ->
           [r EXCEPT !.at = "logFailed"]
    [] r.op = "hook" /\ r.at = "receipt"                     -> [r EXCEPT !.at = "log"]
    [] OTHER -> Idle

\* An await throws: the platform refuses a call, or the database fails.
Throw(w) ==
  /\ \/ req[w].at \in {"intent", "refund", "capture", "transfer"}
     \/ "database" \in Faults /\ ~At(w, "idle")
  /\ Resume(w, Catch(req[w]))
  /\ UNCHANGED <<gatewayVars, tableVars>>

\* A call of the platform that was executed: its answer may be lost on the way, and
\* the call throws.
Answer(w, r) == Resume(w, r) \/ Resume(w, Catch(req[w]))

\* The process stops; what its functions held is gone, and the platform's
\* unanswered webhook deliveries will be repeated.
Crash ==
  /\ "crash" \in Faults
  /\ req # [w \in Workers |-> Idle]
  /\ req' = [w \in Workers |-> Idle]
  /\ UNCHANGED <<gatewayVars, tableVars>>

-----------------------------------------------------------------------------
(* Placing and paying.                                                      *)

PlaceOrder(w) ==
  /\ Begin(w, [Idle EXCEPT !.op = "place", !.at = "intent"])
  /\ UNCHANGED <<gatewayVars, tableVars>>

RetryPayment(w, o) ==
  /\ status[o] = "payment_failed"
  /\ Begin(w, [Idle EXCEPT !.op = "repay", !.at = "intent", !.o = o])
  /\ UNCHANGED <<gatewayVars, tableVars>>

CreateIntent(w, i) ==
  /\ At(w, "intent")
  /\ CreatePaymentIntent(i)
  /\ Answer(w, [req[w] EXCEPT !.i = i,
                              !.at = IF req[w].op = "place" THEN "insert" ELSE "repay"])
  /\ UNCHANGED tableVars

InsertOrder(w, o) ==
  /\ At(w, "insert")
  /\ status[o] = "none"
  /\ status' = [status EXCEPT ![o] = "placed"]
  /\ payIntent' = [payIntent EXCEPT ![o] = req[w].i]
  /\ offered' = [offered EXCEPT ![o] = @ \cup {req[w].i}]
  /\ Resume(w, Idle)
  /\ UNCHANGED <<gatewayVars, paidBy, otherVars>>

ReplaceIntent(w) ==
  /\ At(w, "repay")
  /\ status' = [status EXCEPT ![req[w].o] = "placed"]
  /\ payIntent' = [payIntent EXCEPT ![req[w].o] = req[w].i]
  /\ offered' = [offered EXCEPT ![req[w].o] = @ \cup {req[w].i}]
  /\ Resume(w, Idle)
  /\ UNCHANGED <<gatewayVars, paidBy, otherVars>>

-----------------------------------------------------------------------------
(* Claim, deliver, cancel: a guard on the order as read, then writes that   *)
(* no longer look at it.                                                    *)

\* Mutant: the guard of the route also lets an unpaid order through.
ClaimUnpaid(w, o) ==
  /\ status[o] \in {"placed", "payment_held"}
  /\ Begin(w, [Idle EXCEPT !.op = "claim", !.at = "write", !.o = o, !.to = "claimed"])
  /\ UNCHANGED <<gatewayVars, tableVars>>

ClaimOrder(w, o) ==
  /\ status[o] = "payment_held"
  /\ Begin(w, [Idle EXCEPT !.op = "claim", !.at = "write", !.o = o, !.to = "claimed"])
  /\ UNCHANGED <<gatewayVars, tableVars>>

\* Mutant: the status is written and the delivery row forgotten.
DeliverStatusOnly(w, o) ==
  /\ status[o] = "claimed"
  /\ Begin(w, [Idle EXCEPT !.op = "deliver", !.at = "write", !.o = o, !.to = "delivered"])
  /\ UNCHANGED <<gatewayVars, tableVars>>

DeliverOrder(w, o) ==
  /\ status[o] = "claimed"
  /\ Begin(w, [Idle EXCEPT !.op = "deliver", !.at = "delivery", !.o = o,
                           !.to = "delivered"])
  /\ UNCHANGED <<gatewayVars, tableVars>>

\* order_id is UNIQUE: a second INSERT throws.
CreateDelivery(w) ==
  /\ At(w, "delivery")
  /\ deliveries' = deliveries \cup {req[w].o}
  /\ IF req[w].o \in deliveries THEN Resume(w, Idle) ELSE Goto(w, "write")
  /\ UNCHANGED <<gatewayVars, orderVars, disputeVars, retry, hook>>

CancelOrder(w, o) ==
  /\ status[o] \in {"placed", "payment_held"}
  /\ Begin(w, [Idle EXCEPT !.op = "cancel", !.at = "refund", !.o = o, !.i = payIntent[o],
                           !.to = "cancelled"])
  /\ UNCHANGED <<gatewayVars, tableVars>>

RefundPayment(w) ==
  /\ At(w, "refund")
  /\ Refund(req[w].o, req[w].i)
  /\ Answer(w, [req[w] EXCEPT !.at = "write"])
  /\ UNCHANGED tableVars

\* updateOrderStatus is unconditional: it overwrites whatever status it finds.
AfterWrite(r) ==
  CASE r.op \in {"dispute", "sla"}               -> [r EXCEPT !.at = "opened"]
    [] r.op = "resolve"                          -> [r EXCEPT !.at = "resolved"]
    [] r.op = "hook" /\ r.to = "payment_held"    -> [r EXCEPT !.at = "receipt"]
    [] r.op = "hook" /\ r.to # "payment_held"    -> [r EXCEPT !.at = "log"]
    [] OTHER -> Idle

WriteStatus(w) ==
  /\ At(w, "write")
  /\ status' = [status EXCEPT ![req[w].o] = req[w].to]
  /\ Resume(w, AfterWrite(req[w]))
  /\ UNCHANGED <<gatewayVars, payIntent, paidBy, offered, otherVars>>

-----------------------------------------------------------------------------
(* The payout: capture, transfer, then either record it or queue a retry.   *)
(* The writer's "complete", the auto-completion sweep, a ruling against a   *)
(* refund and the retry poll all run through these steps.                   *)

\* Mutant: an order can be completed before it is delivered.
CompleteUndelivered(w, o) ==
  /\ status[o] \in {"claimed", "delivered"} /\ o \in Payable
  /\ Begin(w, [Idle EXCEPT !.op = "complete", !.at = "capture", !.o = o, !.i = payIntent[o]])
  /\ UNCHANGED <<gatewayVars, tableVars>>

CompleteOrder(w, o) ==
  /\ status[o] = "delivered" /\ o \in Payable
  /\ Begin(w, [Idle EXCEPT !.op = "complete", !.at = "capture", !.o = o,
                           !.i = payIntent[o]])
  /\ UNCHANGED <<gatewayVars, tableVars>>

\* deliveredAt is set together with "delivered"; the cutoff may have passed.
AutoComplete(w, o) ==
  /\ status[o] = "delivered" /\ o \in Payable
  /\ Begin(w, [Idle EXCEPT !.op = "auto", !.at = "capture", !.o = o, !.i = payIntent[o]])
  /\ UNCHANGED <<gatewayVars, tableVars>>

Capture(w) ==
  /\ At(w, "capture")
  /\ CapturePayment(req[w].o, req[w].i)
  /\ Answer(w, [req[w] EXCEPT !.at = "transfer"])
  /\ UNCHANGED tableVars

\* idem_transfer_<o> is key 0, idem_transfer_retry_<o>_0 is key 1: attempt_number
\* stays 0, as the only statement that counts it up fails (see Reschedule).
TransferKey(r) == <<r.o, IF r.op = "poll" THEN 1 ELSE 0>>

\* Mutant: a refused transfer is taken for a made one.
TransferUnchecked(w) ==
  /\ At(w, "transfer")
  /\ TransferToProvider(TransferKey(req[w])) \/ UNCHANGED gatewayVars
  /\ Goto(w, "settle")
  /\ UNCHANGED tableVars

Transfer(w) ==
  /\ At(w, "transfer")
  /\ TransferToProvider(TransferKey(req[w]))
  /\ Answer(w, [req[w] EXCEPT !.at = "settle"])
  /\ UNCHANGED tableVars

Settle(w) ==
  /\ At(w, "settle")
  /\ status' = [status EXCEPT ![req[w].o] = "completed"]
  /\ paidBy' = [paidBy EXCEPT ![req[w].o] = TransferKey(req[w])]
  /\ Resume(w, CASE req[w].op = "resolve" -> [req[w] EXCEPT !.at = "resolved"]
                 [] req[w].op = "poll"    -> [req[w] EXCEPT !.at = "succeed"]
                 [] OTHER                 -> Idle)
  /\ UNCHANGED <<gatewayVars, payIntent, offered, otherVars>>

NextRetry(r) == retry[r] = NoRetry /\ \A s \in Retries : s < r => retry[s] # NoRetry

\* Mutant: the entry names the intent, not the order.
QueueIntent(w, r) ==
  /\ At(w, "queue")
  /\ NextRetry(r)
  /\ retry' = [retry EXCEPT ![r] =
                 [order |-> req[w].i, status |-> "pending"]]
  /\ Resume(w, Idle)
  /\ UNCHANGED <<gatewayVars, orderVars, deliveries, disputeVars, hook>>

QueueRetry(w, r) ==
  /\ At(w, "queue")
  /\ NextRetry(r)
  /\ retry' = [retry EXCEPT ![r] =
                 [order |-> req[w].o, status |-> "pending"]]
  /\ Resume(w, Idle)
  /\ UNCHANGED <<gatewayVars, orderVars, deliveries, disputeVars, hook>>

-----------------------------------------------------------------------------
(* The retry poll.  next_retry_at may always have passed.                   *)

PollRetry(w, r) ==
  /\ retry[r].status = "pending"
  /\ Begin(w, [Idle EXCEPT !.op = "poll", !.at = "mark", !.o = retry[r].order, !.id = r])
  /\ UNCHANGED <<gatewayVars, tableVars>>

SetRetry(w, s) ==
  /\ retry' = [retry EXCEPT ![req[w].id].status = s]
  /\ UNCHANGED <<gatewayVars, orderVars, deliveries, disputeVars, hook>>

MarkProcessing(w) ==
  /\ At(w, "mark")
  /\ SetRetry(w, "processing")
  /\ Goto(w, "reload")

\* getOrder and getProvider, outside the try block.
ReloadOrder(w) ==
  /\ At(w, "reload")
  /\ Goto(w, "transfer")
  /\ UNCHANGED <<gatewayVars, tableVars>>

MarkSucceeded(w) ==
  /\ At(w, "succeed")
  /\ SetRetry(w, "succeeded")
  /\ Resume(w, Idle)

\* The UPDATE that reschedules the entry never mentions its parameter $2, which
\* PostgreSQL rejects: it throws, and the entry stays "processing".  The branch that
\* gives up after the last entry of PAYMENT_RETRY_BACKOFF_MS is therefore never taken.
Reschedule(w) ==
  /\ At(w, "failed")
  /\ Resume(w, Idle)
  /\ UNCHANGED <<gatewayVars, tableVars>>

-----------------------------------------------------------------------------
(* Disputes: opened by the writer or by the SLA sweep, ruled on by an admin. *)

OpenDispute(w, o) ==
  /\ status[o] = "delivered"
  /\ Begin(w, [Idle EXCEPT !.op = "dispute", !.at = "existing", !.o = o, !.to = "disputed"])
  /\ UNCHANGED <<gatewayVars, tableVars>>

\* Mutant: the status is written before the dispute exists.
SlaStatusFirst(w, o) ==
  /\ status[o] = "claimed"
  /\ Begin(w, [Idle EXCEPT !.op = "sla", !.at = "write", !.o = o, !.to = "disputed"])
  /\ UNCHANGED <<gatewayVars, tableVars>>

\* slaDeadline is set together with "claimed" and may have passed.
SlaBreach(w, o) ==
  /\ status[o] = "claimed"
  /\ Begin(w, [Idle EXCEPT !.op = "sla", !.at = "existing", !.o = o, !.to = "disputed"])
  /\ UNCHANGED <<gatewayVars, tableVars>>

LatestDisputeOpen(o) ==
  \E d \in OpenDisputes(o) : \A e \in Disputes : dispute[e].order = o => e <= d

\* getDisputeByOrder: any dispute stops the writer, an open latest one the sweep.
CheckExisting(w) ==
  LET o == req[w].o
      found == IF req[w].op = "sla" THEN LatestDisputeOpen(o)
               ELSE \E d \in Disputes : dispute[d].order = o
  IN /\ At(w, "existing")
     /\ IF found THEN Resume(w, Idle) ELSE Goto(w, "check")
     /\ UNCHANGED <<gatewayVars, tableVars>>

\* createDispute is a SELECT followed by an INSERT, without a constraint.
CheckOpen(w) ==
  /\ At(w, "check")
  /\ IF OpenDisputes(req[w].o) # {} THEN Resume(w, Idle) ELSE Goto(w, "open")
  /\ UNCHANGED <<gatewayVars, tableVars>>

InsertDispute(w, d) ==
  /\ At(w, "open")
  /\ dispute[d] = NoDispute /\ \A e \in Disputes : e < d => dispute[e] # NoDispute
  /\ dispute' = [dispute EXCEPT ![d] = [order |-> req[w].o, status |-> "open"]]
  /\ Resume(w, [req[w] EXCEPT !.at = "write", !.id = d])
  /\ UNCHANGED <<gatewayVars, orderVars, deliveries, trail, retry, hook>>

ResolveDispute(w, d, ruling) ==
  /\ dispute[d] # NoDispute
  /\ Begin(w, [Idle EXCEPT !.op = "resolve", !.at = "ruling", !.o = dispute[d].order,
                           !.i = payIntent[dispute[d].order], !.id = d, !.to = ruling])
  /\ UNCHANGED <<gatewayVars, tableVars>>

\* Mutants: the WHERE clause on the status is dropped; the event is recorded in
\* place of the refund.
RuleAgain(w) ==
  LET r == req[w] IN
  /\ At(w, "ruling")
  /\ dispute' = [dispute EXCEPT ![r.id].status = r.to]
  /\ IF r.to = "resolved_refund" THEN Resume(w, [r EXCEPT !.at = "refund", !.to = "refunded"])
     ELSE Goto(w, "capture")
  /\ UNCHANGED <<gatewayVars, orderVars, deliveries, trail, retry, hook>>

RuleWithoutRefund(w) ==
  LET r == req[w] IN
  /\ At(w, "ruling")
  /\ dispute[r.id].status = "open"
  /\ dispute' = [dispute EXCEPT ![r.id].status = r.to]
  /\ Goto(w, IF r.to = "resolved_refund" THEN "resolved" ELSE "capture")
  /\ UNCHANGED <<gatewayVars, orderVars, deliveries, trail, retry, hook>>

\* UPDATE ... WHERE status IN ('open', 'under_review'): one ruling per dispute.
RuleOnDispute(w) ==
  LET r == req[w] IN
  /\ At(w, "ruling")
  /\ IF dispute[r.id].status # "open" THEN dispute' = dispute /\ Resume(w, Idle)
     ELSE /\ dispute' = [dispute EXCEPT ![r.id].status = r.to]
          /\ CASE r.to = "resolved_refund" ->
                    Resume(w, [r EXCEPT !.at = "refund", !.to = "refunded"])
               [] r.to = "resolved_no_refund" /\ r.o \in Payable -> Goto(w, "capture")
               [] OTHER -> Resume(w, Idle)
  /\ UNCHANGED <<gatewayVars, orderVars, deliveries, trail, retry, hook>>

RecordEvent(w, type) ==
  /\ At(w, type)
  /\ trail' = trail \cup {<<req[w].id, type>>}
  /\ Resume(w, Idle)
  /\ UNCHANGED <<gatewayVars, orderVars, deliveries, dispute, retry, hook>>

-----------------------------------------------------------------------------
(* Webhooks.  A delivery of an event that is already logged changes nothing. *)

\* Mutant: only a processed event counts as a duplicate.
ReceiveUnlessProcessed(w, e) ==
  /\ e \in sent /\ hook[e] # "processed"
  /\ hook' = [hook EXCEPT ![e] = "received"]
  /\ Begin(w, [Idle EXCEPT !.op = "hook", !.at = "lookup", !.i = e[2], !.e = e])
  /\ UNCHANGED <<gatewayVars, orderVars, deliveries, disputeVars, retry>>

ReceiveWebhook(w, e) ==
  /\ e \in sent /\ hook[e] = "none"
  /\ hook' = [hook EXCEPT ![e] = "received"]
  /\ Begin(w, [Idle EXCEPT !.op = "hook", !.at = "lookup", !.i = e[2], !.e = e])
  /\ UNCHANGED <<gatewayVars, orderVars, deliveries, disputeVars, retry>>

\* The status an event makes of an order, and the statuses it applies to.
Target(type) ==
  CASE type = "amount_capturable" -> "payment_held"
    [] type = "canceled"          -> "cancelled"
    [] type = "charge_failed"     -> "payment_failed"
    [] type = "charge_refunded"   -> "refunded"
    [] type = "charge_dispute"    -> "disputed"

\* Mutant: the authorisation is applied to an order that has it already.
AppliesToHeld(type, s) ==
  CASE type = "amount_capturable" -> s = "payment_held"
    [] type = "charge_failed"     -> s \in {"placed", "payment_held"}
    [] OTHER                      -> s # Target(type)

Applies(type, s) ==
  CASE type = "amount_capturable" -> s = "placed"
    [] type = "charge_failed"     -> s \in {"placed", "payment_held"}
    [] OTHER                      -> s # Target(type)

LookupOrder(w) ==
  LET type  == req[w].e[1]
      found == {o \in Orders : payIntent[o] = req[w].i /\ Applies(type, status[o])}
  IN /\ At(w, "lookup")
     /\ \/ found = {} /\ Goto(w, "log")
        \/ \E o \in found : Resume(w, [req[w] EXCEPT !.at = "write", !.o = o,
                                                     !.to = Target(type)])
     /\ UNCHANGED <<gatewayVars, tableVars>>

\* With a receipt URL the order is written once more, again as "payment_held".
StoreReceipt(w) ==
  /\ At(w, "receipt")
  /\ status' \in {status, [status EXCEPT ![req[w].o] = "payment_held"]}
  /\ Goto(w, "log")
  /\ UNCHANGED <<gatewayVars, payIntent, paidBy, offered, otherVars>>

LogWebhook(w) ==
  /\ req[w].at \in {"log", "logFailed"}
  /\ hook' = [hook EXCEPT ![req[w].e] = IF At(w, "log") THEN "processed" ELSE "failed"]
  /\ Resume(w, Idle)
  /\ UNCHANGED <<gatewayVars, orderVars, deliveries, disputeVars, retry>>

-----------------------------------------------------------------------------
Outside ==
  /\ \/ \E o \in Orders : \E i \in offered[o] : Authorise(i) \/ Decline(i)
     \/ \E i \in Intents : CancelIntent(i) \/ Chargeback(i)
  /\ UNCHANGED <<tableVars, req>>

\* A request arrives, an event is delivered or a timer fires.
Arrival ==
  \/ \E w \in Handlers :
       \/ PlaceOrder(w)
       \/ \E o \in Orders : \/ RetryPayment(w, o) \/ ClaimOrder(w, o) \/ DeliverOrder(w, o)
                            \/ CompleteOrder(w, o) \/ CancelOrder(w, o) \/ OpenDispute(w, o)
       \/ \E d \in Disputes, ruling \in Ruling : ResolveDispute(w, d, ruling)
       \/ \E e \in Event : ReceiveWebhook(w, e)
  \/ \E w \in Sweepers, o \in Orders : AutoComplete(w, o) \/ SlaBreach(w, o)
  \/ \E w \in Pollers, r \in Retries : PollRetry(w, r)

\* A running function performs its next await successfully.
Proceed(w) ==
  \/ \E i \in Intents : CreateIntent(w, i)
  \/ \E o \in Orders : InsertOrder(w, o)
  \/ ReplaceIntent(w) \/ CreateDelivery(w) \/ RefundPayment(w) \/ WriteStatus(w)
  \/ Capture(w) \/ Transfer(w) \/ Settle(w) \/ \E r \in Retries : QueueRetry(w, r)
  \/ MarkProcessing(w) \/ ReloadOrder(w) \/ MarkSucceeded(w) \/ Reschedule(w)
  \/ CheckExisting(w) \/ CheckOpen(w) \/ \E d \in Disputes : InsertDispute(w, d)
  \/ RuleOnDispute(w) \/ RecordEvent(w, "opened") \/ RecordEvent(w, "resolved")
  \/ LookupOrder(w) \/ StoreReceipt(w) \/ LogWebhook(w)

Next == Outside \/ Arrival \/ Crash \/ \E w \in Workers : Proceed(w) \/ Throw(w)

Spec == Init /\ [][Next]_vars

\* Node's event loop runs every pending continuation.  The 30 second timer keeps
\* polling where COVERAGE_SLA_MAINTENANCE_MS is positive: with its default, 0, neither
\* timer is ever set, and Sweepers and Pollers are empty.  Neither the outside world nor
\* any user is under an obligation.
Fairness ==
  /\ \A w \in Workers : WF_vars(Proceed(w) \/ Throw(w))
  /\ \A w \in Pollers : WF_vars(\E r \in Retries : PollRetry(w, r))

\* The platform repeats an event until it is answered.  As no event is received a
\* second time, this says the same as one such condition for each event.
Redelivery == SF_vars(\E w \in Handlers, e \in Event : ReceiveWebhook(w, e))

FairSpec == Spec /\ Fairness /\ Redelivery

-----------------------------------------------------------------------------
(* Properties.                                                              *)

TypeOK ==
  /\ GatewayTypeOK
  /\ status \in [Orders -> Status]
  /\ payIntent \in [Orders -> Intents \cup {None}]
  /\ paidBy \in [Orders -> Key \cup {None}]
  /\ deliveries \subseteq Orders
  /\ dispute \in [Disputes -> [order : Orders \cup {None},
                               status : {"none", "open"} \cup Ruling]]
  /\ trail \subseteq Disputes \X {"opened", "resolved"}
  /\ retry \in [Retries -> [order : Orders \cup {None},
                            status : {"none", "pending", "processing", "succeeded"}]]
  /\ hook \in [Event -> {"none", "received", "processed", "failed"}]
  /\ offered \in [Orders -> SUBSET Intents]
  /\ req \in [Workers -> Request]

\* A provider is only ever paid for an order whose payment was captured first,
\* on every path to a transfer: completion, the sweep, a ruling, a retry.
PayoutAfterCapture == \A key \in transfers : captures[key[1]] # None

\* A provider is only ever paid for an order that has a delivery, or that an
\* admin ruled in the provider's favour, however stale what the function read.
EarnedBy(o) == \/ o \in deliveries
               \/ \E d \in Disputes : /\ dispute[d].order = o
                                       /\ dispute[d].status = "resolved_no_refund"
PayoutIsEarned == \A key \in transfers : EarnedBy(key[1])

\* The platform's records and the evidence for a payout implement the escrow.
Escrow == INSTANCE CoverageEscrow WITH
            earned   <- {o \in Orders : EarnedBy(o)},
            captured <- {o \in Orders : captures[o] # None},
            paid     <- transfers,
            refunded <- {o \in Orders : refunds[o] # None}
EscrowImplemented == Escrow!Spec

\* An order that says "completed" names a transfer that the platform executed
\* for this very order.
CompletedIsPaid ==
  \A o \in Orders : status[o] = "completed" => paidBy[o] \in transfers /\ paidBy[o][1] = o

\* The audit trail says "resolved" only when the money has moved as ruled.
TrailTruthful ==
  \A d \in Disputes : <<d, "resolved">> \in trail =>
    LET o == dispute[d].order IN
    \/ dispute[d].status = "resolved_refund" /\ refunds[o] # None
    \/ dispute[d].status = "resolved_no_refund" /\ <<o, 0>> \in transfers

\* No order is marked disputed before its dispute is stored: an order that says
\* "disputed" has a dispute, open or ruled on, unless the card network reported a
\* chargeback.  That dispute need not be open any more: an admin may rule on it between
\* the INSERT and the status write, which then leaves nothing to rule on.
DisputedHasDispute ==
  \A o \in Orders : status[o] = "disputed" =>
    \/ \E d \in Disputes : dispute[d].order = o
    \/ \E i \in offered[o] : <<"charge_dispute", i>> \in sent

\* No provider is offered work, works or delivers on an order for which the
\* platform never reported an authorised payment, even when an order goes
\* through several intents and their events arrive late.
WorkIsPaid ==
  \A o \in Orders : status[o] \in {"payment_held", "claimed", "delivered"} =>
    \E i \in offered[o] : <<"amount_capturable", i>> \in sent

\* However often an event is delivered, at most one function is handling it, and
\* none once its log entry is final.
WebhookHandledOnce ==
  \A e \in Event :
    LET handling == {w \in Workers : req[w].op = "hook" /\ req[w].e = e}
    IN /\ Cardinality(handling) <= 1
       /\ hook[e] # "received" => handling = {}

\* At most one function acts on the ruling of a dispute: two admins deciding at
\* once cannot make it both refund the writer and pay the provider.
ActingOn(d) == {w \in Workers : /\ req[w].op = "resolve" /\ req[w].id = d
                                /\ req[w].at \notin {"ruling"}}
OneRulingActs ==
  \A d \in Disputes :
    /\ Cardinality(ActingOn(d)) <= 1
    /\ dispute[d].status = "open" => ActingOn(d) = {}

\* An order whose current payment the platform reported authorised does not
\* stay "placed", where its provider could never claim it.
AuthorisedLeavesPlaced ==
  \A o \in Orders :
    status[o] = "placed" /\ <<"amount_capturable", payIntent[o]>> \in sent
      ~> status[o] # "placed"

=============================================================================
