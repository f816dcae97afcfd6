------------------------- MODULE CoverageOrdersProofs -------------------------
(***************************************************************************)
(* The safety of payouts, for any number of orders, intents, disputes,     *)
(* retries and concurrent functions, with either store and with any        *)
(* faults: types, PayoutAfterCapture, PayoutIsEarned, CompletedIsPaid, and *)
(* that the marketplace implements the escrow; then WorkIsPaid,            *)
(* DisputedHasDispute, OneRulingActs, TrailTruthful and WebhookHandledOnce.*)
(*                                                                         *)
(* None of these is inductive: they depend on what every running function  *)
(* still knows from rows it read some awaits ago.  The strengthening says, *)
(* per step of a function, what its local variables guarantee of tables    *)
(* that others have written since.  It works because the evidence a payout *)
(* needs only grows (Evidence), so knowledge of it cannot go stale.        *)
(***************************************************************************)
EXTENDS CoverageOrders, FiniteSetTheorems, TLAPS

\* The steps of a function that has captured, or knows captured, the payment.
Funded == {"mark", "reload", "transfer", "queue", "settle", "succeed", "failed"}

\* The steps of a function that holds an order it has read, and a status to write.
Reading == {"repay", "delivery", "write", "refund", "existing", "check", "open", "ruling",
            "capture", "receipt"} \cup Funded
Writing == {"delivery", "write", "refund", "existing", "check", "open"}

OrderPlaced(o) == o \in Orders /\ payIntent[o] \in Intents

RequestOK(r) ==
  /\ r.at \in Reading => OrderPlaced(r.o)
  /\ r.at = "intent" /\ r.op # "place" => OrderPlaced(r.o)
  /\ r.at \in {"insert", "repay", "refund", "ruling", "capture"} => r.i \in Intents
  /\ r.at \in Writing => r.to \in Status \ {"none", "completed"}
  /\ r.at \in Writing /\ r.to = "delivered" =>
       \/ r.at = "delivery"
       \/ r.at = "write" /\ r.o \in deliveries
  /\ r.at = "delivery" => r.op = "deliver"
  /\ r.at \in {"existing", "check", "open"} => r.op \in {"dispute", "sla"}
  /\ r.at = "refund" => r.op \in {"cancel", "resolve"}
  /\ r.at = "ruling" => /\ r.op = "resolve" /\ r.to \in Ruling
                        /\ r.id \in Disputes /\ dispute[r.id].order = r.o
  /\ r.op = "resolve" \/ r.at \in {"opened", "resolved"} => r.id \in Disputes
  /\ r.op \in {"dispute", "sla"} /\ r.at = "write" => r.id \in Disputes
  /\ r.at = "lookup" => r.op = "hook" /\ r.e \in Event /\ r.i \in Intents
  /\ r.at \in {"mark", "succeed", "failed"} => r.op = "poll"
  /\ r.op = "poll" => r.id \in Retries /\ retry[r.id].status # "none"
  /\ r.at \in {"capture"} \cup Funded => EarnedBy(r.o)
  /\ r.at \in Funded => captures[r.o] # None
  /\ r.at = "settle" => TransferKey(r) \in transfers

OrderRows ==
  \A o \in Orders : /\ status[o] # "none" => payIntent[o] \in Intents
                    /\ status[o] = "delivered" => o \in deliveries
DisputeRows ==
  \A d \in Disputes : dispute[d] # NoDispute => OrderPlaced(dispute[d].order)
RetryRows ==
  \A r \in Retries : retry[r].status # "none" =>
    /\ OrderPlaced(retry[r].order)
    /\ EarnedBy(retry[r].order)
    /\ captures[retry[r].order] # None

\* TypeOK without the running functions.
TablesOK ==
  /\ GatewayTypeOK
  /\ status \in [Orders -> Status]
  /\ payIntent \in [Orders -> Intents \cup {None}]
  /\ paidBy \in [Orders -> Key \cup {None}]
  /\ deliveries \subseteq Orders
  /\ dispute \in [Disputes -> [order : Orders \cup {None},
                               status : {"none", "open"} \cup Ruling]]
  /\ trail \subseteq Disputes \X {"opened", "resolved"}
  /\ retry \in [Retries -> [order : Orders \cup {None},
                 status : {"none", "pending", "processing", "succeeded"}]]
  /\ hook \in [Event -> {"none", "received", "processed", "failed"}]
  /\ offered \in [Orders -> SUBSET Intents]

RowsOK == /\ OrderRows /\ DisputeRows /\ RetryRows
          /\ PayoutAfterCapture /\ PayoutIsEarned /\ CompletedIsPaid

IInv == TypeOK /\ RowsOK /\ \A w \in Workers : RequestOK(req[w])

-----------------------------------------------------------------------------
(* What no step takes back.                                                 *)
Evidence ==
  /\ \A o \in Orders : captures[o] # None => captures'[o] # None
  /\ \A o \in Orders : payIntent[o] \in Intents => payIntent'[o] \in Intents
  /\ deliveries \subseteq deliveries'
  /\ transfers \subseteq transfers'
  /\ \A d \in Disputes : dispute[d] # NoDispute =>
       /\ dispute'[d].order = dispute[d].order
       /\ dispute[d].status \in Ruling => dispute'[d].status = dispute[d].status
  /\ \A r \in Retries : retry[r].status # "none" => retry'[r].status # "none"

\* A payout that was earned stays earned.
LEMMA EarnedStable ==
  ASSUME Evidence, NEW o \in Orders, EarnedBy(o)
  PROVE  EarnedBy(o)'
<1>1. CASE o \in deliveries
  BY <1>1 DEF Evidence, EarnedBy
<1>2. CASE \E d \in Disputes : /\ dispute[d].order = o
                               /\ dispute[d].status = "resolved_no_refund"
  <2>1. PICK d \in Disputes : dispute[d].order = o /\ dispute[d].status = "resolved_no_refund"
    BY <1>2
  <2>2. dispute[d] # NoDispute
    BY <2>1 DEF NoDispute
  <2>3. dispute'[d].order = o /\ dispute'[d].status = "resolved_no_refund"
    BY <2>1, <2>2 DEF Evidence, Ruling
  <2> QED BY <2>3 DEF EarnedBy
<1> QED BY <1>1, <1>2 DEF EarnedBy

\* What a waiting function knows stays true while others take steps.
LEMMA RequestStable ==
  ASSUME Evidence, OrdersAssumption, NEW r \in Request, RequestOK(r)
  PROVE  RequestOK(r)'
<1>1. \A o \in Orders : EarnedBy(o) => EarnedBy(o)'
  BY EarnedStable
<1>2. OrderPlaced(r.o) => OrderPlaced(r.o)'
  BY DEF OrderPlaced, Evidence
<1>3. r.at = "ruling" => dispute'[r.id].order = r.o
  <2> SUFFICES ASSUME r.at = "ruling" PROVE dispute'[r.id].order = r.o
    OBVIOUS
  <2>1. r.id \in Disputes /\ dispute[r.id].order = r.o /\ r.o \in Orders
    BY DEF RequestOK, Reading, OrderPlaced
  <2>2. dispute[r.id] # NoDispute
    BY <2>1, GatewayAssumption DEF NoDispute
  <2> QED BY <2>1, <2>2 DEF Evidence
<1>4. r.op = "poll" => r.id \in Retries /\ retry'[r.id].status # "none"
  BY DEF RequestOK, Evidence
<1>5. r.at \in {"capture"} \cup Funded => EarnedBy(r.o)'
  BY <1>1 DEF RequestOK, Reading, OrderPlaced
<1>6. r.at \in Funded => captures'[r.o] # None
  BY DEF RequestOK, Reading, OrderPlaced, Evidence
<1>7. r.at = "settle" => TransferKey(r)' \in transfers'
  BY DEF RequestOK, Evidence, TransferKey
<1>8. r.at \in Writing /\ r.to = "delivered" =>
        r.at = "delivery" \/ (r.at = "write" /\ r.o \in deliveries')
  BY DEF RequestOK, Evidence
<1> QED BY <1>2, <1>3, <1>4, <1>5, <1>6, <1>7, <1>8 DEF RequestOK

\* The rows a step does not write stay as they should be.
LEMMA RowsStable ==
  ASSUME IInv, Evidence, OrdersAssumption, GatewayAssumption
  PROVE  /\ UNCHANGED status => OrderRows'
         /\ UNCHANGED dispute => DisputeRows'
         /\ UNCHANGED retry => RetryRows'
         /\ UNCHANGED transfers => PayoutAfterCapture' /\ PayoutIsEarned'
         /\ UNCHANGED <<status, paidBy>> => CompletedIsPaid'
<1>1. \A o \in Orders : EarnedBy(o) => EarnedBy(o)'
  BY EarnedStable
<1>2. \A o : OrderPlaced(o) => OrderPlaced(o)'
  BY DEF OrderPlaced, Evidence
<1>3. UNCHANGED status => OrderRows'
  BY DEF IInv, RowsOK, OrderRows, Evidence
<1>4. UNCHANGED dispute => DisputeRows'
  BY <1>2 DEF IInv, RowsOK, DisputeRows, NoDispute
<1>5. UNCHANGED retry => RetryRows'
  BY <1>1, <1>2 DEF IInv, RowsOK, RetryRows, Evidence, OrderPlaced
<1>6. UNCHANGED transfers => PayoutAfterCapture' /\ PayoutIsEarned'
  BY <1>1 DEF IInv, TypeOK, GatewayTypeOK, RowsOK, PayoutAfterCapture, PayoutIsEarned, Evidence
<1>7. UNCHANGED <<status, paidBy>> => CompletedIsPaid'
  BY DEF IInv, RowsOK, CompletedIsPaid, Evidence
<1> QED BY <1>3, <1>4, <1>5, <1>6, <1>7

\* A step of one function preserves the invariant if it leaves that function with
\* knowledge that is true and keeps tables and evidence.
LEMMA StepPreserves ==
  ASSUME IInv, Evidence, TablesOK', RowsOK', OrdersAssumption, GatewayAssumption,
         NEW w \in Workers, NEW r \in Request, RequestOK(r)',
         req' = [req EXCEPT ![w] = r]
  PROVE  IInv'
<1>1. req' \in [Workers -> Request]
  BY DEF IInv, TypeOK
<1>2. TypeOK'
  BY <1>1 DEF TypeOK, TablesOK
<1>3. \A v \in Workers : RequestOK(req[v])'
  <2> TAKE v \in Workers
  <2>1. CASE v = w
    <3>1. req'[v] = r
      BY <2>1 DEF IInv, TypeOK
    <3> QED BY <3>1
  <2>2. CASE v # w
    <3>1. PICK q \in Request : q = req[v]
      BY DEF IInv, TypeOK
    <3>2. RequestOK(q)
      BY <3>1 DEF IInv
    <3>3. RequestOK(q)'
      BY <3>2, RequestStable
    <3>4. req'[v] = q
      BY <2>2, <3>1 DEF IInv, TypeOK
    <3> QED BY <3>3, <3>4
  <2> QED BY <2>1, <2>2
<1> QED BY <1>2, <1>3 DEF IInv

\* A step that only changes the local variables of one function.
LEMMA LocalStepPreserves ==
  ASSUME IInv, OrdersAssumption, GatewayAssumption,
         UNCHANGED <<gatewayVars, tableVars>>,
         NEW w \in Workers, NEW r \in Request, RequestOK(r),
         req' = [req EXCEPT ![w] = r]
  PROVE  IInv'
<1> USE DEF gatewayVars, tableVars, orderVars, otherVars, disputeVars
<1>1. TablesOK'
  BY DEF IInv, TypeOK, TablesOK, GatewayTypeOK
<1>2. Evidence
  BY DEF Evidence
<1>3. RowsOK'
  BY <1>2, RowsStable DEF RowsOK
<1>4. RequestOK(r)'
  BY <1>2, RequestStable
<1> QED BY <1>1, <1>2, <1>3, <1>4, StepPreserves

-----------------------------------------------------------------------------
(* What every step preserves, action by action.                             *)

\* Lemma: Initially the invariant holds: there is no row and no request.
LEMMA InitEstablishes ==
  ASSUME Init, OrdersAssumption, GatewayAssumption
  PROVE  IInv
<1>1. Idle \in Request /\ RequestOK(Idle)
  BY DEF Idle, Request, Op, Step, Status, RequestOK, Reading, Writing, Funded
<1>2. TypeOK
  BY <1>1 DEF Init, GatewayInit, TypeOK, GatewayTypeOK, IntentState, Status, NoDispute, NoRetry
<1>3. RowsOK
  BY DEF Init, GatewayInit, RowsOK, OrderRows, DisputeRows, RetryRows, NoRetry,
         PayoutAfterCapture, PayoutIsEarned, CompletedIsPaid
<1> QED BY <1>1, <1>2, <1>3 DEF IInv, Init

\* A function starts by reading rows: it knows what they say.
LEMMA StartPreserves ==
  ASSUME IInv, OrdersAssumption, GatewayAssumption, NEW w \in Workers
  PROVE  /\ PlaceOrder(w) => IInv'
         /\ \A o \in Orders :
              /\ RetryPayment(w, o) \/ ClaimOrder(w, o) \/ DeliverOrder(w, o) => IInv'
              /\ CompleteOrder(w, o) \/ AutoComplete(w, o) \/ CancelOrder(w, o) => IInv'
              /\ OpenDispute(w, o) \/ SlaBreach(w, o) => IInv'
         /\ \A q \in Retries : PollRetry(w, q) => IInv'
         /\ \A d \in Disputes, ruling \in Ruling : ResolveDispute(w, d, ruling) => IInv'
<1> USE DEF Begin, OrderPlaced
<1>1. ASSUME PlaceOrder(w) PROVE IInv'
  <2>1. PICK r : r = [Idle EXCEPT !.op = "place", !.at = "intent"]
    OBVIOUS
  <2>2. r \in Request /\ RequestOK(r)
    BY <2>1 DEF Idle, Request, Op, Step, Status, RequestOK, Reading, Writing, Funded
  <2> QED BY <1>1, <2>1, <2>2, LocalStepPreserves DEF PlaceOrder
<1>2. ASSUME NEW o \in Orders, RetryPayment(w, o) PROVE IInv'
  <2>1. PICK r : r = [Idle EXCEPT !.op = "repay", !.at = "intent", !.o = o]
    OBVIOUS
  <2>2. payIntent[o] \in Intents
    BY <1>2 DEF RetryPayment, IInv, TypeOK, RowsOK, OrderRows
  <2>3. r \in Request /\ RequestOK(r)
    BY <1>2, <2>1, <2>2 DEF Idle, Request, Op, Step, Status, RequestOK, Reading, Writing,
       Funded, RetryPayment
  <2> QED BY <1>2, <2>1, <2>3, LocalStepPreserves DEF RetryPayment
<1>3. ASSUME NEW o \in Orders, ClaimOrder(w, o) PROVE IInv'
  <2>1. PICK r : r = [Idle EXCEPT !.op = "claim", !.at = "write", !.o = o, !.to = "claimed"]
    OBVIOUS
  <2>2. payIntent[o] \in Intents
    BY <1>3 DEF ClaimOrder, IInv, TypeOK, RowsOK, OrderRows
  <2>3. r \in Request /\ RequestOK(r)
    BY <1>3, <2>1, <2>2 DEF Idle, Request, Op, Step, Status, RequestOK, Reading, Writing,
       Funded, ClaimOrder
  <2> QED BY <1>3, <2>1, <2>3, LocalStepPreserves DEF ClaimOrder
<1>4. ASSUME NEW o \in Orders, DeliverOrder(w, o) PROVE IInv'
  <2>1. PICK r : r = [Idle EXCEPT !.op = "deliver", !.at = "delivery", !.o = o,
                                  !.to = "delivered"]
    OBVIOUS
  <2>2. payIntent[o] \in Intents
    BY <1>4 DEF DeliverOrder, IInv, TypeOK, RowsOK, OrderRows
  <2>3. r \in Request /\ RequestOK(r)
    BY <1>4, <2>1, <2>2 DEF Idle, Request, Op, Step, Status, RequestOK, Reading, Writing,
       Funded, DeliverOrder, Ruling
  <2> QED BY <1>4, <2>1, <2>3, LocalStepPreserves DEF DeliverOrder
<1>5. ASSUME NEW o \in Orders, CompleteOrder(w, o) PROVE IInv'
  <2>1. PICK r : r = [Idle EXCEPT !.op = "complete", !.at = "capture", !.o = o,
                                  !.i = payIntent[o]]
    OBVIOUS
  <2>2. payIntent[o] \in Intents /\ EarnedBy(o)
    BY <1>5 DEF CompleteOrder, IInv, TypeOK, RowsOK, OrderRows, EarnedBy
  <2>3. r \in Request /\ RequestOK(r)
    BY <1>5, <2>1, <2>2 DEF Idle, Request, Op, Step, Status, RequestOK, Reading, Writing,
       Funded, CompleteOrder
  <2> QED BY <1>5, <2>1, <2>3, LocalStepPreserves DEF CompleteOrder
<1>6. ASSUME NEW o \in Orders, AutoComplete(w, o) PROVE IInv'
  <2>1. PICK r : r = [Idle EXCEPT !.op = "auto", !.at = "capture", !.o = o, !.i = payIntent[o]]
    OBVIOUS
  <2>2. payIntent[o] \in Intents /\ EarnedBy(o)
    BY <1>6 DEF AutoComplete, IInv, TypeOK, RowsOK, OrderRows, EarnedBy
  <2>3. r \in Request /\ RequestOK(r)
    BY <1>6, <2>1, <2>2 DEF Idle, Request, Op, Step, Status, RequestOK, Reading, Writing,
       Funded, AutoComplete
  <2> QED BY <1>6, <2>1, <2>3, LocalStepPreserves DEF AutoComplete
<1>7. ASSUME NEW o \in Orders, CancelOrder(w, o) PROVE IInv'
  <2>1. PICK r : r = [Idle EXCEPT !.op = "cancel", !.at = "refund", !.o = o,
                                  !.i = payIntent[o], !.to = "cancelled"]
    OBVIOUS
  <2>2. payIntent[o] \in Intents
    BY <1>7 DEF CancelOrder, IInv, TypeOK, RowsOK, OrderRows
  <2>3. r \in Request /\ RequestOK(r)
    BY <1>7, <2>1, <2>2 DEF Idle, Request, Op, Step, Status, RequestOK, Reading, Writing,
       Funded, CancelOrder
  <2> QED BY <1>7, <2>1, <2>3, LocalStepPreserves DEF CancelOrder
<1>8. ASSUME NEW o \in Orders, OpenDispute(w, o) PROVE IInv'
  <2>1. PICK r : r = [Idle EXCEPT !.op = "dispute", !.at = "existing", !.o = o,
                                  !.to = "disputed"]
    OBVIOUS
  <2>2. payIntent[o] \in Intents
    BY <1>8 DEF OpenDispute, IInv, TypeOK, RowsOK, OrderRows
  <2>3. r \in Request /\ RequestOK(r)
    BY <1>8, <2>1, <2>2 DEF Idle, Request, Op, Step, Status, RequestOK, Reading, Writing,
       Funded, OpenDispute
  <2> QED BY <1>8, <2>1, <2>3, LocalStepPreserves DEF OpenDispute
<1>9. ASSUME NEW o \in Orders, SlaBreach(w, o) PROVE IInv'
  <2>1. PICK r : r = [Idle EXCEPT !.op = "sla", !.at = "existing", !.o = o, !.to = "disputed"]
    OBVIOUS
  <2>2. payIntent[o] \in Intents
    BY <1>9 DEF SlaBreach, IInv, TypeOK, RowsOK, OrderRows
  <2>3. r \in Request /\ RequestOK(r)
    BY <1>9, <2>1, <2>2 DEF Idle, Request, Op, Step, Status, RequestOK, Reading, Writing,
       Funded, SlaBreach
  <2> QED BY <1>9, <2>1, <2>3, LocalStepPreserves DEF SlaBreach
<1>10. ASSUME NEW q \in Retries, PollRetry(w, q) PROVE IInv'
  <2>1. PICK r : r = [Idle EXCEPT !.op = "poll", !.at = "mark", !.o = retry[q].order, !.id = q]
    OBVIOUS
  <2>2. /\ OrderPlaced(retry[q].order)
        /\ EarnedBy(retry[q].order)
        /\ captures[retry[q].order] # None
        /\ retry[q].status # "none"
    BY <1>10 DEF PollRetry, IInv, TypeOK, RowsOK, RetryRows
  <2>3. /\ r.op = "poll" /\ r.at = "mark" /\ r.id = q
        /\ r.o = retry[q].order
    BY <2>1 DEF Idle
  <2>4. r \in Request
    <3>1. q \in Nat
      BY OrdersAssumption DEF OrdersAssumption, Retries
    <3> QED BY <2>1, <2>2, <3>1 DEF Idle, Request, Op, Step, Status
  <2>5. RequestOK(r)
    BY <1>10, <2>2, <2>3 DEF RequestOK, Reading, Writing, Funded, PollRetry
  <2> QED BY <1>10, <2>1, <2>4, <2>5, LocalStepPreserves DEF PollRetry
<1>11. ASSUME NEW d \in Disputes, NEW ruling \in Ruling, ResolveDispute(w, d, ruling) PROVE IInv'
  <2>1. PICK r : r = [Idle EXCEPT !.op = "resolve", !.at = "ruling", !.o = dispute[d].order,
                                  !.i = payIntent[dispute[d].order], !.id = d, !.to = ruling]
    OBVIOUS
  <2>2. OrderPlaced(dispute[d].order)
    BY <1>11 DEF ResolveDispute, IInv, TypeOK, RowsOK, DisputeRows
  <2>3. /\ r.op = "resolve" /\ r.at = "ruling" /\ r.id = d /\ r.to = ruling
        /\ r.o = dispute[d].order /\ r.i = payIntent[dispute[d].order]
    BY <2>1 DEF Idle
  <2>4. r \in Request
    <3>1. d \in Nat
      BY OrdersAssumption DEF OrdersAssumption, Disputes
    <3> QED BY <2>1, <2>2, <3>1 DEF Idle, Request, Op, Step, Status
  <2>5. RequestOK(r)
    BY <1>11, <2>2, <2>3 DEF RequestOK, Reading, Writing, Funded, ResolveDispute, Ruling
  <2> QED BY <1>11, <2>1, <2>4, <2>5, LocalStepPreserves DEF ResolveDispute
<1> QED BY <1>1, <1>2, <1>3, <1>4, <1>5, <1>6, <1>7, <1>8, <1>9, <1>10, <1>11

\* What a running function knows.
LEMMA Running ==
  ASSUME IInv, NEW w \in Workers
  PROVE  req[w] \in Request /\ RequestOK(req[w])
BY DEF IInv, TypeOK

\* A catch block knows what its try block knew.
LEMMA CatchKnows ==
  ASSUME NEW q \in Request, RequestOK(q)
  PROVE  Catch(q) \in Request /\ RequestOK(Catch(q))
<1>1. Idle \in Request /\ RequestOK(Idle)
  BY DEF Idle, Request, Op, Step, Status, RequestOK, Reading, Writing, Funded
<1>2. ASSUME NEW s \in {"queue", "failed", "logFailed", "log"},
             s = "queue" => q.at \in {"transfer", "settle"},
             s = "failed" => q.op = "poll" /\ q.at \in {"transfer", "settle", "succeed"}
      PROVE  [q EXCEPT !.at = s] \in Request /\ RequestOK([q EXCEPT !.at = s])
  <2>1. PICK r : r = [q EXCEPT !.at = s]
    OBVIOUS
  <2>2. r \in Request
    BY <2>1 DEF Request, Step
  <2>3. /\ r.at = s /\ r.op = q.op /\ r.o = q.o /\ r.i = q.i
        /\ r.id = q.id /\ r.e = q.e /\ r.to = q.to
    BY <2>1 DEF Request
  <2>4. RequestOK(r)
    BY <1>2, <2>3 DEF RequestOK, Reading, Writing, Funded
  <2> QED BY <2>1, <2>2, <2>4
<1>3. CASE q.op \in {"complete", "resolve", "auto"} /\ q.at \in {"transfer", "settle"}
  BY <1>1, <1>2, <1>3 DEF Catch
<1>4. CASE q.op = "poll" /\ q.at \in {"transfer", "settle", "succeed"}
  BY <1>2, <1>4 DEF Catch
<1>5. CASE q.op = "hook"
  BY <1>1, <1>2, <1>5 DEF Catch
<1>6. CASE ~ \/ q.op \in {"complete", "resolve", "auto"} /\ q.at \in {"transfer", "settle"}
             \/ q.op = "poll" /\ q.at \in {"transfer", "settle", "succeed"}
             \/ q.op = "hook"
  BY <1>1, <1>6 DEF Catch
<1> QED BY <1>3, <1>4, <1>5, <1>6

\* Steps of a running function that only read.
LEMMA ReadPreserves ==
  ASSUME IInv, OrdersAssumption, GatewayAssumption, NEW w \in Workers
  PROVE  /\ Throw(w) \/ ReloadOrder(w) => IInv'
         /\ CheckExisting(w) \/ CheckOpen(w) \/ LookupOrder(w) => IInv'
<1>1. PICK q \in Request : q = req[w] /\ RequestOK(q)
  BY Running
<1>2. Idle \in Request /\ RequestOK(Idle)
  BY DEF Idle, Request, Op, Step, Status, RequestOK, Reading, Writing, Funded
<1>3. ASSUME NEW s \in Step, Goto(w, s),
             UNCHANGED <<gatewayVars, tableVars>>, RequestOK([q EXCEPT !.at = s])
      PROVE  IInv'
  <2>1. [q EXCEPT !.at = s] \in Request
    BY DEF Request
  <2> QED BY <1>1, <1>3, <2>1, LocalStepPreserves DEF Goto, Resume
<1>4. ASSUME Resume(w, Idle), UNCHANGED <<gatewayVars, tableVars>> PROVE IInv'
  BY <1>2, <1>4, LocalStepPreserves DEF Resume
<1>5. ASSUME Throw(w) PROVE IInv'
  BY <1>1, <1>5, CatchKnows, LocalStepPreserves DEF Throw, Resume
<1>6. ASSUME ReloadOrder(w) PROVE IInv'
  <2>1. RequestOK([q EXCEPT !.at = "transfer"])
    BY <1>1, <1>6 DEF ReloadOrder, At, Request, RequestOK, Reading, Writing, Funded,
       TransferKey
  <2> QED BY <1>3, <1>6, <2>1 DEF ReloadOrder, Step
<1>7. ASSUME CheckExisting(w) PROVE IInv'
  <2>1. RequestOK([q EXCEPT !.at = "check"])
    BY <1>1, <1>7 DEF CheckExisting, At, Request, RequestOK, Reading, Writing, Funded,
       TransferKey
  <2> QED BY <1>3, <1>4, <1>7, <2>1 DEF CheckExisting, Step
<1>8. ASSUME CheckOpen(w) PROVE IInv'
  <2>1. RequestOK([q EXCEPT !.at = "open"])
    BY <1>1, <1>8 DEF CheckOpen, At, Request, RequestOK, Reading, Writing, Funded, TransferKey
  <2> QED BY <1>3, <1>4, <1>8, <2>1 DEF CheckOpen, Step
<1>9. ASSUME LookupOrder(w) PROVE IInv'
  <2>1. RequestOK([q EXCEPT !.at = "log"])
    BY <1>1 DEF Request, RequestOK, Reading, Writing, Funded, TransferKey
  <2>2. ASSUME UNCHANGED <<gatewayVars, tableVars>>,
               NEW o \in Orders, payIntent[o] = q.i, q.at = "lookup",
               Resume(w, [q EXCEPT !.at = "write", !.o = o, !.to = Target(q.e[1])])
        PROVE  IInv'
    <3>1. PICK r : r = [q EXCEPT !.at = "write", !.o = o, !.to = Target(q.e[1])]
      OBVIOUS
    <3>2. /\ q.op = "hook" /\ q.e[1] \in EventType /\ payIntent[o] \in Intents
          /\ Target(q.e[1]) \in Status \ {"none", "completed", "delivered"}
      BY <1>1, <2>2 DEF RequestOK, Event, EventType, Target, Status
    <3>3. r \in Request
      BY <3>1, <3>2 DEF Request, Step
    <3>4. /\ r.at = "write" /\ r.op = "hook" /\ r.o = o /\ r.i = q.i
          /\ r.to = Target(q.e[1])
      BY <3>1, <3>2 DEF Request
    <3>5. RequestOK(r)
      BY <3>2, <3>4 DEF RequestOK, Reading, Writing, Funded, OrderPlaced
    <3> QED BY <1>1, <2>2, <3>1, <3>3, <3>5, LocalStepPreserves DEF Resume
  <2> QED BY <1>1, <1>3, <1>9, <2>1, <2>2 DEF LookupOrder, Step, At
<1> QED BY <1>5, <1>6, <1>7, <1>8, <1>9

\* Lemma: The idle request is a request and satisfies what is claimed of requests.
LEMMA IdleKnows == Idle \in Request /\ RequestOK(Idle) /\ RequestOK(Idle)'
BY DEF Idle, Request, Op, Step, Status, RequestOK, Reading, Writing, Funded

\* Calls to the payment platform.
LEMMA GatewayCallPreserves ==
  ASSUME IInv, OrdersAssumption, GatewayAssumption, NEW w \in Workers
  PROVE  /\ \A i \in Intents : CreateIntent(w, i) => IInv'
         /\ RefundPayment(w) \/ Capture(w) \/ Transfer(w) => IInv'
<1> USE DEF tableVars, orderVars, otherVars, disputeVars
<1>1. PICK q \in Request : q = req[w] /\ RequestOK(q)
  BY Running
<1>2. ASSUME UNCHANGED tableVars, GatewayTypeOK', Evidence,
             PayoutAfterCapture', PayoutIsEarned', NEW r \in Request, RequestOK(r)',
             req' = [req EXCEPT ![w] = r]
      PROVE  IInv'
  <2>1. TablesOK'
    BY <1>2 DEF IInv, TypeOK, TablesOK
  <2>2. RowsOK'
    BY <1>2, RowsStable DEF RowsOK
  <2> QED BY <1>2, <2>1, <2>2, StepPreserves
<1>3. GatewayTypeOK
  BY DEF IInv, TypeOK
\* The answer is lost: the caller's catch block goes on from what it knew before.
<1>4. ASSUME UNCHANGED tableVars, GatewayTypeOK', Evidence,
             PayoutAfterCapture', PayoutIsEarned', Resume(w, Catch(q))
       PROVE  IInv'
  <2>1. PICK r : r = Catch(q)
    OBVIOUS
  <2>2. r \in Request /\ RequestOK(r)
    BY <1>1, <2>1, CatchKnows
  <2>3. RequestOK(r)'
    BY <1>4, <2>2, RequestStable
  <2> QED BY <1>2, <1>4, <2>1, <2>2, <2>3 DEF Resume
<1>5. ASSUME NEW i \in Intents, CreateIntent(w, i) PROVE IInv'
  <2> USE DEF CreateIntent, CreatePaymentIntent
  <2>0. PICK s \in {"insert", "repay"} : s = IF q.op = "place" THEN "insert" ELSE "repay"
    OBVIOUS
  <2>1. PICK r : r = [q EXCEPT !.i = i, !.at = s]
    OBVIOUS
  <2>2. GatewayTypeOK' /\ Evidence
    BY <1>3, <1>5 DEF GatewayTypeOK, IntentState, Evidence
  <2>3. PayoutAfterCapture' /\ PayoutIsEarned'
    BY <1>5, <2>2, RowsStable
  <2>4. RequestOK(q)'
    BY <1>1, <2>2, RequestStable
  <2>5. r \in Request
    BY <2>1 DEF Request, Step
  <2>6. /\ r.at \in {"insert", "repay"} /\ r.i = i
        /\ r.op = q.op /\ r.o = q.o /\ r.id = q.id
        /\ r.at = "repay" => q.op # "place"
    BY <2>0, <2>1 DEF Request
  <2>7. RequestOK(r)'
    BY <1>1, <1>5, <2>4, <2>6 DEF At, RequestOK, Reading, Writing, Funded
  <2>8. CASE Resume(w, r)
    BY <1>1, <1>2, <1>5, <2>2, <2>3, <2>5, <2>7, <2>8 DEF Resume
  <2>9. CASE Resume(w, Catch(q))
    BY <1>5, <1>4, <2>2, <2>3, <2>9
  <2> QED BY <1>1, <1>5, <2>0, <2>1, <2>8, <2>9 DEF Answer
<1>6. ASSUME RefundPayment(w) PROVE IInv'
  <2> USE DEF RefundPayment, Refund
  <2>1. PICK r : r = [q EXCEPT !.at = "write"]
    OBVIOUS
  <2>2. q.at = "refund" /\ q.o \in Orders /\ q.i \in Intents
    BY <1>1, <1>6 DEF At, RequestOK, Reading, OrderPlaced
  <2>3. GatewayTypeOK'
    <3>1. sent' \subseteq Event
      BY <1>3, <1>6, <1>1, <2>2 DEF GatewayTypeOK, Emit, Event, EventType
    <3> QED BY <1>1, <1>3, <1>6, <2>2, <3>1 DEF GatewayTypeOK, IntentState
  <2>4. Evidence
    BY <1>6 DEF Evidence
  <2>5. PayoutAfterCapture' /\ PayoutIsEarned'
    BY <1>6, <2>4, RowsStable
  <2>6. RequestOK(q)'
    BY <1>1, <2>4, RequestStable
  <2>7. r \in Request
    BY <2>1 DEF Request, Step
  <2>8. r.at = "write" /\ r.i = q.i /\ r.op = q.op /\ r.o = q.o /\ r.id = q.id /\ r.to = q.to
    BY <2>1 DEF Request
  <2>9. RequestOK(r)'
    BY <2>2, <2>6, <2>8 DEF RequestOK, Reading, Writing, Funded
  <2>10. CASE Resume(w, r)
    BY <1>1, <1>2, <1>6, <2>3, <2>4, <2>5, <2>7, <2>9, <2>10 DEF Resume
  <2>11. CASE Resume(w, Catch(q))
    BY <1>6, <1>4, <2>3, <2>4, <2>5, <2>11
  <2> QED BY <1>1, <1>6, <2>1, <2>10, <2>11 DEF Answer
<1>7. ASSUME Capture(w) PROVE IInv'
  <2> USE DEF Capture, CapturePayment
  <2>1. PICK r : r = [q EXCEPT !.at = "transfer"]
    OBVIOUS
  <2>2. q.at = "capture" /\ q.o \in Orders /\ q.i \in Intents /\ EarnedBy(q.o)
    BY <1>1, <1>7 DEF At, RequestOK, Reading, OrderPlaced
  <2>3. GatewayTypeOK'
    BY <1>1, <1>3, <1>7, <2>2 DEF GatewayTypeOK, IntentState
  <2>4. Evidence /\ captures'[q.o] # None
    BY <1>1, <1>3, <1>7, <2>2, GatewayAssumption DEF Evidence, GatewayTypeOK, GatewayAssumption
  <2>5. PayoutAfterCapture' /\ PayoutIsEarned'
    BY <1>7, <2>4, RowsStable
  <2>6. RequestOK(q)'
    BY <1>1, <2>4, RequestStable
  <2>7. r \in Request
    BY <2>1 DEF Request, Step
  <2>8. r.at = "transfer" /\ r.i = q.i /\ r.op = q.op /\ r.o = q.o /\ r.id = q.id /\ r.to = q.to
    BY <2>1 DEF Request
  <2>9. RequestOK(r)'
    BY <2>2, <2>4, <2>6, <2>8 DEF RequestOK, Reading, Writing, Funded
  <2>10. CASE Resume(w, r)
    BY <1>1, <1>2, <1>7, <2>3, <2>4, <2>5, <2>7, <2>9, <2>10 DEF Resume
  <2>11. CASE Resume(w, Catch(q))
    BY <1>7, <1>4, <2>3, <2>4, <2>5, <2>11
  <2> QED BY <1>1, <1>7, <2>1, <2>10, <2>11 DEF Answer
<1>8. ASSUME Transfer(w) PROVE IInv'
  <2> USE DEF Transfer, TransferToProvider
  <2>1. q.at = "transfer" /\ q.o \in Orders /\ EarnedBy(q.o) /\ captures[q.o] # None
    BY <1>1, <1>8 DEF At, RequestOK, Reading, Funded, OrderPlaced
  <2>2. TransferKey(q) \in Orders \X Nat /\ TransferKey(q)[1] = q.o
    BY <2>1 DEF TransferKey, Request
  <2>3. transfers' = transfers \cup {TransferKey(q)} /\ captures' = captures
    BY <1>1, <1>8
  <2>4. GatewayTypeOK' /\ Evidence
    BY <1>3, <1>8, <2>2, <2>3 DEF GatewayTypeOK, Evidence
  <2>5. EarnedBy(q.o)'
    BY <2>1, <2>4, EarnedStable
  <2>6. PayoutAfterCapture'
    BY <2>1, <2>2, <2>3 DEF IInv, RowsOK, PayoutAfterCapture
  <2>7. PayoutIsEarned'
    <3>1. \A o : EarnedBy(o)' <=> EarnedBy(o)
      BY <1>8 DEF EarnedBy
    <3> QED BY <2>1, <2>2, <2>3, <3>1 DEF IInv, RowsOK, PayoutIsEarned
  <2>8. RequestOK(q)'
    BY <1>1, <2>4, RequestStable
  <2>9. CASE Resume(w, [q EXCEPT !.at = "settle"])
    <3>1. PICK r : r = [q EXCEPT !.at = "settle"]
      OBVIOUS
    <3>2. r \in Request
      BY <3>1 DEF Request, Step
    <3>3. r.at = "settle" /\ r.op = q.op /\ r.o = q.o /\ r.id = q.id
      BY <3>1 DEF Request
    <3>4. TransferKey(r) \in transfers'
      BY <2>3, <3>3 DEF TransferKey
    <3>5. RequestOK(r)'
      BY <2>1, <2>8, <3>3, <3>4 DEF RequestOK, Reading, Writing, Funded, TransferKey
    <3> QED BY <1>1, <1>2, <1>8, <2>4, <2>6, <2>7, <2>9, <3>1, <3>2, <3>5 DEF Resume
  <2>10. CASE Resume(w, Catch(q))
    BY <1>8, <1>4, <2>4, <2>6, <2>7, <2>10
  <2> QED BY <1>1, <1>8, <2>9, <2>10 DEF Answer
<1> QED BY <1>5, <1>6, <1>7, <1>8

\* The next local state of a function that only changes its step.
LEMMA NextStepTyped ==
  ASSUME NEW q \in Request, NEW s \in Step, NEW r, r = [q EXCEPT !.at = s]
  PROVE  /\ r \in Request
         /\ r.at = s /\ r.op = q.op /\ r.o = q.o /\ r.i = q.i /\ r.id = q.id
         /\ r.e = q.e /\ r.to = q.to
BY DEF Request

\* Steps that write coverage_orders.
LEMMA OrderWritePreserves ==
  ASSUME IInv, OrdersAssumption, GatewayAssumption, NEW w \in Workers
  PROVE  /\ \A o \in Orders : InsertOrder(w, o) => IInv'
         /\ ReplaceIntent(w) \/ WriteStatus(w) \/ Settle(w) => IInv'
         /\ StoreReceipt(w) => IInv'
<1> USE DEF gatewayVars, orderVars, otherVars, disputeVars
<1>1. PICK q \in Request : q = req[w] /\ RequestOK(q)
  BY Running
<1>2. ASSUME UNCHANGED <<gatewayVars, otherVars>>, Evidence,
             status' \in [Orders -> Status], payIntent' \in [Orders -> Intents \cup {None}],
             paidBy' \in [Orders -> Key \cup {None}], offered' \in [Orders -> SUBSET Intents],
             OrderRows', CompletedIsPaid', NEW r \in Request, RequestOK(r)',
             req' = [req EXCEPT ![w] = r]
      PROVE  IInv'
  <2>1. TablesOK'
    BY <1>2 DEF IInv, TypeOK, TablesOK, GatewayTypeOK
  <2>2. RowsOK'
    BY <1>2, RowsStable DEF RowsOK
  <2> QED BY <1>2, <2>1, <2>2, StepPreserves
<1>3. /\ status \in [Orders -> Status] /\ payIntent \in [Orders -> Intents \cup {None}]
      /\ paidBy \in [Orders -> Key \cup {None}] /\ offered \in [Orders -> SUBSET Intents]
      /\ OrderRows /\ CompletedIsPaid
  BY DEF IInv, TypeOK, RowsOK
<1>4. ASSUME NEW o \in Orders, q.i \in Intents,
             status' = [status EXCEPT ![o] = "placed"],
             payIntent' = [payIntent EXCEPT ![o] = q.i],
             offered' = [offered EXCEPT ![o] = @ \cup {q.i}],
             UNCHANGED <<gatewayVars, paidBy, otherVars>>, req' = [req EXCEPT ![w] = Idle]
      PROVE  IInv'
  <2>1. Evidence
    BY <1>3, <1>4 DEF Evidence
  <2>2. OrderRows' /\ CompletedIsPaid'
    BY <1>3, <1>4 DEF OrderRows, CompletedIsPaid
  <2>3. /\ status' \in [Orders -> Status] /\ payIntent' \in [Orders -> Intents \cup {None}]
        /\ paidBy' \in [Orders -> Key \cup {None}] /\ offered' \in [Orders -> SUBSET Intents]
    BY <1>3, <1>4 DEF Status
  <2> QED BY <1>2, <1>4, <2>1, <2>2, <2>3, IdleKnows
<1>5. ASSUME NEW o \in Orders, InsertOrder(w, o) PROVE IInv'
  <2>1. q.i \in Intents
    BY <1>1, <1>5 DEF InsertOrder, At, RequestOK
  <2> QED BY <1>1, <1>4, <1>5, <2>1 DEF InsertOrder, Resume
<1>6. ASSUME ReplaceIntent(w) PROVE IInv'
  <2>1. q.i \in Intents /\ q.o \in Orders
    BY <1>1, <1>6 DEF ReplaceIntent, At, RequestOK, Reading, OrderPlaced
  <2> QED BY <1>1, <1>4, <1>6, <2>1 DEF ReplaceIntent, Resume
<1>7. ASSUME NEW o \in Orders, payIntent[o] \in Intents,
             NEW s \in Status \ {"none", "completed"}, s = "delivered" => o \in deliveries,
             status' = [status EXCEPT ![o] = s],
             UNCHANGED <<gatewayVars, payIntent, paidBy, offered, otherVars>>,
             NEW r \in Request, RequestOK(r), req' = [req EXCEPT ![w] = r]
      PROVE  IInv'
  <2>1. Evidence
    BY <1>7 DEF Evidence
  <2>2. OrderRows' /\ CompletedIsPaid'
    BY <1>3, <1>7 DEF OrderRows, CompletedIsPaid
  <2>3. status' \in [Orders -> Status]
    BY <1>3, <1>7
  <2>4. RequestOK(r)'
    BY <1>7, <2>1, RequestStable
  <2> QED BY <1>2, <1>3, <1>7, <2>1, <2>2, <2>3, <2>4
<1>8. ASSUME UNCHANGED <<gatewayVars, orderVars, otherVars>>,
             NEW r \in Request, RequestOK(r), req' = [req EXCEPT ![w] = r]
      PROVE  IInv'
  BY <1>8, LocalStepPreserves DEF tableVars
<1>9. ASSUME WriteStatus(w) PROVE IInv'
  <2>1. /\ q.at = "write" /\ q.o \in Orders /\ payIntent[q.o] \in Intents
        /\ q.to \in Status \ {"none", "completed"}
        /\ q.to = "delivered" => q.o \in deliveries
    BY <1>1, <1>9 DEF WriteStatus, At, RequestOK, Reading, Writing, OrderPlaced
  <2>2. PICK r : r = AfterWrite(q)
    OBVIOUS
  <2>3. ASSUME NEW s \in {"opened", "resolved", "receipt", "log"}, r = [q EXCEPT !.at = s],
               s = "opened" => q.op \in {"dispute", "sla"}, s = "resolved" => q.op = "resolve"
        PROVE  r \in Request /\ RequestOK(r)
    <3>1. /\ r \in Request
          /\ r.at = s /\ r.op = q.op /\ r.o = q.o /\ r.i = q.i /\ r.id = q.id
          /\ r.e = q.e /\ r.to = q.to
      BY <2>3, NextStepTyped DEF Step
    <3>2. RequestOK(r)
      BY <1>1, <2>1, <2>3, <3>1 DEF RequestOK, Reading, Writing, Funded
    <3> QED BY <3>1, <3>2
  <2>4. r \in Request /\ RequestOK(r)
    <3>1. CASE q.op \in {"dispute", "sla"}
      BY <2>2, <2>3, <3>1 DEF AfterWrite
    <3>2. CASE q.op = "resolve"
      BY <2>2, <2>3, <3>2 DEF AfterWrite
    <3>3. CASE q.op = "hook"
      BY <2>2, <2>3, <3>3 DEF AfterWrite
    <3>4. CASE q.op \notin {"dispute", "sla", "resolve", "hook"}
      BY <2>2, <3>4, IdleKnows DEF AfterWrite
    <3> QED BY <3>1, <3>2, <3>3, <3>4
  <2> QED BY <1>1, <1>7, <1>9, <2>1, <2>2, <2>4 DEF WriteStatus, Resume
<1>10. ASSUME StoreReceipt(w) PROVE IInv'
  <2>1. q.o \in Orders /\ payIntent[q.o] \in Intents
    BY <1>1, <1>10 DEF StoreReceipt, At, RequestOK, Reading, OrderPlaced
  <2>2. PICK r : r = [q EXCEPT !.at = "log"]
    OBVIOUS
  <2>3. r \in Request /\ r.at = "log" /\ r.op = q.op /\ r.id = q.id
    BY <2>2, NextStepTyped DEF Step
  <2>4. RequestOK(r)
    BY <1>1, <2>3 DEF RequestOK, Reading, Writing, Funded
  <2>5. CASE status' = status
    BY <1>1, <1>8, <1>10, <2>2, <2>3, <2>4, <2>5 DEF StoreReceipt, Goto, Resume
  <2>6. CASE status' = [status EXCEPT ![q.o] = "payment_held"]
    BY <1>1, <1>7, <1>10, <2>1, <2>2, <2>3, <2>4, <2>6 DEF StoreReceipt, Goto, Resume, Status
  <2> QED BY <1>1, <1>10, <2>5, <2>6 DEF StoreReceipt
<1>11. ASSUME Settle(w) PROVE IInv'
  <2> USE DEF Settle
  <2>1. /\ q.at = "settle" /\ q.o \in Orders /\ payIntent[q.o] \in Intents
        /\ TransferKey(q) \in transfers
    BY <1>1, <1>11 DEF At, RequestOK, Reading, Funded, OrderPlaced
  <2>2. TransferKey(q) \in Key /\ TransferKey(q)[1] = q.o
    BY <2>1 DEF TransferKey, Request, Key
  <2>3. Evidence
    BY <1>11 DEF Evidence
  <2>4. OrderRows' /\ CompletedIsPaid'
    BY <1>1, <1>3, <1>11, <2>1, <2>2 DEF OrderRows, CompletedIsPaid
  <2>5. status' \in [Orders -> Status] /\ paidBy' \in [Orders -> Key \cup {None}]
    BY <1>1, <1>3, <1>11, <2>1, <2>2 DEF Status
  <2>6. ASSUME NEW r \in Request, RequestOK(r), req' = [req EXCEPT ![w] = r] PROVE IInv'
    <3>1. RequestOK(r)'
      BY <2>3, <2>6, RequestStable
    <3> QED BY <1>2, <1>3, <1>11, <2>3, <2>4, <2>5, <2>6, <3>1
  <2>7. CASE q.op = "resolve"
    <3>1. PICK r : r = [q EXCEPT !.at = "resolved"]
      OBVIOUS
    <3>2. r \in Request /\ r.at = "resolved" /\ r.op = "resolve" /\ r.id = q.id
      BY <2>7, <3>1, NextStepTyped DEF Step
    <3>3. RequestOK(r)
      BY <1>1, <2>7, <3>2 DEF RequestOK, Reading, Writing, Funded
    <3> QED BY <1>1, <1>11, <2>6, <2>7, <3>1, <3>2, <3>3 DEF Resume
  <2>8. CASE q.op = "poll"
    <3>1. PICK r : r = [q EXCEPT !.at = "succeed"]
      OBVIOUS
    <3>2. r \in Request /\ r.at = "succeed" /\ r.op = "poll" /\ r.id = q.id /\ r.o = q.o
      BY <2>8, <3>1, NextStepTyped DEF Step
    <3>3. RequestOK(r)
      BY <1>1, <2>1, <2>8, <3>2 DEF RequestOK, Reading, Writing, Funded
    <3> QED BY <1>1, <1>11, <2>6, <2>8, <3>1, <3>2, <3>3 DEF Resume
  <2>9. CASE q.op \notin {"resolve", "poll"}
    BY <1>1, <1>11, <2>6, <2>9, IdleKnows DEF Resume
  <2> QED BY <2>7, <2>8, <2>9
<1> QED BY <1>5, <1>6, <1>9, <1>10, <1>11

\* Steps that write the other tables.
LEMMA TableWritePreserves ==
  ASSUME IInv, OrdersAssumption, GatewayAssumption, NEW w \in Workers
  PROVE  /\ CreateDelivery(w) => IInv'
         /\ \A k \in Retries : QueueRetry(w, k) => IInv'
         /\ MarkProcessing(w) \/ MarkSucceeded(w) \/ Reschedule(w) => IInv'
         /\ \A d \in Disputes : InsertDispute(w, d) => IInv'
         /\ RuleOnDispute(w) => IInv'
         /\ \A type \in {"opened", "resolved"} : RecordEvent(w, type) => IInv'
         /\ LogWebhook(w) => IInv'
         /\ \A e \in Event : ReceiveWebhook(w, e) => IInv'
<1> USE DEF gatewayVars, orderVars, disputeVars
<1>1. PICK q \in Request : q = req[w] /\ RequestOK(q)
  BY Running
<1>2. ASSUME UNCHANGED <<gatewayVars, orderVars>>, Evidence,
             deliveries' \subseteq Orders,
             dispute' \in [Disputes -> [order : Orders \cup {None},
                                        status : {"none", "open"} \cup Ruling]],
             trail' \subseteq Disputes \X {"opened", "resolved"},
             retry' \in [Retries -> [order : Orders \cup {None},
                 status : {"none", "pending", "processing", "succeeded"}]],
             hook' \in [Event -> {"none", "received", "processed", "failed"}],
             DisputeRows', RetryRows', NEW r \in Request, RequestOK(r)',
             req' = [req EXCEPT ![w] = r]
      PROVE  IInv'
  <2>1. TablesOK'
    BY <1>2 DEF IInv, TypeOK, TablesOK, GatewayTypeOK
  <2>2. RowsOK'
    BY <1>2, RowsStable DEF RowsOK
  <2> QED BY <1>2, <2>1, <2>2, StepPreserves
<1>3. /\ deliveries \subseteq Orders
      /\ dispute \in [Disputes -> [order : Orders \cup {None},
                                   status : {"none", "open"} \cup Ruling]]
      /\ trail \subseteq Disputes \X {"opened", "resolved"}
      /\ retry \in [Retries -> [order : Orders \cup {None},
                 status : {"none", "pending", "processing", "succeeded"}]]
      /\ hook \in [Event -> {"none", "received", "processed", "failed"}]
      /\ DisputeRows /\ RetryRows
  BY DEF IInv, TypeOK, RowsOK
<1>4. ASSUME CreateDelivery(w) PROVE IInv'
  <2> USE DEF CreateDelivery
  <2>1. q.at = "delivery" /\ q.op = "deliver" /\ q.o \in Orders
    BY <1>1, <1>4 DEF At, RequestOK, Reading, OrderPlaced
  <2>2. Evidence
    BY <1>4 DEF Evidence
  <2>3. DisputeRows' /\ RetryRows'
    BY <1>4, <2>2, RowsStable
  <2>4. RequestOK(q)'
    BY <1>1, <2>2, RequestStable
  <2>5. CASE q.o \in deliveries
    BY <1>1, <1>2, <1>3, <1>4, <2>1, <2>2, <2>3, <2>5, IdleKnows DEF Resume
  <2>6. CASE q.o \notin deliveries
    <3>1. PICK r : r = [q EXCEPT !.at = "write"]
      OBVIOUS
    <3>2. /\ r \in Request /\ r.at = "write" /\ r.op = "deliver" /\ r.o = q.o
          /\ r.to = q.to /\ r.id = q.id
      BY <2>1, <3>1, NextStepTyped DEF Step
    <3>3. q.o \in deliveries'
      BY <1>1, <1>4
    <3>4. RequestOK(r)'
      BY <2>1, <2>4, <3>2, <3>3 DEF RequestOK, Reading, Writing, Funded
    <3> QED BY <1>1, <1>2, <1>3, <1>4, <2>1, <2>2, <2>3, <2>6, <3>1, <3>2, <3>4
            DEF Resume, Goto
  <2> QED BY <2>5, <2>6
<1>5. ASSUME UNCHANGED <<gatewayVars, orderVars, deliveries, disputeVars, hook>>,
             retry' \in [Retries -> [order : Orders \cup {None},
                 status : {"none", "pending", "processing", "succeeded"}]],
             \A k \in Retries : retry[k].status # "none" =>
                 retry'[k].status # "none" /\ retry'[k].order = retry[k].order,
             \A k \in Retries : retry[k].status = "none" =>
                 \/ retry'[k].status = "none"
                 \/ /\ OrderPlaced(retry'[k].order) /\ EarnedBy(retry'[k].order)
                    /\ captures[retry'[k].order] # None,
             NEW r \in Request, RequestOK(r), req' = [req EXCEPT ![w] = r]
      PROVE  IInv'
  <2>1. Evidence
    BY <1>5 DEF Evidence
  <2>2. \A o : EarnedBy(o)' <=> EarnedBy(o)
    BY <1>5 DEF EarnedBy
  <2>3. RetryRows'
    BY <1>3, <1>5, <2>2 DEF RetryRows, OrderPlaced
  <2>4. DisputeRows'
    BY <1>5, <2>1, RowsStable
  <2>5. RequestOK(r)'
    BY <1>5, <2>1, RequestStable
  <2> QED BY <1>2, <1>3, <1>5, <2>1, <2>3, <2>4, <2>5
<1>6. ASSUME NEW k \in Retries, QueueRetry(w, k) PROVE IInv'
  <2>1. OrderPlaced(q.o) /\ EarnedBy(q.o) /\ captures[q.o] # None /\ q.o \in Orders
    BY <1>1, <1>6 DEF QueueRetry, At, RequestOK, Reading, Funded, OrderPlaced
  <2>2. /\ retry[k].status = "none"
        /\ retry' = [retry EXCEPT ![k] = [order |-> q.o, status |-> "pending"]]
    BY <1>1, <1>6 DEF QueueRetry, NextRetry, NoRetry
  <2>3. /\ retry' \in [Retries -> [order : Orders \cup {None},
                 status : {"none", "pending", "processing", "succeeded"}]]
        /\ retry'[k].order = q.o
        /\ \A j \in Retries : j # k => retry'[j] = retry[j]
    BY <1>3, <2>1, <2>2
  <2> QED BY <1>5, <1>6, <2>1, <2>2, <2>3, IdleKnows DEF QueueRetry, Resume
<1>7. ASSUME NEW s \in {"processing", "succeeded"}, SetRetry(w, s),
             q.id \in Retries, retry[q.id].status # "none",
             NEW r \in Request, RequestOK(r), req' = [req EXCEPT ![w] = r]
      PROVE  IInv'
  <2>1. PICK row : row = retry[q.id]
    OBVIOUS
  <2>2. row = [order |-> row.order, status |-> row.status]
    BY <1>3, <1>7, <2>1
  <2>3. retry' = [retry EXCEPT ![q.id] = [order |-> row.order, status |-> s]]
    <3>1. [row EXCEPT !.status = s] = [order |-> row.order, status |-> s]
      BY <2>2
    <3>2. retry' = [retry EXCEPT ![q.id] = [row EXCEPT !.status = s]]
      BY <1>1, <1>7, <2>1 DEF SetRetry
    <3> QED BY <3>1, <3>2
  <2>4. /\ retry' \in [Retries -> [order : Orders \cup {None},
                 status : {"none", "pending", "processing", "succeeded"}]]
        /\ retry'[q.id].order = retry[q.id].order /\ retry'[q.id].status = s
        /\ \A j \in Retries : j # q.id => retry'[j] = retry[j]
    BY <1>3, <1>7, <2>1, <2>3
  <2> QED BY <1>5, <1>7, <2>4 DEF SetRetry
<1>8. ASSUME MarkProcessing(w) PROVE IInv'
  <2>1. PICK r : r = [q EXCEPT !.at = "reload"]
    OBVIOUS
  <2>2. q.at = "mark" /\ q.id \in Retries /\ retry[q.id].status # "none"
    BY <1>1, <1>8 DEF MarkProcessing, At, RequestOK
  <2>3. r \in Request /\ r.at = "reload" /\ r.op = q.op /\ r.o = q.o /\ r.id = q.id
    BY <2>1, NextStepTyped DEF Step
  <2>4. RequestOK(r)
    BY <1>1, <2>2, <2>3 DEF RequestOK, Reading, Writing, Funded
  <2> QED BY <1>1, <1>7, <1>8, <2>1, <2>2, <2>3, <2>4 DEF MarkProcessing, Goto, Resume
<1>9. ASSUME MarkSucceeded(w) PROVE IInv'
  <2>1. q.id \in Retries /\ retry[q.id].status # "none"
    BY <1>1, <1>9 DEF MarkSucceeded, At, RequestOK
  <2> QED BY <1>7, <1>9, <2>1, IdleKnows DEF MarkSucceeded, Resume
<1>10. ASSUME Reschedule(w) PROVE IInv'
  BY <1>10, IdleKnows, LocalStepPreserves DEF Reschedule, Resume
<1>11. ASSUME NEW d \in Disputes, InsertDispute(w, d) PROVE IInv'
  <2> USE DEF InsertDispute
  <2>1. q.at = "open" /\ q.o \in Orders /\ OrderPlaced(q.o)
    BY <1>1, <1>11 DEF At, RequestOK, Reading, OrderPlaced
  <2>2. PICK r : r = [q EXCEPT !.at = "write", !.id = d]
    OBVIOUS
  <2>3. /\ dispute' \in [Disputes -> [order : Orders \cup {None},
                                      status : {"none", "open"} \cup Ruling]]
        /\ dispute[d] = NoDispute /\ dispute'[d].order = q.o
        /\ \A e \in Disputes : e # d => dispute'[e] = dispute[e]
    BY <1>1, <1>3, <1>11, <2>1
  <2>4. Evidence
    BY <1>11, <2>3 DEF Evidence
  <2>5. DisputeRows'
    BY <1>3, <1>11, <2>1, <2>3 DEF DisputeRows, OrderPlaced
  <2>6. RetryRows'
    BY <1>11, <2>4, RowsStable
  <2>7. RequestOK(q)'
    BY <1>1, <2>4, RequestStable
  <2>8. d \in Nat
    BY DEF Disputes, OrdersAssumption
  <2>9. r \in Request /\ r.at = "write" /\ r.op = q.op /\ r.o = q.o /\ r.to = q.to /\ r.id = d
    BY <2>2, <2>8 DEF Request, Step
  <2>10. RequestOK(r)'
    <3>1. q.op # "poll" /\ q.op # "resolve"
      BY <2>1, <1>1 DEF RequestOK
    <3> QED BY <2>1, <2>7, <2>9, <3>1 DEF RequestOK, Reading, Writing, Funded
  <2> QED BY <1>1, <1>2, <1>3, <1>11, <2>2, <2>3, <2>4, <2>5, <2>6, <2>9, <2>10 DEF Resume
<1>12. ASSUME NEW type \in {"opened", "resolved"}, RecordEvent(w, type) PROVE IInv'
  <2> USE DEF RecordEvent
  <2>1. q.id \in Disputes
    BY <1>1, <1>12 DEF At, RequestOK
  <2>2. Evidence
    BY <1>12 DEF Evidence
  <2>3. DisputeRows' /\ RetryRows'
    BY <1>12, <2>2, RowsStable
  <2>4. trail' \subseteq Disputes \X {"opened", "resolved"}
    BY <1>1, <1>3, <1>12, <2>1
  <2> QED BY <1>2, <1>3, <1>12, <2>2, <2>3, <2>4, IdleKnows DEF Resume
<1>13. ASSUME LogWebhook(w) PROVE IInv'
  <2> USE DEF LogWebhook
  <2>1. Evidence
    BY <1>13 DEF Evidence
  <2>2. DisputeRows' /\ RetryRows'
    BY <1>13, <2>1, RowsStable
  <2>3. hook' \in [Event -> {"none", "received", "processed", "failed"}]
    BY <1>3, <1>13
  <2> QED BY <1>2, <1>3, <1>13, <2>1, <2>2, <2>3, IdleKnows DEF Resume
<1>14. ASSUME NEW e \in Event, ReceiveWebhook(w, e) PROVE IInv'
  <2> USE DEF ReceiveWebhook, Begin
  <2>1. Evidence
    BY <1>14 DEF Evidence
  <2>2. DisputeRows' /\ RetryRows'
    BY <1>14, <2>1, RowsStable
  <2>3. hook' \in [Event -> {"none", "received", "processed", "failed"}]
    BY <1>3, <1>14
  <2>4. PICK r : r = [Idle EXCEPT !.op = "hook", !.at = "lookup", !.i = e[2], !.e = e]
    OBVIOUS
  <2>5. e[2] \in Intents
    BY DEF Event
  <2>6. r \in Request
    BY <2>4, <2>5 DEF Idle, Request, Op, Step, Status
  <2>7. r.at = "lookup" /\ r.op = "hook" /\ r.e = e /\ r.i = e[2]
    BY <2>4 DEF Idle
  <2>8. RequestOK(r)'
    BY <2>5, <2>7 DEF RequestOK, Reading, Writing, Funded
  <2> QED BY <1>2, <1>3, <1>14, <2>1, <2>2, <2>3, <2>4, <2>6, <2>8
<1>15. ASSUME RuleOnDispute(w) PROVE IInv'
  <2> USE DEF RuleOnDispute
  <2>1. /\ q.at = "ruling" /\ q.op = "resolve" /\ q.o \in Orders /\ q.i \in Intents
        /\ q.id \in Disputes /\ q.to \in Ruling /\ dispute[q.id].order = q.o
    BY <1>1, <1>15 DEF At, RequestOK, Reading, OrderPlaced
  <2>2. CASE dispute[q.id].status # "open"
    <3>1. UNCHANGED <<gatewayVars, tableVars>>
      BY <1>1, <1>15, <2>2 DEF tableVars, otherVars
    <3> QED BY <1>1, <1>15, <2>2, <3>1, IdleKnows, LocalStepPreserves DEF Resume
  <2>3. CASE dispute[q.id].status = "open"
    <3>1. /\ dispute' \in [Disputes -> [order : Orders \cup {None},
                                        status : {"none", "open"} \cup Ruling]]
          /\ dispute'[q.id].order = q.o /\ dispute'[q.id].status = q.to
          /\ \A d \in Disputes : d # q.id => dispute'[d] = dispute[d]
          /\ dispute[q.id] # NoDispute
      BY <1>1, <1>3, <1>15, <2>1, <2>3 DEF NoDispute
    <3>2. Evidence
      BY <1>15, <2>1, <2>3, <3>1 DEF Evidence, Ruling
    <3>3. DisputeRows'
      BY <1>3, <1>15, <2>1, <3>1 DEF DisputeRows, OrderPlaced
    <3>4. RetryRows'
      BY <1>15, <3>2, RowsStable
    <3>5. RequestOK(q)'
      BY <1>1, <3>2, RequestStable
    <3>6. ASSUME NEW r \in Request, RequestOK(r)', req' = [req EXCEPT ![w] = r] PROVE IInv'
      BY <1>2, <1>3, <1>15, <3>1, <3>2, <3>3, <3>4, <3>6
    <3>7. CASE q.to = "resolved_refund"
      <4>1. PICK r : r = [q EXCEPT !.at = "refund", !.to = "refunded"]
        OBVIOUS
      <4>2. /\ r \in Request /\ r.at = "refund" /\ r.op = "resolve" /\ r.o = q.o /\ r.i = q.i
            /\ r.id = q.id /\ r.to = "refunded"
        BY <2>1, <4>1 DEF Request, Step, Status
      <4>3. RequestOK(r)'
        BY <2>1, <3>5, <4>2 DEF RequestOK, Reading, Writing, Funded, Status
      <4> QED BY <1>1, <1>15, <2>3, <3>6, <3>7, <4>1, <4>2, <4>3 DEF Resume
    <3>8. CASE q.to = "resolved_no_refund" /\ q.o \in Payable
      <4>1. PICK r : r = [q EXCEPT !.at = "capture"]
        OBVIOUS
      <4>2. /\ r \in Request /\ r.at = "capture" /\ r.op = "resolve" /\ r.o = q.o /\ r.i = q.i
            /\ r.id = q.id
        BY <2>1, <4>1, NextStepTyped DEF Step
      <4>3. EarnedBy(q.o)'
        BY <2>1, <3>1, <3>8 DEF EarnedBy
      <4>4. RequestOK(r)'
        BY <2>1, <3>5, <4>2, <4>3 DEF RequestOK, Reading, Writing, Funded
      <4> QED BY <1>1, <1>15, <2>3, <3>6, <3>8, <4>1, <4>2, <4>4 DEF Resume, Goto
    <3>9. CASE q.to = "resolved_no_refund" /\ q.o \notin Payable
      BY <1>1, <1>15, <2>3, <3>6, <3>9, IdleKnows DEF Resume
    <3> QED BY <2>1, <3>7, <3>8, <3>9 DEF Ruling
  <2> QED BY <2>2, <2>3
<1> QED BY <1>4, <1>6, <1>8, <1>9, <1>10, <1>11, <1>12, <1>13, <1>14, <1>15

\* What the writer, the card network and the platform do.
LEMMA OutsidePreserves ==
  ASSUME IInv, OrdersAssumption, GatewayAssumption, Outside
  PROVE  IInv'
<1> USE DEF tableVars, orderVars, otherVars, disputeVars, gatewayVars
<1>1. GatewayTypeOK /\ offered \in [Orders -> SUBSET Intents]
  BY DEF IInv, TypeOK
<1>2. /\ UNCHANGED <<captures, refunds, transfers, tableVars, req>>
      /\ intent' \in [Intents -> IntentState]
  <2>1. ASSUME NEW i \in Intents, Authorise(i) \/ Decline(i) \/ CancelIntent(i) \/ Chargeback(i)
        PROVE  UNCHANGED <<captures, refunds, transfers>> /\ intent' \in [Intents -> IntentState]
    BY <1>1, <2>1 DEF GatewayTypeOK, IntentState, Authorise, Decline, CancelIntent, Chargeback
  <2> QED BY <1>1, <2>1 DEF Outside
<1>3. sent' \subseteq Event
  <2>1. ASSUME NEW i \in Intents, Authorise(i) \/ Decline(i) \/ CancelIntent(i) \/ Chargeback(i)
        PROVE  sent' \subseteq Event
    <3>1. PICK type \in EventType : Emit(type, i)
      BY <2>1 DEF Authorise, Decline, CancelIntent, Chargeback, EventType
    <3> QED BY <1>1, <3>1 DEF GatewayTypeOK, Emit, Event
  <2> QED BY <1>1, <2>1 DEF Outside
<1>4. TypeOK'
  BY <1>1, <1>2, <1>3 DEF IInv, TypeOK, GatewayTypeOK
<1>5. Evidence
  BY <1>2 DEF Evidence
<1>6. RowsOK'
  BY <1>2, <1>5, RowsStable DEF RowsOK
<1>7. ASSUME NEW v \in Workers PROVE RequestOK(req[v])'
  <2>1. PICK q \in Request : q = req[v] /\ RequestOK(q)
    BY Running
  <2>2. RequestOK(q)'
    BY <1>5, <2>1, RequestStable
  <2> QED BY <1>2, <2>1, <2>2
<1> QED BY <1>4, <1>6, <1>7 DEF IInv

\* Lemma: A crash, which drops every request and keeps the rows, keeps the invariant.
LEMMA CrashPreserves ==
  ASSUME IInv, OrdersAssumption, GatewayAssumption, Crash
  PROVE  IInv'
<1> USE DEF tableVars, orderVars, otherVars, disputeVars, gatewayVars
<1>1. UNCHANGED <<gatewayVars, tableVars>> /\ req' = [w \in Workers |-> Idle]
  BY DEF Crash
<1>2. TypeOK'
  BY <1>1, IdleKnows DEF IInv, TypeOK, GatewayTypeOK
<1>3. RowsOK'
  <2>1. Evidence
    BY <1>1 DEF Evidence
  <2> QED BY <1>1, <2>1, RowsStable DEF RowsOK
<1>4. \A w \in Workers : RequestOK(req[w])'
  BY <1>1, IdleKnows
<1> QED BY <1>2, <1>3, <1>4 DEF IInv

\* Lemma: Every step of the service keeps the invariant: one case per action.
LEMMA NextPreserves ==
  ASSUME IInv, OrdersAssumption, GatewayAssumption, [Next]_vars
  PROVE  IInv'
<1>1. CASE UNCHANGED vars
  <2>1. UNCHANGED <<gatewayVars, tableVars, req>>
    BY <1>1 DEF vars
  <2>2. TypeOK'
    BY <2>1 DEF IInv, TypeOK, GatewayTypeOK, gatewayVars, tableVars, orderVars, otherVars,
       disputeVars
  <2>3. Evidence
    BY <2>1 DEF Evidence, gatewayVars, tableVars, orderVars, otherVars, disputeVars
  <2>4. RowsOK'
    BY <2>1, <2>3, RowsStable DEF RowsOK, gatewayVars, tableVars, orderVars, otherVars,
       disputeVars
  <2>5. ASSUME NEW v \in Workers PROVE RequestOK(req[v])'
    <3>1. PICK q \in Request : q = req[v] /\ RequestOK(q)
      BY Running
    <3>2. RequestOK(q)'
      BY <2>3, <3>1, RequestStable
    <3> QED BY <2>1, <3>1, <3>2
  <2> QED BY <2>2, <2>4, <2>5 DEF IInv
<1>2. CASE Outside
  BY <1>2, OutsidePreserves
<1>3. CASE Crash
  BY <1>3, CrashPreserves
<1>4. CASE Arrival
  <2>1. ASSUME NEW w \in Handlers, NEW o \in Orders,
               \/ RetryPayment(w, o) \/ ClaimOrder(w, o) \/ DeliverOrder(w, o)
               \/ CompleteOrder(w, o) \/ CancelOrder(w, o) \/ OpenDispute(w, o)
        PROVE  IInv'
    BY <2>1, StartPreserves DEF Workers
  <2>2. ASSUME NEW w \in Handlers, PlaceOrder(w) PROVE IInv'
    BY <2>2, StartPreserves DEF Workers
  <2>3. ASSUME NEW w \in Handlers, NEW d \in Disputes, NEW ruling \in Ruling,
               ResolveDispute(w, d, ruling)
        PROVE  IInv'
    BY <2>3, StartPreserves DEF Workers
  <2>4. ASSUME NEW w \in Handlers, NEW e \in Event, ReceiveWebhook(w, e) PROVE IInv'
    BY <2>4, TableWritePreserves DEF Workers
  <2>5. ASSUME NEW w \in Sweepers, NEW o \in Orders, AutoComplete(w, o) \/ SlaBreach(w, o)
        PROVE  IInv'
    BY <2>5, StartPreserves DEF Workers
  <2>6. ASSUME NEW w \in Pollers, NEW k \in Retries, PollRetry(w, k) PROVE IInv'
    BY <2>6, StartPreserves DEF Workers
  <2> QED BY <1>4, <2>1, <2>2, <2>3, <2>4, <2>5, <2>6 DEF Arrival
<1>5. CASE \E w \in Workers : Proceed(w) \/ Throw(w)
  <2>1. PICK w \in Workers : Proceed(w) \/ Throw(w)
    BY <1>5
  <2>2. CASE Throw(w)
    BY <2>2, ReadPreserves
  <2>3. CASE Proceed(w)
    <3>1. CASE \/ \E i \in Intents : CreateIntent(w, i)
               \/ RefundPayment(w) \/ Capture(w) \/ Transfer(w)
      BY <3>1, GatewayCallPreserves
    <3>2. CASE \/ \E o \in Orders : InsertOrder(w, o)
               \/ ReplaceIntent(w) \/ WriteStatus(w) \/ Settle(w)
               \/ StoreReceipt(w)
      BY <3>2, OrderWritePreserves
    <3>3. CASE ReloadOrder(w) \/ CheckExisting(w) \/ CheckOpen(w) \/ LookupOrder(w)
      BY <3>3, ReadPreserves
    <3>4. CASE \/ CreateDelivery(w) \/ \E k \in Retries : QueueRetry(w, k)
               \/ MarkProcessing(w) \/ MarkSucceeded(w) \/ Reschedule(w)
               \/ \E d \in Disputes : InsertDispute(w, d)
               \/ RuleOnDispute(w) \/ RecordEvent(w, "opened") \/ RecordEvent(w, "resolved")
               \/ LogWebhook(w)
      BY <3>4, TableWritePreserves
    <3> QED BY <2>3, <3>1, <3>2, <3>3, <3>4 DEF Proceed
  <2> QED BY <2>1, <2>2, <2>3
<1> QED BY <1>1, <1>2, <1>3, <1>4, <1>5 DEF Next

-----------------------------------------------------------------------------
(* The results.                                                             *)

\* In every reachable state the strengthened invariant holds: each table row and
\* each running function of coverage-marketplace-service is as described above.
THEOREM Invariance == Spec => []IInv
<1>1. Init => IInv
  BY InitEstablishes, OrdersAssumption, GatewayAssumption
<1>2. IInv /\ [Next]_vars => IInv'
  BY NextPreserves, OrdersAssumption, GatewayAssumption
<1> QED BY <1>1, <1>2, PTL DEF Spec

\* Every table, column and local variable keeps its type.
THEOREM TypeCorrect == Spec => []TypeOK
<1>1. IInv => TypeOK
  BY DEF IInv
<1> QED BY <1>1, Invariance, PTL

\* transferToProvider is never executed for an order before capturePayment was.
THEOREM NoPayoutBeforeCapture == Spec => []PayoutAfterCapture
<1>1. IInv => PayoutAfterCapture
  BY DEF IInv, RowsOK
<1> QED BY <1>1, Invariance, PTL

\* transferToProvider is never executed for an order that was neither delivered
\* nor ruled in the provider's favour.
THEOREM OnlyEarnedPayouts == Spec => []PayoutIsEarned
<1>1. IInv => PayoutIsEarned
  BY DEF IInv, RowsOK
<1> QED BY <1>1, Invariance, PTL

\* A "completed" order carries the id of a transfer that was executed for it.
THEOREM CompletedOrdersArePaid == Spec => []CompletedIsPaid
<1>1. IInv => CompletedIsPaid
  BY DEF IInv, RowsOK
<1> QED BY <1>1, Invariance, PTL

\* A step that touches neither the platform's books nor the evidence for a payout
\* is a stuttering step of the escrow.
LEMMA QuietSteps ==
  ASSUME UNCHANGED <<captures, refunds, transfers, deliveries, dispute>>
  PROVE  UNCHANGED Escrow!escrowVars
BY DEF Escrow!escrowVars, EarnedBy

\* Every step of the marketplace is a step of the escrow or a stuttering step.
LEMMA StepRefines ==
  ASSUME IInv, OrdersAssumption, GatewayAssumption, [Next]_vars
  PROVE  [Escrow!Next]_(Escrow!escrowVars)
<1> USE DEF gatewayVars, tableVars, orderVars, otherVars, disputeVars
<1> DEFINE Quiet == UNCHANGED <<captures, refunds, transfers, deliveries, dispute>>
<1>1. CASE UNCHANGED vars
  BY <1>1, QuietSteps DEF vars
<1>2. ASSUME Outside PROVE Quiet
  BY <1>2 DEF Outside, Authorise, Decline, CancelIntent, Chargeback
<1>3. ASSUME Crash PROVE Quiet
  BY <1>3 DEF Crash
<1>4. ASSUME Arrival PROVE Quiet
  BY <1>4 DEF Arrival, PlaceOrder, RetryPayment, ClaimOrder, DeliverOrder, CompleteOrder,
     CancelOrder, OpenDispute, ResolveDispute, ReceiveWebhook, AutoComplete, SlaBreach, PollRetry
<1>5. ASSUME NEW w \in Workers, Throw(w) PROVE Quiet
  BY <1>5 DEF Throw
<1>6. ASSUME NEW w \in Workers, Proceed(w) PROVE [Escrow!Next]_(Escrow!escrowVars)
  <2>1. PICK q \in Request : q = req[w] /\ RequestOK(q)
    BY Running
  <2>2. CASE CreateDelivery(w)
    <3>1. q.o \in Orders /\ deliveries' = deliveries \cup {q.o}
      BY <2>1, <2>2 DEF CreateDelivery, At, RequestOK, Reading, OrderPlaced
    <3>2. Escrow!Earn(q.o)
      BY <2>2, <3>1 DEF Escrow!Earn, CreateDelivery, EarnedBy
    <3> QED BY <3>1, <3>2 DEF Escrow!Next
  <2>3. CASE RefundPayment(w)
    <3>1. q.o \in Orders /\ q.i \in Intents /\ refunds' = [refunds EXCEPT ![q.o] = q.i]
      BY <2>1, <2>3 DEF RefundPayment, Refund, At, RequestOK, Reading, OrderPlaced
    <3>2. refunds \in [Orders -> Intents \cup {None}] /\ None \notin Intents
      BY GatewayAssumption DEF IInv, TypeOK, GatewayTypeOK, GatewayAssumption
    <3>3. {o \in Orders : refunds'[o] # None} = {o \in Orders : refunds[o] # None} \cup {q.o}
      BY <3>1, <3>2
    <3>4. UNCHANGED <<captures, transfers, deliveries, dispute>>
      BY <2>3 DEF RefundPayment, Refund
    <3>5. Escrow!GiveBack(q.o)
      BY <3>3, <3>4 DEF Escrow!GiveBack, EarnedBy
    <3> QED BY <3>1, <3>5 DEF Escrow!Next
  <2>4. CASE Capture(w)
    <3>1. /\ q.o \in Orders /\ q.i \in Intents /\ EarnedBy(q.o)
          /\ captures' = [captures EXCEPT ![q.o] = q.i]
      BY <2>1, <2>4 DEF Capture, CapturePayment, At, RequestOK, Reading, OrderPlaced
    <3>2. captures \in [Orders -> Intents \cup {None}] /\ None \notin Intents
      BY GatewayAssumption DEF IInv, TypeOK, GatewayTypeOK, GatewayAssumption
    <3>3. {o \in Orders : captures'[o] # None} = {o \in Orders : captures[o] # None} \cup {q.o}
      BY <3>1, <3>2
    <3>4. UNCHANGED <<refunds, transfers, deliveries, dispute>>
      BY <2>4 DEF Capture, CapturePayment
    <3>5. Escrow!CaptureFunds(q.o)
      BY <3>1, <3>3, <3>4 DEF Escrow!CaptureFunds, EarnedBy
    <3> QED BY <3>1, <3>5 DEF Escrow!Next
  <2>5. CASE Transfer(w)
    <3>1. /\ q.o \in Orders /\ EarnedBy(q.o) /\ captures[q.o] # None
          /\ transfers' = transfers \cup {TransferKey(q)} /\ TransferKey(q)[1] = q.o
      BY <2>1, <2>5 DEF Transfer, TransferToProvider, At, RequestOK, Reading, Funded,
         OrderPlaced, TransferKey
    <3>2. UNCHANGED <<captures, refunds, deliveries, dispute>>
      BY <2>5 DEF Transfer, TransferToProvider
    <3>3. Escrow!Pay(q.o)
      BY <3>1, <3>2 DEF Escrow!Pay, EarnedBy
    <3> QED BY <3>1, <3>3 DEF Escrow!Next
  <2>6. CASE \E d \in Disputes : InsertDispute(w, d)
    <3>1. PICK d \in Disputes : InsertDispute(w, d)
      BY <2>6
    <3>2. /\ dispute[d] = NoDispute
          /\ dispute' = [dispute EXCEPT ![d] = [order |-> q.o, status |-> "open"]]
          /\ UNCHANGED <<captures, refunds, transfers, deliveries>>
      BY <2>1, <3>1 DEF InsertDispute
    <3>3. \A o \in Orders : EarnedBy(o)' <=> EarnedBy(o)
      BY <3>2 DEF EarnedBy, NoDispute, IInv, TypeOK
    <3> QED BY <3>2, <3>3 DEF Escrow!escrowVars
  <2>7. CASE RuleOnDispute(w)
    <3>1. /\ q.o \in Orders /\ q.id \in Disputes /\ dispute[q.id].order = q.o
          /\ q.to \in Ruling
      BY <2>1, <2>7 DEF RuleOnDispute, At, RequestOK, Reading, OrderPlaced
    <3>2. UNCHANGED <<captures, refunds, transfers, deliveries>>
      BY <2>7 DEF RuleOnDispute
    <3>3. CASE dispute[q.id].status # "open"
      BY <2>1, <2>7, <3>2, <3>3, QuietSteps DEF RuleOnDispute
    <3>4. CASE dispute[q.id].status = "open"
      <4>1. dispute \in [Disputes -> [order : Orders \cup {None},
                                      status : {"none", "open"} \cup Ruling]]
        BY DEF IInv, TypeOK
      <4>2. dispute' = [dispute EXCEPT ![q.id].status = q.to]
        BY <2>1, <2>7, <3>4 DEF RuleOnDispute
      <4>3. /\ dispute'[q.id].order = q.o /\ dispute'[q.id].status = q.to
            /\ \A d \in Disputes : d # q.id => dispute'[d] = dispute[d]
        BY <3>1, <4>1, <4>2
      <4>4. CASE q.to = "resolved_no_refund"
        <5>1. {o \in Orders : EarnedBy(o)}' = {o \in Orders : EarnedBy(o)} \cup {q.o}
          BY <3>1, <3>2, <3>4, <4>3, <4>4 DEF EarnedBy
        <5>2. Escrow!Earn(q.o)
          BY <3>2, <5>1 DEF Escrow!Earn
        <5> QED BY <3>1, <5>2 DEF Escrow!Next
      <4>5. CASE q.to = "resolved_refund"
        <5>1. \A o \in Orders : EarnedBy(o)' <=> EarnedBy(o)
          BY <3>1, <3>2, <3>4, <4>3, <4>5 DEF EarnedBy
        <5> QED BY <3>2, <5>1 DEF Escrow!escrowVars
      <4> QED BY <3>1, <4>4, <4>5 DEF Ruling
    <3> QED BY <3>3, <3>4
  <2>8. CASE \/ \E i \in Intents : CreateIntent(w, i)
             \/ \E o \in Orders : InsertOrder(w, o)
             \/ ReplaceIntent(w) \/ WriteStatus(w) \/ Settle(w)
             \/ StoreReceipt(w) \/ ReloadOrder(w) \/ CheckExisting(w) \/ CheckOpen(w)
             \/ LookupOrder(w)
    <3>1. Quiet
      BY <2>8 DEF CreateIntent, CreatePaymentIntent, InsertOrder, ReplaceIntent, WriteStatus,
         Settle, StoreReceipt, ReloadOrder, CheckExisting, CheckOpen, LookupOrder
    <3> QED BY <3>1, QuietSteps
  <2>9. CASE \/ \E k \in Retries : QueueRetry(w, k)
             \/ MarkProcessing(w) \/ MarkSucceeded(w) \/ Reschedule(w)
             \/ RecordEvent(w, "opened") \/ RecordEvent(w, "resolved") \/ LogWebhook(w)
    <3>1. Quiet
      BY <2>9 DEF QueueRetry, MarkProcessing, MarkSucceeded, Reschedule, SetRetry,
         RecordEvent, LogWebhook
    <3> QED BY <3>1, QuietSteps
  <2> QED BY <1>6, <2>2, <2>3, <2>4, <2>5, <2>6, <2>7, <2>8, <2>9 DEF Proceed
<1> QED BY <1>1, <1>2, <1>3, <1>4, <1>5, <1>6, QuietSteps DEF Next

\* The marketplace, with all its tables, retries and stale reads, implements the
\* escrow of CoverageEscrow.
THEOREM Refinement == Spec => EscrowImplemented
<1>1. Init => Escrow!Init
  BY GatewayAssumption DEF Init, GatewayInit, Escrow!Init, EarnedBy, NoDispute
<1>2. IInv /\ [Next]_vars => [Escrow!Next]_(Escrow!escrowVars)
  BY StepRefines, OrdersAssumption, GatewayAssumption
<1> QED BY <1>1, <1>2, Invariance, PTL DEF Spec, EscrowImplemented, Escrow!Spec

-----------------------------------------------------------------------------
(* What an order's status, a dispute's ruling, its audit trail and the      *)
(* webhook log say about each other.                                        *)
(*                                                                          *)
(* A second layer on the invariant above.  There a function knows that rows *)
(* exist; here it knows why it may write what it is about to write: the     *)
(* event it heard, the ruling it made, the dispute it opened, the call of   *)
(* the platform that succeeded.  None of that can be taken back (Lasting),  *)
(* and a hook or a ruling has one owner.                                    *)

Working == {"payment_held", "claimed", "delivered"}

\* The platform reported the payment of an intent the writer was offered.
Authorised(o) == \E i \in offered[o] : <<"amount_capturable", i>> \in sent

\* There is a dispute to rule on, or the card network reported a chargeback.
Disputable(o) == \/ \E d \in Disputes : dispute[d].order = o
                 \/ \E i \in offered[o] : <<"charge_dispute", i>> \in sent

\* The money has moved as the dispute was ruled.
Moved(d) ==
  LET o == dispute[d].order IN
  \/ dispute[d].status = "resolved_refund" /\ refunds[o] # None
  \/ dispute[d].status = "resolved_no_refund" /\ <<o, 0>> \in transfers

\* A function that has ruled on a dispute and carries the ruling out.
Acting(r) == r.op = "resolve" /\ r.at # "ruling"

HandlingSteps == {"lookup", "write", "receipt", "log", "logFailed"}
PayingSteps   == {"capture", "transfer", "queue", "settle"}

\* Why a running function may do what it is about to do.
Informed(r) ==
  /\ r.op = "hook" => r.e \in sent /\ r.i = r.e[2] /\ r.at \in HandlingSteps
  /\ r.at \in HandlingSteps \ {"write"} => r.op = "hook"
  /\ r.at = "delivery" => r.to = "delivered"
  /\ r.at = "refund" => r.to \in {"cancelled", "refunded"}
  /\ r.at \in {"existing", "check", "open"} => r.to = "disputed"
  /\ r.at \in {"delivery", "write"} /\ r.to \in Working => Authorised(r.o)
  /\ r.at = "receipt" => Authorised(r.o)
  /\ r.at = "write" /\ r.to = "disputed" => Disputable(r.o)
  /\ r.op = "resolve" => r.at \in {"ruling", "refund", "write", "resolved"} \cup PayingSteps
  /\ Acting(r) => dispute[r.id].order = r.o
  /\ r.op = "resolve" /\ r.at \in {"refund", "write"} =>
       r.to = "refunded" /\ dispute[r.id].status = "resolved_refund"
  /\ r.op = "resolve" /\ r.at = "write" => refunds[r.o] # None
  /\ r.op = "resolve" /\ r.at \in PayingSteps => dispute[r.id].status = "resolved_no_refund"
  /\ r.at = "resolved" => r.op = "resolve" /\ Moved(r.id)

OfferedOK == \A o \in Orders : payIntent[o] \in Intents => payIntent[o] \in offered[o]

\* A logged event that is not finished yet has at most one function handling it.
HooksOK ==
  /\ \A w \in Workers : req[w].op = "hook" => hook[req[w].e] = "received"
  /\ \A v, w \in Workers :
       req[v].op = "hook" /\ req[w].op = "hook" /\ req[v].e = req[w].e => v = w

\* A ruling is final, and one function carries it out.
RulingsOK ==
  /\ \A w \in Workers : Acting(req[w]) => dispute[req[w].id].status \in Ruling
  /\ \A v, w \in Workers :
       Acting(req[v]) /\ Acting(req[w]) /\ req[v].id = req[w].id => v = w

ToldOK == OfferedOK /\ WorkIsPaid /\ DisputedHasDispute /\ TrailTruthful

Handling == ToldOK /\ HooksOK /\ RulingsOK /\ \A w \in Workers : Informed(req[w])

-----------------------------------------------------------------------------
(* What no step takes back, and what that keeps true.                       *)
Lasting ==
  /\ sent \subseteq sent'
  /\ transfers \subseteq transfers'
  /\ \A o \in Orders : offered[o] \subseteq offered'[o]
  /\ \A o \in Orders : refunds[o] # None => refunds'[o] # None
  /\ \A d \in Disputes : dispute[d] # NoDispute =>
       /\ dispute'[d].order = dispute[d].order
       /\ dispute[d].status \in Ruling => dispute'[d].status = dispute[d].status

\* Authorisations, disputes and movements of money last.
LEMMA FactsLast ==
  ASSUME IInv, Lasting, GatewayAssumption
  PROVE  /\ \A o \in Orders : Authorised(o) => Authorised(o)'
         /\ \A o \in Orders : Disputable(o) => Disputable(o)'
         /\ \A d \in Disputes : Moved(d) => Moved(d)'
<1>1. ASSUME NEW o \in Orders, Authorised(o) PROVE Authorised(o)'
  BY <1>1 DEF Authorised, Lasting
<1>2. ASSUME NEW o \in Orders, Disputable(o) PROVE Disputable(o)'
  <2>1. ASSUME NEW d \in Disputes, dispute[d].order = o PROVE dispute'[d].order = o
    <3>1. dispute[d] # NoDispute
      BY <2>1, GatewayAssumption DEF NoDispute, GatewayAssumption
    <3> QED BY <2>1, <3>1 DEF Lasting
  <2>2. ASSUME NEW i \in offered[o], <<"charge_dispute", i>> \in sent
        PROVE  i \in offered'[o] /\ <<"charge_dispute", i>> \in sent'
    BY <2>2 DEF Lasting
  <2> QED BY <1>2, <2>1, <2>2 DEF Disputable
<1>3. ASSUME NEW d \in Disputes, Moved(d) PROVE Moved(d)'
  <2>1. dispute[d].status \in Ruling
    BY <1>3 DEF Moved, Ruling
  <2>2. dispute[d] # NoDispute
    BY <2>1 DEF NoDispute, Ruling
  <2>3. dispute'[d].order = dispute[d].order /\ dispute'[d].status = dispute[d].status
    BY <2>1, <2>2 DEF Lasting
  <2>4. dispute[d].order \in Orders
    BY <2>2 DEF IInv, RowsOK, DisputeRows, OrderPlaced
  <2> QED BY <1>3, <2>3, <2>4 DEF Moved, Lasting
<1> QED BY <1>1, <1>2, <1>3

\* What a waiting function was told stays true while others take steps.
LEMMA InformedStable ==
  ASSUME IInv, Lasting, OrdersAssumption, GatewayAssumption,
         NEW r \in Request, RequestOK(r), Informed(r)
  PROVE  Informed(r)'
<1>1. /\ Authorised(r.o) /\ r.o \in Orders => Authorised(r.o)'
      /\ Disputable(r.o) /\ r.o \in Orders => Disputable(r.o)'
      /\ Moved(r.id) /\ r.id \in Disputes => Moved(r.id)'
  BY FactsLast
<1>2. /\ r.at \in {"delivery", "write", "receipt", "refund"} \cup PayingSteps => r.o \in Orders
      /\ r.op = "resolve" => r.id \in Disputes
  BY DEF RequestOK, Reading, Funded, OrderPlaced, PayingSteps
<1>3. Acting(r) => /\ dispute'[r.id].order = dispute[r.id].order
                   /\ dispute'[r.id].status = dispute[r.id].status
  <2> SUFFICES ASSUME Acting(r) PROVE /\ dispute'[r.id].order = dispute[r.id].order
                                      /\ dispute'[r.id].status = dispute[r.id].status
    OBVIOUS
  <2>1. dispute[r.id].status \in Ruling
    BY DEF Informed, Acting, Moved, Ruling, PayingSteps
  <2>2. dispute[r.id] # NoDispute
    BY <2>1 DEF NoDispute, Ruling
  <2> QED BY <1>2, <2>1, <2>2 DEF Acting, Lasting
<1>4. r.op = "hook" => r.e \in sent'
  BY DEF Informed, Lasting
<1>5. r.op = "resolve" /\ r.at = "write" => refunds'[r.o] # None
  BY <1>2 DEF Informed, Lasting
<1>6. r.at = "resolved" => r.op = "resolve" /\ Moved(r.id)'
  BY <1>1, <1>2 DEF Informed
<1>7. /\ r.at \in {"delivery", "write"} /\ r.to \in Working => Authorised(r.o)'
      /\ r.at = "receipt" => Authorised(r.o)'
      /\ r.at = "write" /\ r.to = "disputed" => Disputable(r.o)'
  BY <1>1, <1>2 DEF Informed
<1>8. /\ Acting(r) => dispute'[r.id].order = r.o
      /\ r.op = "resolve" /\ r.at \in {"refund", "write"} =>
           r.to = "refunded" /\ dispute'[r.id].status = "resolved_refund"
      /\ r.op = "resolve" /\ r.at \in PayingSteps => dispute'[r.id].status = "resolved_no_refund"
  BY <1>3 DEF Informed, Acting, PayingSteps
<1> QED BY <1>4, <1>5, <1>6, <1>7, <1>8 DEF Informed, Acting

-----------------------------------------------------------------------------
(* One lemma per part of the invariant: what a step of one function w, which *)
(* leaves it with the local variables r, must respect.                       *)

\* r goes on with the event or the ruling that q worked on, or drops it.
Follows(r, q) ==
  /\ r.op = "hook" => q.op = "hook" /\ r.e = q.e
  /\ Acting(r) => Acting(q) /\ r.id = q.id

\* Lemma: When one worker takes up a new request the others still rely on true facts.
LEMMA OthersInformed ==
  ASSUME IInv, Handling, Lasting, OrdersAssumption, GatewayAssumption,
         NEW w \in Workers, NEW r \in Request, Informed(r)',
         req' = [req EXCEPT ![w] = r]
  PROVE  \A v \in Workers : Informed(req[v])'
<1> TAKE v \in Workers
<1>1. CASE v = w
  <2>1. req'[v] = r
    BY <1>1 DEF IInv, TypeOK
  <2> QED BY <2>1
<1>2. CASE v # w
  <2>1. PICK q \in Request : q = req[v] /\ RequestOK(q)
    BY Running
  <2>2. Informed(q)
    BY <2>1 DEF Handling
  <2>3. Informed(q)'
    BY <2>1, <2>2, InformedStable
  <2>4. req'[v] = q
    BY <1>2, <2>1 DEF IInv, TypeOK
  <2> QED BY <2>3, <2>4
<1> QED BY <1>1, <1>2

\* Only the function that handles an event finishes its log entry.
LEMMA HooksKept ==
  ASSUME IInv, Handling, NEW w \in Workers, NEW r \in Request,
         req' = [req EXCEPT ![w] = r], Follows(r, req[w]),
         \/ UNCHANGED hook
         \/ /\ req[w].op = "hook" /\ r.op # "hook"
            /\ \A e \in Event : e # req[w].e => hook'[e] = hook[e]
  PROVE  HooksOK'
<1>1. req'[w] = r /\ \A v \in Workers : v # w => req'[v] = req[v]
  BY DEF IInv, TypeOK
<1>2. \A v \in Workers : req[v].op = "hook" => req[v].e \in Event
  <2>1. sent \subseteq Event
    BY DEF IInv, TypeOK, GatewayTypeOK
  <2> QED BY <2>1 DEF Handling, Informed
<1>3. \A v \in Workers : req'[v].op = "hook" => req[v].op = "hook" /\ req'[v].e = req[v].e
  BY <1>1 DEF Follows
<1>4. \A v \in Workers : req'[v].op = "hook" => hook'[req'[v].e] = "received"
  BY <1>1, <1>2, <1>3 DEF Handling, HooksOK
<1> QED BY <1>3, <1>4 DEF Handling, HooksOK

\* Nobody takes over the ruling of another function.
LEMMA RulingsKept ==
  ASSUME IInv, Handling, Lasting, NEW w \in Workers, NEW r \in Request,
         req' = [req EXCEPT ![w] = r], Follows(r, req[w])
  PROVE  RulingsOK'
<1>1. req'[w] = r /\ \A v \in Workers : v # w => req'[v] = req[v]
  BY DEF IInv, TypeOK
<1>2. \A v \in Workers : Acting(req'[v]) => Acting(req[v]) /\ req'[v].id = req[v].id
  BY <1>1 DEF Follows
<1>3. ASSUME NEW v \in Workers, Acting(req'[v]) PROVE dispute'[req'[v].id].status \in Ruling
  <2>1. dispute[req[v].id].status \in Ruling /\ req[v].op = "resolve" /\ req'[v].id = req[v].id
    BY <1>2, <1>3 DEF Handling, RulingsOK, Acting
  <2>2. req[v].id \in Disputes
    BY <2>1, Running DEF RequestOK
  <2>3. dispute[req[v].id] # NoDispute
    BY <2>1 DEF NoDispute, Ruling
  <2> QED BY <2>1, <2>2, <2>3 DEF Lasting
<1>4. \A v, u \in Workers :
        Acting(req'[v]) /\ Acting(req'[u]) /\ req'[v].id = req'[u].id => v = u
  BY <1>2 DEF Handling, RulingsOK
<1> QED BY <1>3, <1>4 DEF RulingsOK, Acting

\* The statuses written were heard of, the trail entries written are true.
Told ==
  /\ \A o \in Orders : \/ status'[o] = status[o]
                       \/ /\ status'[o] \in Working => Authorised(o)'
                          /\ status'[o] = "disputed" => Disputable(o)'
  /\ \A d \in Disputes : <<d, "resolved">> \in trail' => <<d, "resolved">> \in trail \/ Moved(d)'
  /\ \A o \in Orders : \/ payIntent'[o] = payIntent[o]
                       \/ payIntent'[o] \in offered'[o]

\* Lemma: What the order, intent and event tables say stays justified when a step writes what was heard of.
LEMMA ToldKept ==
  ASSUME IInv, Handling, Lasting, Told, GatewayAssumption
  PROVE  ToldOK'
<1>1. OfferedOK'
  BY DEF Handling, ToldOK, OfferedOK, Lasting, Told
<1>2. ASSUME NEW o \in Orders, status'[o] \in Working PROVE Authorised(o)'
  <2>1. CASE status'[o] = status[o]
    <3>1. Authorised(o)
      BY <1>2, <2>1 DEF Handling, ToldOK, WorkIsPaid, Working, Authorised
    <3> QED BY <3>1, FactsLast
  <2> QED BY <1>2, <2>1 DEF Told
<1>3. ASSUME NEW o \in Orders, status'[o] = "disputed" PROVE Disputable(o)'
  <2>1. CASE status'[o] = status[o]
    <3>1. Disputable(o)
      BY <1>3, <2>1 DEF Handling, ToldOK, DisputedHasDispute, Disputable
    <3> QED BY <3>1, FactsLast
  <2> QED BY <1>3, <2>1 DEF Told
<1>4. ASSUME NEW d \in Disputes, <<d, "resolved">> \in trail' PROVE Moved(d)'
  <2>1. CASE <<d, "resolved">> \in trail
    <3>1. Moved(d)
      BY <2>1 DEF Handling, ToldOK, TrailTruthful, Moved
    <3> QED BY <3>1, FactsLast
  <2> QED BY <1>4, <2>1 DEF Told
<1>5. WorkIsPaid'
  BY <1>2 DEF WorkIsPaid, Working, Authorised
<1>6. DisputedHasDispute'
  BY <1>3 DEF DisputedHasDispute, Disputable
<1>7. TrailTruthful'
  BY <1>4 DEF TrailTruthful, Moved
<1> QED BY <1>1, <1>5, <1>6, <1>7 DEF ToldOK

\* A step of one function that neither receives an event nor makes a ruling.
LEMMA StepKeeps ==
  ASSUME IInv, Handling, Lasting, Told, OrdersAssumption, GatewayAssumption,
         NEW w \in Workers, NEW r \in Request, Informed(r)',
         req' = [req EXCEPT ![w] = r], Follows(r, req[w]),
         \/ UNCHANGED hook
         \/ /\ req[w].op = "hook" /\ r.op # "hook"
            /\ \A e \in Event : e # req[w].e => hook'[e] = hook[e]
  PROVE  Handling'
BY OthersInformed, HooksKept, RulingsKept, ToldKept DEF Handling

\* A step that only changes the local variables of one function.
LEMMA LocalStepKeeps ==
  ASSUME IInv, Handling, OrdersAssumption, GatewayAssumption,
         UNCHANGED <<gatewayVars, tableVars>>,
         NEW w \in Workers, NEW r \in Request, RequestOK(r), Informed(r),
         req' = [req EXCEPT ![w] = r], Follows(r, req[w])
  PROVE  Handling'
<1> USE DEF gatewayVars, tableVars, orderVars, otherVars, disputeVars
<1>1. Lasting
  BY DEF Lasting
<1>2. Told
  BY DEF Told
<1>3. Informed(r)'
  BY <1>1, InformedStable
<1> QED BY <1>1, <1>2, <1>3, StepKeeps

-----------------------------------------------------------------------------
(* Action by action.                                                        *)

\* Lemma: An idle worker relies on nothing.
LEMMA IdleInformed ==
  Informed(Idle) /\ Informed(Idle)' /\ \A q : Follows(Idle, q)
BY DEF Idle, Informed, HandlingSteps, PayingSteps, Acting, Follows

\* Lemma: Initially no webhook is recorded and no request relies on a row.
LEMMA InitHandled ==
  ASSUME Init, OrdersAssumption, GatewayAssumption
  PROVE  Handling
<1>1. ToldOK
  BY GatewayAssumption DEF Init, GatewayInit, ToldOK, OfferedOK, WorkIsPaid, DisputedHasDispute,
     TrailTruthful, GatewayAssumption
<1>2. HooksOK /\ RulingsOK
  BY DEF Init, Idle, HooksOK, RulingsOK, Acting
<1>3. \A w \in Workers : Informed(req[w])
  BY IdleInformed DEF Init
<1> QED BY <1>1, <1>2, <1>3 DEF Handling

\* A function that starts was told what the order's status stands for.
LEMMA StartKeeps ==
  ASSUME IInv, Handling, OrdersAssumption, GatewayAssumption, NEW w \in Workers,
         NEW r \in Request, RequestOK(r), Begin(w, r), UNCHANGED <<gatewayVars, tableVars>>,
         r.e = None, r.op \notin {"none", "hook"}, r.op = "resolve" => r.at = "ruling",
         r.at \in {"intent", "write", "delivery", "refund", "existing", "capture", "mark",
                   "ruling"},
         r.at = "delivery" => r.to = "delivered",
         r.at = "refund" => r.to = "cancelled",
         r.at = "existing" => r.to = "disputed",
         r.at \in {"delivery", "write"} => r.to \in Working /\ status[r.o] \in Working
  PROVE  Handling'
<1>1. r.at \in {"delivery", "write"} => Authorised(r.o)
  BY DEF RequestOK, Reading, OrderPlaced, Handling, ToldOK, WorkIsPaid, Working, Authorised
<1>2. Informed(r)
  BY <1>1 DEF Informed, HandlingSteps, PayingSteps, Acting, Working
<1>3. Follows(r, req[w])
  BY DEF Follows, Acting
<1> QED BY <1>2, <1>3, LocalStepKeeps DEF Begin

\* Lemma: Starting a request of any kind keeps the handling invariant.
LEMMA ArrivalKeeps ==
  ASSUME IInv, Handling, OrdersAssumption, GatewayAssumption, NEW w \in Workers, IInv'
  PROVE  /\ PlaceOrder(w) => Handling'
         /\ \A o \in Orders :
              /\ RetryPayment(w, o) \/ ClaimOrder(w, o) \/ DeliverOrder(w, o) => Handling'
              /\ CompleteOrder(w, o) \/ AutoComplete(w, o) \/ CancelOrder(w, o) => Handling'
              /\ OpenDispute(w, o) \/ SlaBreach(w, o) => Handling'
         /\ \A q \in Retries : PollRetry(w, q) => Handling'
         /\ \A d \in Disputes, ruling \in Ruling : ResolveDispute(w, d, ruling) => Handling'
<1>1. ASSUME NEW r, Begin(w, r), UNCHANGED <<gatewayVars, tableVars>>
      PROVE  r \in Request /\ RequestOK(r)
  <2>1. req'[w] = r
    BY <1>1 DEF Begin, IInv, TypeOK
  <2>2. r \in Request /\ RequestOK(r)'
    BY <2>1 DEF IInv, TypeOK
  <2>3. RequestOK(r)' <=> RequestOK(r)
    BY <1>1 DEF RequestOK, OrderPlaced, EarnedBy, TransferKey, gatewayVars, tableVars, orderVars,
       otherVars, disputeVars
  <2> QED BY <2>2, <2>3
<1>2. ASSUME PlaceOrder(w) PROVE Handling'
  <2>1. PICK r : r = [Idle EXCEPT !.op = "place", !.at = "intent"]
    OBVIOUS
  <2>2. r.op = "place" /\ r.at = "intent" /\ r.e = None
    BY <2>1 DEF Idle
  <2> QED BY <1>1, <1>2, <2>1, <2>2, StartKeeps DEF PlaceOrder
<1>3. ASSUME NEW o \in Orders, RetryPayment(w, o) PROVE Handling'
  <2>1. PICK r : r = [Idle EXCEPT !.op = "repay", !.at = "intent", !.o = o]
    OBVIOUS
  <2>2. r.op = "repay" /\ r.at = "intent" /\ r.e = None
    BY <2>1 DEF Idle
  <2> QED BY <1>1, <1>3, <2>1, <2>2, StartKeeps DEF RetryPayment
<1>4. ASSUME NEW o \in Orders, ClaimOrder(w, o) PROVE Handling'
  <2>1. PICK r : r = [Idle EXCEPT !.op = "claim", !.at = "write", !.o = o, !.to = "claimed"]
    OBVIOUS
  <2>2. r.op = "claim" /\ r.at = "write" /\ r.e = None /\ r.o = o /\ r.to = "claimed"
    BY <2>1 DEF Idle
  <2> QED BY <1>1, <1>4, <2>1, <2>2, StartKeeps DEF ClaimOrder, Working
<1>5. ASSUME NEW o \in Orders, DeliverOrder(w, o) PROVE Handling'
  <2>1. PICK r : r = [Idle EXCEPT !.op = "deliver", !.at = "delivery", !.o = o,
                                  !.to = "delivered"]
    OBVIOUS
  <2>2. r.op = "deliver" /\ r.at = "delivery" /\ r.e = None /\ r.o = o /\ r.to = "delivered"
    BY <2>1 DEF Idle
  <2> QED BY <1>1, <1>5, <2>1, <2>2, StartKeeps DEF DeliverOrder, Working
<1>6. ASSUME NEW o \in Orders, CompleteOrder(w, o) PROVE Handling'
  <2>1. PICK r : r = [Idle EXCEPT !.op = "complete", !.at = "capture", !.o = o,
                                  !.i = payIntent[o]]
    OBVIOUS
  <2>2. r.op = "complete" /\ r.at = "capture" /\ r.e = None
    BY <2>1 DEF Idle
  <2> QED BY <1>1, <1>6, <2>1, <2>2, StartKeeps DEF CompleteOrder
<1>7. ASSUME NEW o \in Orders, AutoComplete(w, o) PROVE Handling'
  <2>1. PICK r : r = [Idle EXCEPT !.op = "auto", !.at = "capture", !.o = o, !.i = payIntent[o]]
    OBVIOUS
  <2>2. r.op = "auto" /\ r.at = "capture" /\ r.e = None
    BY <2>1 DEF Idle
  <2> QED BY <1>1, <1>7, <2>1, <2>2, StartKeeps DEF AutoComplete
<1>8. ASSUME NEW o \in Orders, CancelOrder(w, o) PROVE Handling'
  <2>1. PICK r : r = [Idle EXCEPT !.op = "cancel", !.at = "refund", !.o = o,
                                  !.i = payIntent[o], !.to = "cancelled"]
    OBVIOUS
  <2>2. r.op = "cancel" /\ r.at = "refund" /\ r.e = None /\ r.to = "cancelled"
    BY <2>1 DEF Idle
  <2> QED BY <1>1, <1>8, <2>1, <2>2, StartKeeps DEF CancelOrder
<1>9. ASSUME NEW o \in Orders, OpenDispute(w, o) PROVE Handling'
  <2>1. PICK r : r = [Idle EXCEPT !.op = "dispute", !.at = "existing", !.o = o,
                                  !.to = "disputed"]
    OBVIOUS
  <2>2. r.op = "dispute" /\ r.at = "existing" /\ r.e = None /\ r.to = "disputed"
    BY <2>1 DEF Idle
  <2> QED BY <1>1, <1>9, <2>1, <2>2, StartKeeps DEF OpenDispute
<1>10. ASSUME NEW o \in Orders, SlaBreach(w, o) PROVE Handling'
  <2>1. PICK r : r = [Idle EXCEPT !.op = "sla", !.at = "existing", !.o = o, !.to = "disputed"]
    OBVIOUS
  <2>2. r.op = "sla" /\ r.at = "existing" /\ r.e = None /\ r.to = "disputed"
    BY <2>1 DEF Idle
  <2> QED BY <1>1, <1>10, <2>1, <2>2, StartKeeps DEF SlaBreach
<1>11. ASSUME NEW q \in Retries, PollRetry(w, q) PROVE Handling'
  <2>1. PICK r : r = [Idle EXCEPT !.op = "poll", !.at = "mark", !.o = retry[q].order, !.id = q]
    OBVIOUS
  <2>2. r.op = "poll" /\ r.at = "mark" /\ r.e = None
    BY <2>1 DEF Idle
  <2> QED BY <1>1, <1>11, <2>1, <2>2, StartKeeps DEF PollRetry
<1>12. ASSUME NEW d \in Disputes, NEW ruling \in Ruling, ResolveDispute(w, d, ruling)
       PROVE  Handling'
  <2>1. PICK r : r = [Idle EXCEPT !.op = "resolve", !.at = "ruling", !.o = dispute[d].order,
                                  !.i = payIntent[dispute[d].order], !.id = d, !.to = ruling]
    OBVIOUS
  <2>2. r.op = "resolve" /\ r.at = "ruling" /\ r.e = None
    BY <2>1 DEF Idle
  <2> QED BY <1>1, <1>12, <2>1, <2>2, StartKeeps DEF ResolveDispute
<1> QED BY <1>2, <1>3, <1>4, <1>5, <1>6, <1>7, <1>8, <1>9, <1>10, <1>11, <1>12

\* An event is received once: the log entry is inserted by one delivery only.
LEMMA ReceiveKeeps ==
  ASSUME IInv, Handling, OrdersAssumption, GatewayAssumption, IInv',
         NEW w \in Workers, NEW e \in Event, ReceiveWebhook(w, e)
  PROVE  Handling'
<1> USE DEF gatewayVars, orderVars, disputeVars
<1>1. PICK r : r = [Idle EXCEPT !.op = "hook", !.at = "lookup", !.i = e[2], !.e = e]
  OBVIOUS
<1>2. /\ r.op = "hook" /\ r.at = "lookup" /\ r.e = e /\ r.i = e[2]
      /\ req[w] = Idle /\ req' = [req EXCEPT ![w] = r]
      /\ e \in sent /\ hook[e] = "none" /\ hook' = [hook EXCEPT ![e] = "received"]
      /\ UNCHANGED <<gatewayVars, orderVars, disputeVars>>
  BY <1>1 DEF Idle, ReceiveWebhook, Begin
<1>3. req'[w] = r /\ \A v \in Workers : v # w => req'[v] = req[v]
  BY <1>2 DEF IInv, TypeOK
<1>4. r \in Request
  BY <1>3 DEF IInv, TypeOK
<1>5. Lasting /\ Told
  BY <1>2 DEF Lasting, Told
<1>6. Informed(r)'
  BY <1>2 DEF Informed, HandlingSteps, PayingSteps, Acting
<1>7. HooksOK'
  <2>1. \A v \in Workers : req[v].op = "hook" => req[v].e # e /\ req[v].e \in Event
    <3>1. sent \subseteq Event
      BY DEF IInv, TypeOK, GatewayTypeOK
    <3> QED BY <1>2, <3>1 DEF Handling, HooksOK, Informed
  <2>2. hook'[e] = "received" /\ \A f \in Event : f # e => hook'[f] = hook[f]
    BY <1>2 DEF IInv, TypeOK
  <2> QED BY <1>2, <1>3, <2>1, <2>2 DEF Handling, HooksOK
<1>8. RulingsOK'
  <2>1. \A v \in Workers : Acting(req'[v]) => v # w
    BY <1>2, <1>3 DEF Acting
  <2>2. UNCHANGED dispute
    BY <1>2
  <2> QED BY <1>3, <2>1, <2>2 DEF Handling, RulingsOK, Acting
<1> QED BY <1>2, <1>4, <1>5, <1>6, <1>7, <1>8, OthersInformed, ToldKept DEF Handling

\* A catch block was told what its try block was told.
LEMMA CatchInformed ==
  ASSUME NEW q \in Request, RequestOK(q), Informed(q)
  PROVE  Informed(Catch(q)) /\ Follows(Catch(q), q)
<1>1. ASSUME NEW s \in {"queue", "failed", "logFailed", "log"},
             s = "queue" => q.at \in {"transfer", "settle"} /\ q.op # "hook",
             s = "failed" => q.op = "poll",
             s \in {"logFailed", "log"} => q.op = "hook"
      PROVE  Informed([q EXCEPT !.at = s]) /\ Follows([q EXCEPT !.at = s], q)
  <2>1. PICK r : r = [q EXCEPT !.at = s]
    OBVIOUS
  <2>2. /\ r.at = s /\ r.op = q.op /\ r.o = q.o /\ r.i = q.i
        /\ r.id = q.id /\ r.e = q.e /\ r.to = q.to
    BY <2>1 DEF Request
  <2>3. Informed(r)
    BY <1>1, <2>2 DEF Informed, HandlingSteps, PayingSteps, Acting
  <2>4. Follows(r, q)
    BY <1>1, <2>2 DEF Follows, Acting
  <2> QED BY <2>1, <2>3, <2>4
<1>2. CASE q.op \in {"complete", "resolve", "auto"} /\ q.at \in {"transfer", "settle"}
  BY <1>1, <1>2, IdleInformed DEF Catch
<1>3. CASE q.op = "poll" /\ q.at \in {"transfer", "settle", "succeed"}
  BY <1>1, <1>3 DEF Catch
<1>4. CASE q.op = "hook"
  BY <1>1, <1>4, IdleInformed DEF Catch
<1>5. CASE ~ \/ q.op \in {"complete", "resolve", "auto"} /\ q.at \in {"transfer", "settle"}
             \/ q.op = "poll" /\ q.at \in {"transfer", "settle", "succeed"}
             \/ q.op = "hook"
  BY <1>5, IdleInformed DEF Catch
<1> QED BY <1>2, <1>3, <1>4, <1>5

\* What a running function knows and was told.
LEMMA Known ==
  ASSUME IInv, Handling, NEW w \in Workers
  PROVE  req[w] \in Request /\ RequestOK(req[w]) /\ Informed(req[w])
BY Running DEF Handling

\* A function that ends, and has told nobody anything, leaves all as it was.
LEMMA EndKeeps ==
  ASSUME IInv, Handling, OrdersAssumption, GatewayAssumption, NEW w \in Workers, Resume(w, Idle),
         Told, UNCHANGED <<sent, transfers, refunds, offered, dispute, hook>>
  PROVE  Handling'
<1>1. Lasting
  BY DEF Lasting
<1>2. Idle \in Request
  BY IdleKnows
<1> QED BY <1>1, <1>2, IdleInformed, StepKeeps DEF Resume

\* A function that goes on to step s keeps its local variables.
LEMMA GoesOn ==
  ASSUME IInv, Handling, NEW w \in Workers, NEW s \in Step, Goto(w, s), req[w].at # "ruling"
  PROVE  \E r \in Request :
           /\ req' = [req EXCEPT ![w] = r] /\ Follows(r, req[w])
           /\ r.at = s /\ r.op = req[w].op /\ r.o = req[w].o /\ r.i = req[w].i
           /\ r.id = req[w].id /\ r.e = req[w].e /\ r.to = req[w].to
<1>1. PICK r : r = [req[w] EXCEPT !.at = s]
  OBVIOUS
<1>2. req[w] \in Request
  BY Known
<1>3. /\ r \in Request
      /\ r.at = s /\ r.op = req[w].op /\ r.o = req[w].o /\ r.i = req[w].i
      /\ r.id = req[w].id /\ r.e = req[w].e /\ r.to = req[w].to
  BY <1>1, <1>2 DEF Request
<1>4. Follows(r, req[w])
  BY <1>3 DEF Follows, Acting
<1> QED BY <1>1, <1>3, <1>4 DEF Goto, Resume

\* Lemma: A step that only reads rows keeps the handling invariant.
LEMMA ReadKeeps ==
  ASSUME IInv, Handling, OrdersAssumption, GatewayAssumption, NEW w \in Workers
  PROVE  /\ Throw(w) \/ ReloadOrder(w) => Handling'
         /\ CheckExisting(w) \/ CheckOpen(w) \/ LookupOrder(w) => Handling'
<1> USE DEF gatewayVars, tableVars, orderVars, otherVars, disputeVars
<1>1. PICK q \in Request : q = req[w] /\ RequestOK(q) /\ Informed(q)
  BY Known
<1>2. ASSUME Throw(w) PROVE Handling'
  BY <1>1, <1>2, CatchKnows, CatchInformed, LocalStepKeeps DEF Throw, Resume
<1>3. ASSUME UNCHANGED <<gatewayVars, tableVars>> PROVE Lasting /\ Told /\ UNCHANGED hook
  BY <1>3 DEF Lasting, Told
<1>4. ASSUME ReloadOrder(w) PROVE Handling'
  <2>1. q.at = "reload" /\ Goto(w, "transfer") /\ UNCHANGED <<gatewayVars, tableVars>>
    BY <1>1, <1>4 DEF ReloadOrder, At
  <2>2. q.op # "resolve" /\ q.op # "hook"
    BY <1>1, <2>1 DEF Informed, HandlingSteps, PayingSteps
  <2>3. PICK r \in Request : /\ req' = [req EXCEPT ![w] = r] /\ Follows(r, req[w])
                             /\ r.at = "transfer" /\ r.op = q.op
    BY <1>1, <2>1, GoesOn DEF Step
  <2>4. Informed(r)'
    BY <2>2, <2>3 DEF Informed, HandlingSteps, PayingSteps, Acting
  <2> QED BY <1>3, <2>1, <2>3, <2>4, StepKeeps
<1>5. ASSUME CheckExisting(w) PROVE Handling'
  <2>1. /\ q.at = "existing" /\ UNCHANGED <<gatewayVars, tableVars>>
        /\ Resume(w, Idle) \/ Goto(w, "check")
    BY <1>1, <1>5 DEF CheckExisting, At
  <2>2. q.op \in {"dispute", "sla"} /\ q.to = "disputed"
    BY <1>1, <2>1 DEF Informed, RequestOK
  <2>3. CASE Goto(w, "check")
    <3>1. PICK r \in Request : /\ req' = [req EXCEPT ![w] = r] /\ Follows(r, req[w])
                               /\ r.at = "check" /\ r.op = q.op /\ r.to = q.to
      BY <1>1, <2>1, <2>3, GoesOn DEF Step
    <3>2. Informed(r)'
      BY <2>2, <3>1 DEF Informed, HandlingSteps, PayingSteps, Acting
    <3> QED BY <1>3, <2>1, <3>1, <3>2, StepKeeps
  <2> QED BY <1>3, <2>1, <2>3, EndKeeps
<1>6. ASSUME CheckOpen(w) PROVE Handling'
  <2>1. /\ q.at = "check" /\ UNCHANGED <<gatewayVars, tableVars>>
        /\ Resume(w, Idle) \/ Goto(w, "open")
    BY <1>1, <1>6 DEF CheckOpen, At
  <2>2. q.op \in {"dispute", "sla"} /\ q.to = "disputed"
    BY <1>1, <2>1 DEF Informed, RequestOK
  <2>3. CASE Goto(w, "open")
    <3>1. PICK r \in Request : /\ req' = [req EXCEPT ![w] = r] /\ Follows(r, req[w])
                               /\ r.at = "open" /\ r.op = q.op /\ r.to = q.to
      BY <1>1, <2>1, <2>3, GoesOn DEF Step
    <3>2. Informed(r)'
      BY <2>2, <3>1 DEF Informed, HandlingSteps, PayingSteps, Acting
    <3> QED BY <1>3, <2>1, <3>1, <3>2, StepKeeps
  <2> QED BY <1>3, <2>1, <2>3, EndKeeps
<1>7. ASSUME LookupOrder(w) PROVE Handling'
  <2>1. q.at = "lookup" /\ UNCHANGED <<gatewayVars, tableVars>>
    BY <1>1, <1>7 DEF LookupOrder, At
  <2>2. /\ q.op = "hook" /\ q.e \in sent /\ q.e \in Event /\ q.i = q.e[2] /\ q.i \in Intents
    BY <1>1, <2>1 DEF Informed, HandlingSteps, RequestOK
  <2>3. CASE Goto(w, "log")
    <3>1. PICK r \in Request : /\ req' = [req EXCEPT ![w] = r] /\ Follows(r, req[w])
                               /\ r.at = "log" /\ r.op = q.op /\ r.e = q.e /\ r.i = q.i
      BY <1>1, <2>1, <2>3, GoesOn DEF Step
    <3>2. Informed(r)'
      BY <2>1, <2>2, <3>1 DEF Informed, HandlingSteps, PayingSteps, Acting
    <3> QED BY <1>3, <2>1, <3>1, <3>2, StepKeeps
  <2>4. CASE \E o \in Orders : /\ payIntent[o] = q.i
                               /\ Resume(w, [q EXCEPT !.at = "write", !.o = o,
                                                       !.to = Target(q.e[1])])
    <3>1. PICK o \in Orders : /\ payIntent[o] = q.i
                              /\ Resume(w, [q EXCEPT !.at = "write", !.o = o,
                                                      !.to = Target(q.e[1])])
      BY <2>4
    <3>2. PICK r : r = [q EXCEPT !.at = "write", !.o = o, !.to = Target(q.e[1])]
      OBVIOUS
    <3>3. /\ r.at = "write" /\ r.op = "hook" /\ r.o = o /\ r.e = q.e /\ r.i = q.i
          /\ r.to = Target(q.e[1])
      BY <2>2, <3>2 DEF Request
    <3>4. q.i \in offered[o]
      BY <2>2, <3>1 DEF Handling, ToldOK, OfferedOK
    <3>5. q.e = <<q.e[1], q.i>> /\ q.e[1] \in EventType
      BY <2>2 DEF Event
    <3>6. r.to \in Working => q.e[1] = "amount_capturable"
      BY <3>3, <3>5 DEF Target, Working, EventType
    <3>7. r.to = "disputed" => q.e[1] = "charge_dispute"
      BY <3>3, <3>5 DEF Target, EventType
    <3>8. r.to \in Working => Authorised(o)
      BY <2>2, <3>4, <3>5, <3>6 DEF Authorised
    <3>9. r.to = "disputed" => Disputable(o)
      BY <2>2, <3>4, <3>5, <3>7 DEF Disputable
    <3>10. Informed(r)
      BY <2>2, <3>3, <3>8, <3>9 DEF Informed, HandlingSteps, PayingSteps, Acting
    <3>11. Informed(r)'
      BY <2>1, <3>10 DEF Informed, Authorised, Disputable, Moved
    <3>12. req' = [req EXCEPT ![w] = r] /\ Follows(r, req[w])
      BY <1>1, <2>2, <3>1, <3>2, <3>3 DEF Resume, Follows, Acting
    <3>13. r \in Request
      <4>1. Target(q.e[1]) \in Status
        BY <3>5 DEF Target, EventType, Status
      <4> QED BY <3>2, <4>1 DEF Request, Step
    <3> QED BY <1>3, <2>1, <3>11, <3>12, <3>13, StepKeeps
  <2> QED BY <1>1, <1>7, <2>3, <2>4 DEF LookupOrder
<1> QED BY <1>2, <1>4, <1>5, <1>6, <1>7

\* A call of the platform: it is answered and r goes on, or the answer is lost.
LEMMA AnswerKeeps ==
  ASSUME IInv, Handling, OrdersAssumption, GatewayAssumption, NEW w \in Workers,
         Lasting, UNCHANGED tableVars,
         NEW r \in Request, Informed(r)', Follows(r, req[w]), Answer(w, r)
  PROVE  Handling'
<1>1. PICK q \in Request : q = req[w] /\ RequestOK(q) /\ Informed(q)
  BY Known
<1>2. Told /\ UNCHANGED hook
  BY DEF Told, tableVars, orderVars, otherVars, disputeVars
<1>3. CASE Resume(w, r)
  BY <1>2, <1>3, StepKeeps DEF Resume
<1>4. CASE Resume(w, Catch(q))
  <2>1. PICK k \in Request : k = Catch(q) /\ RequestOK(k) /\ Informed(k) /\ Follows(k, q)
    BY <1>1, CatchKnows, CatchInformed
  <2>2. Informed(k)'
    BY <2>1, InformedStable
  <2> QED BY <1>1, <1>2, <1>4, <2>1, <2>2, StepKeeps DEF Resume
<1> QED BY <1>1, <1>3, <1>4 DEF Answer

\* Lemma: A call to the gateway keeps the handling invariant.
LEMMA GatewayCallKeeps ==
  ASSUME IInv, Handling, OrdersAssumption, GatewayAssumption, NEW w \in Workers
  PROVE  /\ \A i \in Intents : CreateIntent(w, i) => Handling'
         /\ RefundPayment(w) \/ Capture(w) \/ Transfer(w) => Handling'
<1> USE DEF tableVars, orderVars, otherVars, disputeVars
<1>1. PICK q \in Request : q = req[w] /\ RequestOK(q) /\ Informed(q)
  BY Known
<1>2. GatewayTypeOK
  BY DEF IInv, TypeOK
<1>3. ASSUME NEW i \in Intents, CreateIntent(w, i) PROVE Handling'
  <2> USE DEF CreateIntent, CreatePaymentIntent
  <2>1. PICK r : r = [q EXCEPT !.i = i, !.at = IF q.op = "place" THEN "insert" ELSE "repay"]
    OBVIOUS
  <2>2. /\ r \in Request /\ r.at \in {"insert", "repay"} /\ r.op = q.op /\ q.at = "intent"
    BY <1>1, <1>3, <2>1 DEF Request, Step, At
  <2>3. q.op # "resolve" /\ q.op # "hook"
    BY <1>1, <2>2 DEF Informed, HandlingSteps, PayingSteps
  <2>4. Informed(r)' /\ Follows(r, q)
    BY <2>2, <2>3 DEF Informed, HandlingSteps, PayingSteps, Acting, Follows
  <2>5. Lasting
    BY <1>3 DEF Lasting
  <2> QED BY <1>1, <1>3, <2>1, <2>2, <2>4, <2>5, AnswerKeeps
<1>4. ASSUME RefundPayment(w) PROVE Handling'
  <2> USE DEF RefundPayment, Refund
  <2>1. PICK r : r = [q EXCEPT !.at = "write"]
    OBVIOUS
  <2>2. /\ r \in Request /\ r.at = "write" /\ r.op = q.op /\ q.at = "refund"
        /\ r.o = q.o /\ r.to = q.to /\ r.id = q.id
    BY <1>1, <1>4, <2>1 DEF Request, Step, At
  <2>3. q.op \in {"cancel", "resolve"} /\ q.to \in {"cancelled", "refunded"}
    BY <1>1, <2>2 DEF Informed, RequestOK
  <2>4. q.o \in Orders /\ q.i \in Intents
    BY <1>1, <2>2 DEF RequestOK, Reading, OrderPlaced
  <2>5. refunds' = [refunds EXCEPT ![q.o] = q.i] /\ Emit("charge_refunded", q.i)
        /\ UNCHANGED <<transfers, tableVars>>
    BY <1>1, <1>4
  <2>6. refunds'[q.o] # None
    BY <1>2, <2>4, <2>5, GatewayAssumption DEF GatewayTypeOK, GatewayAssumption
  <2>7. Lasting
    BY <1>2, <2>4, <2>5, <2>6 DEF Lasting, Emit, GatewayTypeOK
  <2>8. q.op = "resolve" => /\ dispute[q.id].order = q.o /\ q.to = "refunded"
                            /\ dispute[q.id].status = "resolved_refund"
    BY <1>1, <2>2 DEF Informed, Acting
  <2>9. Informed(r)'
    BY <2>2, <2>3, <2>5, <2>6, <2>8 DEF Informed, HandlingSteps, PayingSteps, Acting, Working
  <2>10. Follows(r, q)
    BY <2>2, <2>3 DEF Acting, Follows
  <2> QED BY <1>1, <1>4, <2>1, <2>2, <2>7, <2>9, <2>10, AnswerKeeps
<1>5. ASSUME NEW s \in {"transfer", "settle"}, Answer(w, [q EXCEPT !.at = s]),
             q.at \in {"capture", "transfer"}, Lasting, UNCHANGED tableVars
      PROVE  Handling'
  <2>1. PICK r : r = [q EXCEPT !.at = s]
    OBVIOUS
  <2>2. /\ r \in Request /\ r.at = s /\ r.op = q.op /\ r.o = q.o /\ r.id = q.id
    BY <2>1 DEF Request, Step
  <2>3. q.op # "hook"
    BY <1>1, <1>5 DEF Informed, HandlingSteps
  <2>4. q.op = "resolve" => /\ dispute[q.id].order = q.o
                            /\ dispute[q.id].status = "resolved_no_refund"
    BY <1>1, <1>5 DEF Informed, Acting, PayingSteps
  <2>5. Informed(r)'
    BY <1>5, <2>2, <2>3, <2>4 DEF Informed, HandlingSteps, PayingSteps, Acting
  <2>6. Follows(r, q)
    BY <1>5, <2>2, <2>3 DEF Acting, Follows
  <2> QED BY <1>1, <1>5, <2>1, <2>2, <2>5, <2>6, AnswerKeeps
<1>6. ASSUME Capture(w) PROVE Handling'
  <2>1. Lasting
    BY <1>6 DEF Capture, CapturePayment, Lasting
  <2> QED BY <1>1, <1>5, <1>6, <2>1 DEF Capture, At
<1>7. ASSUME Transfer(w) PROVE Handling'
  <2>1. Lasting
    BY <1>7 DEF Transfer, TransferToProvider, Lasting
  <2> QED BY <1>1, <1>5, <1>7, <2>1 DEF Transfer, At
<1> QED BY <1>3, <1>4, <1>6, <1>7

\* Lemma: A write to the order table keeps the handling invariant.
LEMMA OrderWriteKeeps ==
  ASSUME IInv, Handling, OrdersAssumption, GatewayAssumption, NEW w \in Workers
  PROVE  /\ \A o \in Orders : InsertOrder(w, o) => Handling'
         /\ ReplaceIntent(w) \/ WriteStatus(w) \/ Settle(w) => Handling'
         /\ StoreReceipt(w) => Handling'
<1> USE DEF gatewayVars, otherVars, disputeVars
<1>1. PICK q \in Request : q = req[w] /\ RequestOK(q) /\ Informed(q)
  BY Known
<1>2. /\ status \in [Orders -> Status] /\ offered \in [Orders -> SUBSET Intents]
      /\ payIntent \in [Orders -> Intents \cup {None}]
  BY DEF IInv, TypeOK
\* An intent is stored together with the offer of its client secret.
<1>3. ASSUME NEW o \in Orders, status' = [status EXCEPT ![o] = "placed"],
             payIntent' = [payIntent EXCEPT ![o] = q.i],
             offered' = [offered EXCEPT ![o] = @ \cup {q.i}],
             Resume(w, Idle), UNCHANGED <<gatewayVars, otherVars>>
      PROVE  Handling'
  <2>1. Lasting
    BY <1>2, <1>3 DEF Lasting
  <2>2. Told
    BY <1>2, <1>3 DEF Told, Working
  <2> QED BY <1>3, <2>1, <2>2, IdleKnows, IdleInformed, StepKeeps DEF Resume
<1>4. ASSUME NEW o \in Orders, InsertOrder(w, o) PROVE Handling'
  BY <1>1, <1>3, <1>4 DEF InsertOrder
<1>5. ASSUME ReplaceIntent(w) PROVE Handling'
  <2>1. q.o \in Orders
    BY <1>1, <1>5 DEF ReplaceIntent, At, RequestOK, Reading, OrderPlaced
  <2> QED BY <1>1, <1>3, <1>5, <2>1 DEF ReplaceIntent
<1>6. ASSUME UNCHANGED <<gatewayVars, payIntent, offered, otherVars>> PROVE Lasting
  BY <1>6 DEF Lasting
<1>7. ASSUME WriteStatus(w) PROVE Handling'
  <2>1. /\ q.at = "write" /\ status' = [status EXCEPT ![q.o] = q.to]
        /\ Resume(w, AfterWrite(q)) /\ UNCHANGED <<gatewayVars, payIntent, offered, otherVars>>
    BY <1>1, <1>7 DEF WriteStatus, At
  <2>2. q.o \in Orders
    BY <1>1, <2>1 DEF RequestOK, Reading, OrderPlaced
  <2>3. /\ q.to \in Working => Authorised(q.o)
        /\ q.to = "disputed" => Disputable(q.o)
    BY <1>1, <2>1 DEF Informed
  <2>4. Told
    BY <1>2, <2>1, <2>2, <2>3 DEF Told, Authorised, Disputable
  <2>5. PICK r : r = AfterWrite(q)
    OBVIOUS
  <2>6. ASSUME NEW s \in Step, r = [q EXCEPT !.at = s],
               \/ s = "opened" /\ q.op \in {"dispute", "sla"}
               \/ s = "resolved" /\ q.op = "resolve"
               \/ s = "receipt" /\ q.op = "hook" /\ q.to = "payment_held"
               \/ s = "log" /\ q.op = "hook"
        PROVE  r \in Request /\ Informed(r)' /\ Follows(r, q)
    <3>1. /\ r \in Request /\ r.at = s /\ r.op = q.op /\ r.o = q.o /\ r.id = q.id
          /\ r.e = q.e /\ r.i = q.i
      BY <2>6 DEF Request
    <3>2. Follows(r, q)
      BY <2>1, <2>6, <3>1 DEF Follows, Acting
    <3>3. CASE q.op = "resolve"
      <4>1. Moved(q.id) /\ dispute[q.id].order = q.o
        BY <1>1, <2>1, <3>3 DEF Informed, Acting, Moved
      <4>2. Moved(q.id)' /\ dispute'[q.id].order = q.o
        BY <2>1, <4>1 DEF Moved
      <4> QED BY <2>6, <3>1, <3>2, <3>3, <4>2 DEF Informed, HandlingSteps, PayingSteps, Acting
    <3>4. CASE q.op = "hook"
      <4>1. q.e \in sent' /\ q.i = q.e[2]
        BY <1>1, <2>1, <3>4 DEF Informed
      <4>2. s = "receipt" => Authorised(q.o)'
        BY <2>1, <2>3, <2>6, <3>4 DEF Working, Authorised
      <4> QED BY <2>6, <3>1, <3>2, <3>4, <4>1, <4>2 DEF Informed, HandlingSteps, PayingSteps, Acting
    <3>5. CASE q.op \in {"dispute", "sla"}
      BY <2>6, <3>1, <3>2, <3>5 DEF Informed, HandlingSteps, PayingSteps, Acting
    <3> QED BY <2>6, <3>3, <3>4, <3>5
  <2>7. CASE r = Idle
    BY <1>6, <2>1, <2>4, <2>5, <2>7, IdleKnows, IdleInformed, StepKeeps DEF Resume
  <2>8. CASE r # Idle
    <3>1. r \in Request /\ Informed(r)' /\ Follows(r, q)
      BY <2>5, <2>6, <2>8 DEF AfterWrite, Step
    <3> QED BY <1>1, <1>6, <2>1, <2>4, <2>5, <3>1, StepKeeps DEF Resume
  <2> QED BY <2>7, <2>8
<1>8. ASSUME Settle(w) PROVE Handling'
  <2>1. /\ q.at = "settle" /\ status' = [status EXCEPT ![q.o] = "completed"]
        /\ UNCHANGED <<gatewayVars, payIntent, offered, otherVars>>
        /\ Resume(w, CASE q.op = "resolve" -> [q EXCEPT !.at = "resolved"]
                       [] q.op = "poll"    -> [q EXCEPT !.at = "succeed"]
                       [] OTHER            -> Idle)
    BY <1>1, <1>8 DEF Settle, At
  <2>2. Told
    BY <1>2, <2>1 DEF Told, Working
  <2>3. CASE q.op \notin {"resolve", "poll"}
    <3>1. Resume(w, Idle)
      BY <2>1, <2>3
    <3> QED BY <1>6, <2>1, <2>2, <3>1, IdleKnows, IdleInformed, StepKeeps DEF Resume
  <2>4. CASE q.op = "poll"
    <3>1. PICK r : r = [q EXCEPT !.at = "succeed"]
      OBVIOUS
    <3>2. r \in Request /\ r.at = "succeed" /\ r.op = "poll" /\ Resume(w, r)
      BY <2>1, <2>4, <3>1 DEF Request, Step
    <3>3. Informed(r)' /\ Follows(r, q)
      BY <3>2 DEF Informed, HandlingSteps, PayingSteps, Acting, Follows
    <3> QED BY <1>1, <1>6, <2>1, <2>2, <3>2, <3>3, StepKeeps DEF Resume
  <2>5. CASE q.op = "resolve"
    <3>1. PICK r : r = [q EXCEPT !.at = "resolved"]
      OBVIOUS
    <3>2. /\ r \in Request /\ r.at = "resolved" /\ r.op = "resolve" /\ Resume(w, r)
          /\ r.o = q.o /\ r.id = q.id
      BY <2>1, <2>5, <3>1 DEF Request, Step
    <3>3. /\ dispute[q.id].order = q.o /\ dispute[q.id].status = "resolved_no_refund"
          /\ <<q.o, 0>> \in transfers
      BY <1>1, <2>1, <2>5 DEF Informed, Acting, PayingSteps, RequestOK, TransferKey
    <3>4. Moved(r.id)' /\ dispute'[r.id].order = r.o
      BY <2>1, <3>2, <3>3 DEF Moved
    <3>5. Informed(r)' /\ Follows(r, q)
      BY <2>1, <2>5, <3>2, <3>4 DEF Informed, HandlingSteps, PayingSteps, Acting, Follows
    <3> QED BY <1>1, <1>6, <2>1, <2>2, <3>2, <3>5, StepKeeps DEF Resume
  <2> QED BY <2>3, <2>4, <2>5
<1>9. ASSUME StoreReceipt(w) PROVE Handling'
  <2>0. /\ q.at = "receipt" /\ Goto(w, "log")
        /\ UNCHANGED <<gatewayVars, payIntent, offered, otherVars>>
        /\ status' = status \/ status' = [status EXCEPT ![q.o] = "payment_held"]
    BY <1>1, <1>9 DEF StoreReceipt, At
  <2>1. ASSUME NEW o \in Orders
        PROVE  status'[o] = status[o] \/ (o = q.o /\ status'[o] = "payment_held")
    <3>1. CASE status' = status
      BY <3>1
    <3>2. CASE status' = [status EXCEPT ![q.o] = "payment_held"]
      BY <1>2, <3>2
    <3> QED BY <2>0, <3>1, <3>2
  <2>2. q.op = "hook" /\ q.e \in sent /\ q.i = q.e[2] /\ Authorised(q.o)
    BY <1>1, <2>0 DEF Informed, HandlingSteps
  <2>3. Told
    BY <2>0, <2>1, <2>2 DEF Told, Working, Authorised
  <2>4. PICK r \in Request : /\ req' = [req EXCEPT ![w] = r] /\ Follows(r, req[w])
                             /\ r.at = "log" /\ r.op = q.op /\ r.e = q.e /\ r.i = q.i
    BY <1>1, <2>0, GoesOn DEF Step
  <2>5. Informed(r)'
    BY <2>0, <2>2, <2>4 DEF Informed, HandlingSteps, PayingSteps, Acting
  <2> QED BY <1>6, <2>0, <2>3, <2>4, <2>5, StepKeeps
<1> QED BY <1>4, <1>5, <1>7, <1>8, <1>9

\* Lemma: A write to the delivery, retry, event or webhook table keeps the handling invariant.
LEMMA TableWriteKeeps ==
  ASSUME IInv, Handling, OrdersAssumption, GatewayAssumption, NEW w \in Workers
  PROVE  /\ CreateDelivery(w) \/ (\E k \in Retries : QueueRetry(w, k)) => Handling'
         /\ MarkProcessing(w) \/ MarkSucceeded(w) \/ Reschedule(w) => Handling'
         /\ RecordEvent(w, "opened") \/ RecordEvent(w, "resolved") => Handling'
         /\ LogWebhook(w) => Handling'
<1> USE DEF gatewayVars, orderVars, disputeVars
<1>1. PICK q \in Request : q = req[w] /\ RequestOK(q) /\ Informed(q)
  BY Known
<1>2. ASSUME UNCHANGED <<gatewayVars, orderVars, dispute>> PROVE Lasting
  BY <1>2 DEF Lasting
<1>3. ASSUME UNCHANGED <<gatewayVars, orderVars, disputeVars>> PROVE Told
  BY <1>3 DEF Told
<1>4. ASSUME CreateDelivery(w) PROVE Handling'
  <2>1. /\ q.at = "delivery" /\ UNCHANGED <<gatewayVars, orderVars, disputeVars, hook>>
        /\ Resume(w, Idle) \/ Goto(w, "write")
    BY <1>1, <1>4 DEF CreateDelivery, At
  <2>2. q.op = "deliver" /\ q.to = "delivered" /\ Authorised(q.o)
    BY <1>1, <2>1 DEF Informed, RequestOK, Working
  <2>3. CASE Goto(w, "write")
    <3>1. PICK r \in Request : /\ req' = [req EXCEPT ![w] = r] /\ Follows(r, req[w])
                               /\ r.at = "write" /\ r.op = q.op /\ r.to = q.to /\ r.o = q.o
      BY <1>1, <2>1, <2>3, GoesOn DEF Step
    <3>2. Authorised(q.o)'
      BY <2>1, <2>2 DEF Authorised
    <3>3. Informed(r)'
      BY <2>2, <3>1, <3>2 DEF Informed, HandlingSteps, PayingSteps, Acting
    <3> QED BY <1>2, <1>3, <2>1, <3>1, <3>3, StepKeeps
  <2> QED BY <1>3, <2>1, <2>3, EndKeeps
<1>5. ASSUME NEW k \in Retries, QueueRetry(w, k) PROVE Handling'
  BY <1>3, <1>5, EndKeeps DEF QueueRetry
<1>6. ASSUME MarkProcessing(w) PROVE Handling'
  <2> USE DEF MarkProcessing, SetRetry
  <2>1. q.op = "poll"
    BY <1>1, <1>6 DEF RequestOK, At
  <2>2. PICK r \in Request : /\ req' = [req EXCEPT ![w] = r] /\ Follows(r, req[w])
                             /\ r.at = "reload" /\ r.op = q.op
    BY <1>1, <1>6, GoesOn DEF Step, At
  <2>3. Informed(r)'
    BY <2>1, <2>2 DEF Informed, HandlingSteps, PayingSteps, Acting
  <2> QED BY <1>2, <1>3, <1>6, <2>2, <2>3, StepKeeps
<1>7. ASSUME MarkSucceeded(w) \/ Reschedule(w) PROVE Handling'
  BY <1>3, <1>7, EndKeeps DEF MarkSucceeded, Reschedule, SetRetry, tableVars, otherVars
\* The entry "resolved" is written by the function that moved the money.
<1>8. ASSUME NEW type \in {"opened", "resolved"}, RecordEvent(w, type) PROVE Handling'
  <2>1. /\ q.at = type /\ trail' = trail \cup {<<q.id, type>>} /\ Resume(w, Idle)
        /\ UNCHANGED <<gatewayVars, orderVars, dispute, hook>>
    BY <1>1, <1>8 DEF RecordEvent, At
  <2>2. type = "resolved" => Moved(q.id)'
    BY <1>1, <2>1 DEF Informed, Moved
  <2>3. Told
    BY <2>1, <2>2 DEF Told
  <2> QED BY <2>1, <2>3, EndKeeps
<1>9. ASSUME LogWebhook(w) PROVE Handling'
  <2>1. /\ q.at \in {"log", "logFailed"} /\ Resume(w, Idle)
        /\ hook' = [hook EXCEPT ![q.e] = IF At(w, "log") THEN "processed" ELSE "failed"]
        /\ UNCHANGED <<gatewayVars, orderVars, disputeVars>>
    BY <1>1, <1>9 DEF LogWebhook
  <2>2. q.op = "hook"
    BY <1>1, <2>1 DEF Informed, HandlingSteps
  <2>3. \A e \in Event : e # q.e => hook'[e] = hook[e]
    BY <2>1 DEF IInv, TypeOK
  <2>4. Idle.op # "hook"
    BY DEF Idle
  <2> QED BY <1>1, <1>2, <1>3, <2>1, <2>2, <2>3, <2>4, IdleKnows, IdleInformed, StepKeeps
          DEF Resume
<1> QED BY <1>4, <1>5, <1>6, <1>7, <1>8, <1>9

\* A dispute is inserted; a ruling is made by one function, on a dispute nobody
\* has ruled on.
LEMMA DisputeKeeps ==
  ASSUME IInv, Handling, OrdersAssumption, GatewayAssumption, NEW w \in Workers
  PROVE  /\ \A d \in Disputes : InsertDispute(w, d) => Handling'
         /\ RuleOnDispute(w) => Handling'
<1> USE DEF gatewayVars, orderVars
<1>1. PICK q \in Request : q = req[w] /\ RequestOK(q) /\ Informed(q)
  BY Known
<1>2. dispute \in [Disputes -> [order : Orders \cup {None},
                                status : {"none", "open"} \cup Ruling]]
  BY DEF IInv, TypeOK
<1>3. ASSUME NEW d \in Disputes, InsertDispute(w, d) PROVE Handling'
  <2>1. PICK r : r = [q EXCEPT !.at = "write", !.id = d]
    OBVIOUS
  <2>2. /\ q.at = "open" /\ dispute[d] = NoDispute /\ req' = [req EXCEPT ![w] = r]
        /\ dispute' = [dispute EXCEPT ![d] = [order |-> q.o, status |-> "open"]]
        /\ UNCHANGED <<gatewayVars, orderVars, trail, hook>>
    BY <1>1, <1>3, <2>1 DEF InsertDispute, At, Resume
  <2>3. d \in Nat
    BY OrdersAssumption DEF OrdersAssumption, Disputes
  <2>4. /\ r \in Request /\ r.at = "write" /\ r.op = q.op /\ r.o = q.o /\ r.to = q.to
    BY <2>1, <2>3 DEF Request, Step
  <2>5. q.op \in {"dispute", "sla"} /\ q.to = "disputed"
    BY <1>1, <2>2 DEF Informed, RequestOK
  <2>6. Lasting
    BY <1>2, <2>2 DEF Lasting
  <2>7. Told
    BY <2>2 DEF Told
  <2>8. Disputable(q.o)'
    BY <1>2, <2>2 DEF Disputable
  <2>9. Informed(r)' /\ Follows(r, q)
    BY <2>4, <2>5, <2>8 DEF Informed, HandlingSteps, PayingSteps, Acting, Follows, Working
  <2> QED BY <1>1, <2>2, <2>4, <2>6, <2>7, <2>9, StepKeeps
<1>4. ASSUME RuleOnDispute(w) PROVE Handling'
  <2>1. /\ q.at = "ruling" /\ UNCHANGED <<gatewayVars, orderVars, trail, hook>>
    BY <1>1, <1>4 DEF RuleOnDispute, At
  <2>2. /\ q.op = "resolve" /\ q.to \in Ruling /\ q.id \in Disputes /\ q.o \in Orders
        /\ dispute[q.id].order = q.o
    BY <1>1, <2>1 DEF RequestOK, Reading, OrderPlaced
  <2>3. Told
    BY <2>1 DEF Told
  <2>4. CASE dispute[q.id].status # "open"
    <3>1. UNCHANGED dispute /\ Resume(w, Idle)
      BY <1>1, <1>4, <2>4 DEF RuleOnDispute
    <3> QED BY <2>1, <2>3, <3>1, EndKeeps
  <2>5. CASE dispute[q.id].status = "open"
    <3>1. dispute' = [dispute EXCEPT ![q.id].status = q.to]
      BY <1>1, <1>4, <2>5 DEF RuleOnDispute
    <3>2. /\ dispute'[q.id].order = q.o /\ dispute'[q.id].status = q.to
          /\ \A d \in Disputes : d # q.id => dispute'[d] = dispute[d]
      BY <1>2, <2>2, <3>1
    <3>3. Lasting
      BY <2>1, <2>2, <2>5, <3>2 DEF Lasting, Ruling
    <3>4. CASE Resume(w, Idle)
      BY <2>1, <2>3, <3>3, <3>4, IdleKnows, IdleInformed, StepKeeps DEF Resume
    <3>5. ASSUME NEW r \in Request, Resume(w, r), r.op = "resolve", r.o = q.o, r.id = q.id,
                 \/ r.at = "refund" /\ r.to = "refunded" /\ q.to = "resolved_refund"
                 \/ r.at = "capture" /\ q.to = "resolved_no_refund"
          PROVE  Handling'
      <4>1. Informed(r)'
        BY <3>2, <3>5 DEF Informed, HandlingSteps, PayingSteps, Acting
      <4>2. req'[w] = r /\ \A v \in Workers : v # w => req'[v] = req[v]
        BY <3>5 DEF Resume, IInv, TypeOK
      <4>3. HooksOK'
        BY <2>1, <3>5, <4>2 DEF Handling, HooksOK
      <4>4. \A v \in Workers : Acting(req[v]) => req[v].id # q.id /\ req[v].id \in Disputes
        BY <2>5, Running DEF Handling, RulingsOK, Acting, RequestOK, Ruling
      <4>5. RulingsOK'
        BY <2>2, <3>2, <3>5, <4>2, <4>4 DEF Handling, RulingsOK
      <4> QED BY <2>3, <3>3, <3>5, <4>1, <4>3, <4>5, OthersInformed, ToldKept DEF Handling, Resume
    <3>6. CASE q.to = "resolved_refund"
      <4>1. PICK r : r = [q EXCEPT !.at = "refund", !.to = "refunded"]
        OBVIOUS
      <4>2. /\ r \in Request /\ r.at = "refund" /\ r.op = "resolve" /\ r.to = "refunded"
            /\ r.o = q.o /\ r.id = q.id
        BY <2>2, <4>1 DEF Request, Step, Status
      <4>3. Resume(w, r)
        BY <1>1, <1>4, <2>5, <3>6, <4>1 DEF RuleOnDispute
      <4> QED BY <3>5, <3>6, <4>2, <4>3
    <3>7. CASE q.to = "resolved_no_refund" /\ ~Resume(w, Idle)
      <4>1. PICK r : r = [q EXCEPT !.at = "capture"]
        OBVIOUS
      <4>2. /\ r \in Request /\ r.at = "capture" /\ r.op = "resolve" /\ r.o = q.o /\ r.id = q.id
        BY <2>2, <4>1 DEF Request, Step
      <4>3. Resume(w, r)
        BY <1>1, <1>4, <2>5, <3>7, <4>1 DEF RuleOnDispute, Goto
      <4> QED BY <3>5, <3>7, <4>2, <4>3
    <3> QED BY <2>2, <3>4, <3>6, <3>7 DEF Ruling
  <2> QED BY <2>4, <2>5
<1> QED BY <1>3, <1>4

\* The outside world only adds to what the platform reports; a crash forgets
\* what was handled, never what was written.
LEMMA OutsideKeeps ==
  ASSUME IInv, Handling, OrdersAssumption, GatewayAssumption, Outside \/ Crash \/ UNCHANGED vars
  PROVE  Handling'
<1> USE DEF tableVars, orderVars, otherVars, disputeVars, gatewayVars
<1>1. UNCHANGED <<refunds, transfers, tableVars>> /\ sent \subseteq sent'
  <2>1. ASSUME NEW i \in Intents, Authorise(i) \/ Decline(i) \/ CancelIntent(i) \/ Chargeback(i)
        PROVE  UNCHANGED <<refunds, transfers>> /\ sent \subseteq sent'
    BY <2>1 DEF Authorise, Decline, CancelIntent, Chargeback, Emit
  <2>2. \A o \in Orders : offered[o] \subseteq Intents
    BY DEF IInv, TypeOK
  <2> QED BY <2>1, <2>2 DEF Outside, Crash, vars
<1>2. Lasting /\ Told
  BY <1>1 DEF Lasting, Told
<1>3. CASE UNCHANGED req
  <2>1. ASSUME NEW v \in Workers PROVE Informed(req[v])'
    <3>1. PICK q \in Request : q = req[v] /\ RequestOK(q) /\ Informed(q)
      BY Known
    <3>2. Informed(q)'
      BY <1>2, <3>1, InformedStable
    <3> QED BY <1>3, <3>1, <3>2
  <2>2. HooksOK' /\ RulingsOK'
    BY <1>1, <1>3 DEF Handling, HooksOK, RulingsOK, Acting
  <2> QED BY <1>2, <2>1, <2>2, ToldKept DEF Handling
<1>4. CASE req' = [w \in Workers |-> Idle]
  <2>1. \A v \in Workers : Informed(req[v])'
    BY <1>4, IdleInformed
  <2>2. HooksOK' /\ RulingsOK'
    BY <1>4 DEF HooksOK, RulingsOK, Acting, Idle
  <2> QED BY <1>2, <2>1, <2>2, ToldKept DEF Handling
<1> QED BY <1>3, <1>4 DEF Outside, Crash, vars

\* Lemma: Every step of the service keeps the handling invariant.
LEMMA NextKeeps ==
  ASSUME IInv, Handling, OrdersAssumption, GatewayAssumption, [Next]_vars
  PROVE  Handling'
<1>1. IInv'
  BY NextPreserves
<1>2. CASE Outside \/ Crash \/ UNCHANGED vars
  BY <1>2, OutsideKeeps
<1>3. CASE Arrival
  <2>1. ASSUME NEW w \in Handlers, NEW o \in Orders,
               \/ RetryPayment(w, o) \/ ClaimOrder(w, o) \/ DeliverOrder(w, o)
               \/ CompleteOrder(w, o) \/ CancelOrder(w, o) \/ OpenDispute(w, o)
        PROVE  Handling'
    BY <1>1, <2>1, ArrivalKeeps DEF Workers
  <2>2. ASSUME NEW w \in Handlers, PlaceOrder(w) PROVE Handling'
    BY <1>1, <2>2, ArrivalKeeps DEF Workers
  <2>3. ASSUME NEW w \in Handlers, NEW d \in Disputes, NEW ruling \in Ruling,
               ResolveDispute(w, d, ruling)
        PROVE  Handling'
    BY <1>1, <2>3, ArrivalKeeps DEF Workers
  <2>4. ASSUME NEW w \in Handlers, NEW e \in Event, ReceiveWebhook(w, e) PROVE Handling'
    BY <1>1, <2>4, ReceiveKeeps DEF Workers
  <2>5. ASSUME NEW w \in Sweepers, NEW o \in Orders, AutoComplete(w, o) \/ SlaBreach(w, o)
        PROVE  Handling'
    BY <1>1, <2>5, ArrivalKeeps DEF Workers
  <2>6. ASSUME NEW w \in Pollers, NEW k \in Retries, PollRetry(w, k) PROVE Handling'
    BY <1>1, <2>6, ArrivalKeeps DEF Workers
  <2> QED BY <1>3, <2>1, <2>2, <2>3, <2>4, <2>5, <2>6 DEF Arrival
<1>4. CASE \E w \in Workers : Proceed(w) \/ Throw(w)
  <2>1. PICK w \in Workers : Proceed(w) \/ Throw(w)
    BY <1>4
  <2>2. CASE \/ Throw(w) \/ ReloadOrder(w) \/ CheckExisting(w) \/ CheckOpen(w)
             \/ LookupOrder(w)
    BY <2>2, ReadKeeps
  <2>3. CASE \/ \E i \in Intents : CreateIntent(w, i)
             \/ RefundPayment(w) \/ Capture(w) \/ Transfer(w)
    BY <2>3, GatewayCallKeeps
  <2>4. CASE \/ \E o \in Orders : InsertOrder(w, o)
             \/ ReplaceIntent(w) \/ WriteStatus(w) \/ Settle(w)
             \/ StoreReceipt(w)
    BY <2>4, OrderWriteKeeps
  <2>5. CASE \/ CreateDelivery(w) \/ \E k \in Retries : QueueRetry(w, k)
             \/ MarkProcessing(w) \/ MarkSucceeded(w) \/ Reschedule(w)
             \/ RecordEvent(w, "opened") \/ RecordEvent(w, "resolved") \/ LogWebhook(w)
    BY <2>5, TableWriteKeeps
  <2>6. CASE (\E d \in Disputes : InsertDispute(w, d)) \/ RuleOnDispute(w)
    BY <2>6, DisputeKeeps
  <2> QED BY <2>1, <2>2, <2>3, <2>4, <2>5, <2>6 DEF Proceed
<1> QED BY <1>2, <1>3, <1>4 DEF Next

-----------------------------------------------------------------------------
(* The results.                                                             *)

\* In every reachable state each running function was told why it may do what it
\* is about to do, and events and rulings have one owner.
THEOREM HandlingInvariance == Spec => []Handling
<1>1. Init => Handling
  BY InitHandled, OrdersAssumption, GatewayAssumption
<1>2. IInv /\ Handling /\ [Next]_vars => Handling'
  BY NextKeeps, OrdersAssumption, GatewayAssumption
<1> QED BY <1>1, <1>2, Invariance, PTL DEF Spec

\* An order offered to, claimed or delivered by its provider has an intent whose
\* authorisation the platform reported.
THEOREM OnlyPaidWork == Spec => []WorkIsPaid
<1>1. Handling => WorkIsPaid
  BY DEF Handling, ToldOK
<1> QED BY <1>1, HandlingInvariance, PTL

\* A "disputed" order has a row in coverage_disputes or a reported chargeback.
THEOREM NoOrphanDispute == Spec => []DisputedHasDispute
<1>1. Handling => DisputedHasDispute
  BY DEF Handling, ToldOK
<1> QED BY <1>1, HandlingInvariance, PTL

\* A "resolved" event in coverage_dispute_events means the money moved as ruled.
THEOREM TrailIsTrue == Spec => []TrailTruthful
<1>1. Handling => TrailTruthful
  BY DEF Handling, ToldOK
<1> QED BY <1>1, HandlingInvariance, PTL

\* A set whose elements are all equal has at most one.
LEMMA AtMostOne ==
  ASSUME NEW S, \A v, w \in S : v = w
  PROVE  Cardinality(S) <= 1
<1>1. CASE S = {}
  BY <1>1, FS_EmptySet
<1>2. CASE S # {}
  <2>1. PICK w : w \in S
    BY <1>2
  <2>2. S = {w}
    BY <2>1
  <2>3. Cardinality({w}) = 1
    BY FS_Singleton
  <2> QED BY <2>2, <2>3
<1> QED BY <1>1, <1>2

\* An event the platform repeats is handled by one function at a time, and by none
\* once its log entry is final.
THEOREM OneHandler == Spec => []WebhookHandledOnce
<1>1. ASSUME Handling PROVE WebhookHandledOnce
  <2> DEFINE HandlersOf(e) == {w \in Workers : req[w].op = "hook" /\ req[w].e = e}
  <2> SUFFICES ASSUME NEW e \in Event
               PROVE  /\ Cardinality(HandlersOf(e)) <= 1
                      /\ hook[e] # "received" => HandlersOf(e) = {}
    BY DEF WebhookHandledOnce
  <2> DEFINE handling == HandlersOf(e)
  <2>1. \A v, w \in handling : v = w
    BY <1>1 DEF Handling, HooksOK
  <2>2. Cardinality(handling) <= 1
    BY <2>1, AtMostOne
  <2>3. hook[e] # "received" => handling = {}
    BY <1>1 DEF Handling, HooksOK
  <2> QED BY <2>2, <2>3
<1> QED BY <1>1, HandlingInvariance, PTL

\* Two admins who rule on a dispute at once do not both carry out a ruling.
THEOREM OneRuling == Spec => []OneRulingActs
<1>1. ASSUME Handling PROVE OneRulingActs
  <2> SUFFICES ASSUME NEW d \in Disputes
               PROVE  /\ Cardinality(ActingOn(d)) <= 1
                      /\ dispute[d].status = "open" => ActingOn(d) = {}
    BY DEF OneRulingActs
  <2>1. \A v, w \in ActingOn(d) : v = w
    BY <1>1 DEF Handling, RulingsOK, ActingOn, Acting
  <2>2. Cardinality(ActingOn(d)) <= 1
    BY <2>1, AtMostOne
  <2>3. dispute[d].status = "open" => ActingOn(d) = {}
    BY <1>1 DEF Handling, RulingsOK, ActingOn, Acting, Ruling
  <2> QED BY <2>2, <2>3
<1> QED BY <1>1, HandlingInvariance, PTL

=============================================================================
