------------------------ MODULE FeedbackExchangeProofs ------------------------
(***************************************************************************)
(* The token exchange for any number of users, listings, reviews, disputes *)
(* and concurrent requests: types, RewardIsEarned, ReviewIsClaimed,        *)
(* CancelledIsOver, UpheldOnly with any faults, and LimitSuspends without. *)
(*                                                                         *)
(* A handler acts on rows it read in earlier statements, while others      *)
(* expire, cancel, claim and delete them.  The strengthening says per step *)
(* of a handler what it may still rely on.  That is little, and all of it  *)
(* lasts (Lasting): rows keep their owners, a cancelled listing stays so,  *)
(* a submitted review stays submitted, and an upheld dispute upheld or     *)
(* deleted.  What does not last is asked for again by the UPDATE itself.   *)
(***************************************************************************)
EXTENDS FeedbackExchange, FiniteSetTheorems, TLAPS

Listed(l)  == l \in Listings /\ listing[l].status # "none"
Written(r) == r \in Reviews /\ review[r].status # "none"
Upheld     == {"for_filer", "deleted"}

\* The steps that impose a strike, and those that follow a dispute decided for its filer.
Striking  == {"strike", "count", "suspend"}
Following == Striking \cup {"review", "repay"}

RequestOK(q) ==
  /\ q.at \in {"grant", "list", "vet", "claim", "check", "file"} => q.u \in Users
  /\ q.at \in {"fee", "vet", "claim", "cancel", "giveback"} => Listed(q.l)
  /\ q.at \in {"vet", "claim"} => listing[q.l].owner # q.u
  /\ q.at = "giveback" => listing[q.l].status = "cancelled"
  /\ q.at \in {"submit", "reward", "rate", "check", "file"} \cup Striking => Written(q.r)
  /\ q.at = "reward" => review[q.r].status = "submitted"
  /\ q.at = "rate" => q.op = "rate"
  /\ q.at \in {"resolve", "review", "repay"} => q.op = "resolve"
  /\ q.at \in Striking => q.op \in {"rate", "resolve"}
  /\ q.op = "resolve" => /\ q.d \in Disputes /\ dispute[q.d].status # "none"
                         /\ dispute[q.d].review = q.r /\ Written(q.r)
  /\ q.at = "resolve" => q.to \in Ruling
  /\ q.op = "resolve" => q.at \in {"resolve"} \cup Following
  /\ q.op = "resolve" /\ q.at # "resolve" => dispute[q.d].status \in Upheld

ReviewRows ==
  \A r \in Reviews : review[r].status # "none" =>
    /\ Listed(review[r].listing)
    /\ review[r].reviewer \in Users /\ review[r].reviewer # OwnerOf(r)
DisputeRows ==
  \A d \in Disputes : dispute[d].status # "none" => Written(dispute[d].review)
StrikeRows ==
  \A r \in Reviews : strike[<<"rating", r>>] # "none" => Written(r)
LedgerRows ==
  /\ \A r \in Reviews : <<"reward", r>> \in ledger => review[r].status = "submitted"
  /\ \A l \in Listings : <<"cancel", l>> \in ledger => listing[l].status = "cancelled"

RowsOK == ReviewRows /\ DisputeRows /\ StrikeRows /\ LedgerRows /\ ReviewIsClaimed /\ UpheldOnly

\* TypeOK without the handlers.
TablesOK ==
  /\ listing \in [Listings -> [owner : Users \cup {None}, claimer : Users \cup {None},
                    status : {"none", "open", "claimed", "expired", "cancelled"}]]
  /\ review \in [Reviews -> [listing : Listings \cup {0}, reviewer : Users \cup {None},
                   status : {"none", "in_progress", "submitted", "deleted"}]]
  /\ rated \subseteq Reviews
  /\ dispute \in [Disputes -> [review : Reviews \cup {0}, filer : Users \cup {None},
                    status : {"none", "open", "deleted"} \cup Ruling]]
  /\ ledger \subseteq Key
  /\ strike \in [Ground -> {"none", "active", "expired", "inactive"}]
  /\ suspension \in [Users -> {"none", "active", "lifted"}]

IInv == TypeOK /\ RowsOK /\ \A w \in Handlers : RequestOK(req[w])

-----------------------------------------------------------------------------
(* What no step takes back.                                                 *)
Lasting ==
  /\ \A l \in Listings : listing[l].status # "none" =>
       /\ listing'[l].status # "none" /\ listing'[l].owner = listing[l].owner
       /\ listing[l].status = "cancelled" => listing'[l].status = "cancelled"
  /\ \A r \in Reviews : review[r].status # "none" =>
       /\ review'[r].status # "none"
       /\ review'[r].listing = review[r].listing /\ review'[r].reviewer = review[r].reviewer
       /\ review[r].status = "submitted" => review'[r].status = "submitted"
  /\ \A d \in Disputes : dispute[d].status # "none" =>
       /\ dispute'[d].status # "none" /\ dispute'[d].review = dispute[d].review
       /\ dispute[d].status \in Upheld => dispute'[d].status \in Upheld

\* What every step does.
Kept == IInv' /\ Lasting

\* What a waiting handler relies on stays true while others take steps.
LEMMA RequestStable ==
  ASSUME Lasting, NEW q \in Request, RequestOK(q)
  PROVE  RequestOK(q)'
<1>1. Listed(q.l) => Listed(q.l)' /\ listing'[q.l].owner = listing[q.l].owner
  BY DEF Lasting, Listed
<1>2. Written(q.r) => Written(q.r)'
  BY DEF Lasting, Written
<1>3. q.at = "giveback" => listing'[q.l].status = "cancelled"
  BY DEF RequestOK, Lasting, Listed
<1>4. q.at = "reward" => review'[q.r].status = "submitted"
  BY DEF RequestOK, Lasting, Written
<1>5. q.op = "resolve" => dispute'[q.d].status # "none" /\ dispute'[q.d].review = q.r
  BY DEF RequestOK, Lasting
<1>6. q.op = "resolve" /\ q.at # "resolve" => dispute'[q.d].status \in Upheld
  BY DEF RequestOK, Lasting
<1> QED BY <1>1, <1>2, <1>3, <1>4, <1>5, <1>6 DEF RequestOK

\* The rows a step does not write stay as they should be.
LEMMA RowsStable ==
  ASSUME IInv, Lasting
  PROVE  /\ UNCHANGED review => ReviewRows'
         /\ UNCHANGED dispute => DisputeRows'
         /\ UNCHANGED strike => StrikeRows'
         /\ UNCHANGED ledger => LedgerRows'
         /\ UNCHANGED <<listing, review>> => ReviewIsClaimed'
         /\ UNCHANGED <<ledger, strike>> => UpheldOnly'
<1> USE DEF IInv, RowsOK
<1>1. UNCHANGED review => ReviewRows'
  BY DEF ReviewRows, Listed, OwnerOf, Lasting
<1>2. UNCHANGED dispute => DisputeRows'
  BY DEF DisputeRows, Written, Lasting
<1>3. UNCHANGED strike => StrikeRows'
  BY DEF StrikeRows, Written, Lasting
<1>4. UNCHANGED ledger => LedgerRows'
  BY DEF LedgerRows, Lasting
<1>5. UNCHANGED <<listing, review>> => ReviewIsClaimed'
  BY DEF ReviewIsClaimed, InProgress
<1>6. UNCHANGED <<ledger, strike>> => UpheldOnly'
  BY DEF UpheldOnly, Upheld, Lasting
<1> QED BY <1>1, <1>2, <1>3, <1>4, <1>5, <1>6

\* A step of one handler preserves the invariant if it leaves the handler with knowledge
\* that is true and keeps the tables in order.
LEMMA StepPreserves ==
  ASSUME IInv, Lasting, TablesOK', RowsOK',
         NEW w \in Handlers, NEW q \in Request, RequestOK(q)',
         req' = [req EXCEPT ![w] = q]
  PROVE  Kept
<1>1. req' \in [Handlers -> Request]
  BY DEF IInv, TypeOK
<1>2. TypeOK'
  BY <1>1 DEF TypeOK, TablesOK
<1>3. \A v \in Handlers : RequestOK(req[v])'
  <2> TAKE v \in Handlers
  <2>1. CASE v = w
    <3>1. req'[v] = q
      BY <2>1 DEF IInv, TypeOK
    <3> QED BY <3>1
  <2>2. CASE v # w
    <3>1. PICK p \in Request : p = req[v]
      BY DEF IInv, TypeOK
    <3>2. RequestOK(p)'
      BY <3>1, RequestStable DEF IInv
    <3>3. req'[v] = p
      BY <2>2, <3>1 DEF IInv, TypeOK
    <3> QED BY <3>2, <3>3
  <2> QED BY <2>1, <2>2
<1> QED BY <1>2, <1>3 DEF IInv, Kept

\* A step that only changes the local variables of one handler.
LEMMA LocalStepPreserves ==
  ASSUME IInv, UNCHANGED tableVars,
         NEW w \in Handlers, NEW q \in Request, RequestOK(q),
         req' = [req EXCEPT ![w] = q]
  PROVE  Kept
<1> USE DEF tableVars, exchangeVars, standingVars
<1>1. TablesOK'
  BY DEF IInv, TypeOK, TablesOK
<1>2. Lasting
  BY DEF Lasting
<1>3. RowsOK'
  BY <1>2, RowsStable DEF RowsOK
<1>4. RequestOK(q)'
  BY <1>2, RequestStable
<1> QED BY <1>1, <1>2, <1>3, <1>4, StepPreserves

\* The handlers' variables have their type, and they know what they should.
LEMMA Running ==
  ASSUME IInv, NEW w \in Handlers
  PROVE  \E q \in Request : q = req[w] /\ RequestOK(q)
BY DEF IInv, TypeOK

\* Lemma: The idle request is a request and satisfies what is claimed of requests.
LEMMA IdleKnows ==
  /\ Idle \in Request /\ RequestOK(Idle) /\ RequestOK(Idle)'
BY FeedbackAssumption DEF Idle, Request, Op, Step, RequestOK, Striking, Following

\* Lemma: Row identifiers are positive numbers, so 0 stands for no row.
LEMMA RowIds ==
  /\ Listings \subseteq Nat /\ Reviews \subseteq Nat /\ Disputes \subseteq Nat
  /\ 0 \notin Listings /\ 0 \notin Reviews /\ 0 \notin Disputes
BY FeedbackAssumption DEF Listings, Reviews, Disputes

\* Between two steps a handler only moves on.
LEMMA NextStepTyped ==
  ASSUME NEW q \in Request, NEW step \in Step
  PROVE  /\ [q EXCEPT !.at = step] \in Request
         /\ [q EXCEPT !.at = step].at = step
         /\ \A field \in {"op", "u", "l", "r", "d", "to"} :
              [q EXCEPT !.at = step][field] = q[field]
BY DEF Request

\* Lemma: The request that follows a strike is a request that relies on true facts.
LEMMA AfterStrikeKnows ==
  ASSUME NEW q \in Request, RequestOK(q), q.at \in Striking
  PROVE  AfterStrike(q) \in Request /\ RequestOK(AfterStrike(q))
<1>1. CASE q.op = "resolve"
  <2>1. PICK p : p = [q EXCEPT !.at = "repay"]
    OBVIOUS
  <2>2. p \in Request
    BY <2>1, NextStepTyped DEF Step
  <2>3. p.at = "repay" /\ p.op = "resolve" /\ p.d = q.d /\ p.r = q.r
    BY <1>1, <2>1 DEF Request
  <2>4. /\ q.d \in Disputes /\ dispute[q.d].status # "none" /\ dispute[q.d].review = q.r
        /\ Written(q.r) /\ dispute[q.d].status \in Upheld
    BY <1>1 DEF RequestOK, Striking
  <2>5. RequestOK(p)
    BY <2>3, <2>4 DEF RequestOK, Striking, Following
  <2> QED BY <1>1, <2>1, <2>2, <2>5 DEF AfterStrike
<1>2. CASE q.op # "resolve"
  BY <1>2, IdleKnows DEF AfterStrike
<1> QED BY <1>1, <1>2

-----------------------------------------------------------------------------
(* What every step preserves, action by action.                             *)

\* Lemma: Initially the invariant holds.
LEMMA InitEstablishes ==
  ASSUME Init
  PROVE  IInv
<1>1. TypeOK
  BY IdleKnows, FeedbackAssumption DEF Init, TypeOK, NoListing, NoReview, NoDispute
<1>2. RowsOK
  BY DEF Init, RowsOK, ReviewRows, DisputeRows, StrikeRows, LedgerRows, ReviewIsClaimed,
     InProgress, UpheldOnly, NoReview, NoDispute, Ground
<1> QED BY <1>1, <1>2, IdleKnows DEF IInv, Init

\* A handler starts by reading rows, and relies only on what lasts of them.
LEMMA ArrivalPreserves ==
  ASSUME IInv, NEW w \in Handlers, Arrival(w)
  PROVE  Kept
<1> DEFINE Knows(q) == q \in Request /\ RequestOK(q)
<1>0. ASSUME NEW q, Knows(q), Begin(w, q), UNCHANGED tableVars PROVE Kept
  BY <1>0, LocalStepPreserves DEF Begin
<1> HIDE DEF Knows
<1>1. ASSUME NEW u \in Users, GrantSignup(w, u) PROVE Kept
  <2>1. PICK q : q = [Idle EXCEPT !.op = "signup", !.at = "grant", !.u = u]
    OBVIOUS
  <2>2. Knows(q)
    BY <2>1, RowIds
       DEF Knows, Idle, Request, Op, Step, RequestOK, Striking, Following
  <2> QED BY <1>0, <1>1, <2>1, <2>2 DEF GrantSignup
<1>2. ASSUME NEW u \in Users, CreateListing(w, u) PROVE Kept
  <2>1. PICK q : q = [Idle EXCEPT !.op = "list", !.at = "list", !.u = u]
    OBVIOUS
  <2>2. Knows(q)
    BY <2>1, RowIds
       DEF Knows, Idle, Request, Op, Step, RequestOK, Striking, Following
  <2> QED BY <1>0, <1>2, <2>1, <2>2 DEF CreateListing
<1>3. ASSUME NEW u \in Users, NEW l \in Listings, ClaimListing(w, u, l) PROVE Kept
  <2>1. PICK q : q = [Idle EXCEPT !.op = "claim", !.at = "vet", !.u = u, !.l = l]
    OBVIOUS
  <2>2. Listed(l) /\ listing[l].owner # u
    BY <1>3 DEF ClaimListing, Listed
  <2>3. Knows(q)
    BY <2>1, <2>2, RowIds
       DEF Knows, Idle, Request, Op, Step, RequestOK, Striking, Following
  <2> QED BY <1>0, <1>3, <2>1, <2>3 DEF ClaimListing
<1>4. ASSUME NEW l \in Listings, CancelListing(w, l) PROVE Kept
  <2>1. PICK q : q = [Idle EXCEPT !.op = "cancel", !.at = "cancel", !.u = listing[l].owner,
                                  !.l = l]
    OBVIOUS
  <2>2. Listed(l) /\ listing[l].owner \in Users \cup {None}
    BY <1>4 DEF CancelListing, Listed, IInv, TypeOK
  <2>3. Knows(q)
    BY <2>1, <2>2, RowIds
       DEF Knows, Idle, Request, Op, Step, RequestOK, Striking, Following
  <2> QED BY <1>0, <1>4, <2>1, <2>3 DEF CancelListing
<1>5. ASSUME NEW r \in Reviews, SubmitReview(w, r) PROVE Kept
  <2>1. PICK q : q = [Idle EXCEPT !.op = "submit", !.at = "submit", !.u = review[r].reviewer,
                                  !.r = r]
    OBVIOUS
  <2>2. Written(r) /\ review[r].reviewer \in Users \cup {None}
    BY <1>5 DEF SubmitReview, ReviewExists, Written, IInv, TypeOK
  <2>3. Knows(q)
    BY <2>1, <2>2, RowIds
       DEF Knows, Idle, Request, Op, Step, RequestOK, Striking, Following
  <2> QED BY <1>0, <1>5, <2>1, <2>3 DEF SubmitReview
<1>6. ASSUME NEW r \in Reviews, NEW score \in {"low", "fine"},
             RateReview(w, r, score) PROVE Kept
  <2>1. PICK q : q = [Idle EXCEPT !.op = "rate", !.at = "rate", !.u = OwnerOf(r), !.r = r,
                                  !.to = score]
    OBVIOUS
  <2>2. Written(r)
    BY <1>6 DEF RateReview, Written
  <2>3. OwnerOf(r) \in Users \cup {None}
    BY <2>2 DEF Written, OwnerOf, IInv, TypeOK, RowsOK, ReviewRows, Listed
  <2>4. Knows(q)
    BY <2>1, <2>2, <2>3, RowIds
       DEF Knows, Idle, Request, Op, Step, RequestOK, Striking, Following
  <2> QED BY <1>0, <1>6, <2>1, <2>4 DEF RateReview
<1>7. ASSUME NEW r \in Reviews, NEW u \in Users, CreateDispute(w, r, u) PROVE Kept
  <2>1. PICK q : q = [Idle EXCEPT !.op = "dispute", !.at = "check", !.u = u, !.r = r]
    OBVIOUS
  <2>2. Written(r)
    BY <1>7 DEF CreateDispute, ReviewExists, Written
  <2>3. Knows(q)
    BY <2>1, <2>2, RowIds
       DEF Knows, Idle, Request, Op, Step, RequestOK, Striking, Following
  <2> QED BY <1>0, <1>7, <2>1, <2>3 DEF CreateDispute
<1>8. ASSUME NEW d \in Disputes, NEW ruling \in Ruling,
             ResolveDispute(w, d, ruling) PROVE Kept
  <2>1. PICK q : q = [Idle EXCEPT !.op = "resolve", !.at = "resolve",
                                  !.r = dispute[d].review, !.d = d, !.to = ruling]
    OBVIOUS
  <2>2. dispute[d].status # "none" /\ Written(dispute[d].review)
    BY <1>8 DEF ResolveDispute, DisputeExists, Ruling, IInv, RowsOK, DisputeRows
  <2>3. dispute[d].review \in Nat
    BY <2>2, RowIds DEF Written
  <2>4. Knows(q)
    BY <2>1, <2>2, <2>3, RowIds
       DEF Knows, Idle, Request, Op, Step, RequestOK, Striking, Following
  <2> QED BY <1>0, <1>8, <2>1, <2>4 DEF ResolveDispute
<1> QED BY <1>1, <1>2, <1>3, <1>4, <1>5, <1>6, <1>7, <1>8 DEF Arrival

\* A statement that only reads, and an error.
LEMMA ReadPreserves ==
  ASSUME IInv, NEW w \in Handlers
  PROVE  /\ CheckSuspension(w) \/ CheckDispute(w) => Kept
         /\ CountStrikes(w) \/ LookupReview(w) \/ Throw(w) => Kept
<1>1. PICK q \in Request : q = req[w] /\ RequestOK(q)
  BY Running
<1>2. ASSUME UNCHANGED tableVars, Resume(w, Idle) PROVE Kept
  BY <1>2, IdleKnows, LocalStepPreserves DEF Resume
<1>3. ASSUME UNCHANGED tableVars, NEW step \in Step, Goto(w, step),
             RequestOK([q EXCEPT !.at = step])
      PROVE  Kept
  BY <1>1, <1>3, NextStepTyped, LocalStepPreserves DEF Goto, Resume
<1>4. ASSUME CheckSuspension(w) PROVE Kept
  <2>1. RequestOK([q EXCEPT !.at = "claim"])
    BY <1>1, <1>4, NextStepTyped DEF CheckSuspension, At, Step, RequestOK, Striking, Following
  <2> QED BY <1>2, <1>3, <1>4, <2>1 DEF CheckSuspension, Step
<1>5. ASSUME CheckDispute(w) PROVE Kept
  <2>1. RequestOK([q EXCEPT !.at = "file"])
    BY <1>1, <1>5, NextStepTyped DEF CheckDispute, At, Step, RequestOK, Striking, Following
  <2> QED BY <1>2, <1>3, <1>5, <2>1 DEF CheckDispute, Step
<1>6. ASSUME LookupReview(w) PROVE Kept
  <2>1. RequestOK([q EXCEPT !.at = "strike"])
    BY <1>1, <1>6, NextStepTyped DEF LookupReview, At, Step, RequestOK, Striking, Following
  <2> QED BY <1>2, <1>3, <1>6, <2>1 DEF LookupReview, Step
<1>7. ASSUME CountStrikes(w) PROVE Kept
  <2>1. RequestOK([q EXCEPT !.at = "suspend"])
    BY <1>1, <1>7, NextStepTyped DEF CountStrikes, At, Step, RequestOK, Striking, Following
  <2>2. AfterStrike(q) \in Request /\ RequestOK(AfterStrike(q))
    BY <1>1, <1>7, AfterStrikeKnows DEF CountStrikes, At, Striking
  <2>3. CASE Goto(w, "suspend")
    BY <1>3, <1>7, <2>1, <2>3 DEF CountStrikes, Step
  <2>4. CASE Resume(w, AfterStrike(q))
    BY <1>7, <2>2, <2>4, LocalStepPreserves DEF CountStrikes, Resume
  <2> QED BY <1>1, <1>7, <2>3, <2>4 DEF CountStrikes
<1>8. ASSUME Throw(w) PROVE Kept
  BY <1>2, <1>8 DEF Throw
<1> QED BY <1>4, <1>5, <1>6, <1>7, <1>8

\* A row of token_ledger is added.
LEMMA LedgerWritePreserves ==
  ASSUME IInv, NEW w \in Handlers
  PROVE  /\ CreateTransaction(w, "grant", <<"signup", req[w].u>>) => Kept
         /\ CreateTransaction(w, "fee", <<"fee", req[w].l>>) => Kept
         /\ CreateTransaction(w, "giveback", <<"cancel", req[w].l>>) => Kept
         /\ CreateTransaction(w, "reward", <<"reward", req[w].r>>) => Kept
         /\ CreateTransaction(w, "repay", <<"refund", req[w].d>>) => Kept
<1>1. PICK q \in Request : q = req[w] /\ RequestOK(q)
  BY Running
<1> USE DEF exchangeVars, standingVars
<1>2. ASSUME NEW step, NEW key \in Key, CreateTransaction(w, step, key),
             \A r \in Reviews : key = <<"reward", r>> => review[r].status = "submitted",
             \A l \in Listings : key = <<"cancel", l>> => listing[l].status = "cancelled",
             \A d \in Disputes : key = <<"refund", d>> => dispute[d].status \in Upheld
      PROVE  Kept
  <2>1. ledger' = ledger \cup {key} /\ UNCHANGED <<exchangeVars, standingVars>>
    BY <1>2 DEF CreateTransaction
  <2>2. TablesOK'
    BY <2>1 DEF IInv, TypeOK, TablesOK
  <2>3. Lasting
    BY <2>1 DEF Lasting
  <2>4. LedgerRows'
    BY <1>2, <2>1 DEF LedgerRows, IInv, RowsOK
  <2>5. UpheldOnly'
    BY <1>2, <2>1 DEF UpheldOnly, Upheld, IInv, RowsOK
  <2>6. RowsOK'
    BY <2>1, <2>3, <2>4, <2>5, RowsStable DEF RowsOK
  <2> QED BY <1>2, <2>2, <2>3, <2>6, IdleKnows, StepPreserves DEF CreateTransaction, Resume
<1>3. ASSUME CreateTransaction(w, "grant", <<"signup", req[w].u>>) PROVE Kept
  <2>1. <<"signup", q.u>> \in Key
    BY <1>1, <1>3 DEF CreateTransaction, At, RequestOK, Key
  <2> QED BY <1>1, <1>2, <1>3, <2>1
<1>4. ASSUME CreateTransaction(w, "fee", <<"fee", req[w].l>>) PROVE Kept
  <2>1. <<"fee", q.l>> \in Key
    BY <1>1, <1>4 DEF CreateTransaction, At, RequestOK, Listed, Key
  <2> QED BY <1>1, <1>2, <1>4, <2>1
<1>5. ASSUME CreateTransaction(w, "giveback", <<"cancel", req[w].l>>) PROVE Kept
  <2>1. <<"cancel", q.l>> \in Key /\ listing[q.l].status = "cancelled"
    BY <1>1, <1>5 DEF CreateTransaction, At, RequestOK, Listed, Key
  <2> QED BY <1>1, <1>2, <1>5, <2>1
<1>6. ASSUME CreateTransaction(w, "reward", <<"reward", req[w].r>>) PROVE Kept
  <2>1. <<"reward", q.r>> \in Key /\ review[q.r].status = "submitted"
    BY <1>1, <1>6 DEF CreateTransaction, At, RequestOK, Written, Key
  <2> QED BY <1>1, <1>2, <1>6, <2>1
<1>7. ASSUME CreateTransaction(w, "repay", <<"refund", req[w].d>>) PROVE Kept
  <2>1. <<"refund", q.d>> \in Key /\ dispute[q.d].status \in Upheld
    BY <1>1, <1>7 DEF CreateTransaction, At, RequestOK, Following, Key
  <2> QED BY <1>1, <1>2, <1>7, <2>1
<1> QED BY <1>3, <1>4, <1>5, <1>6, <1>7

\* A listing is inserted, claimed with a new review, or cancelled.
LEMMA ListingWritePreserves ==
  ASSUME IInv, NEW w \in Handlers
  PROVE  /\ \A l \in Listings : InsertListing(w, l) => Kept
         /\ Claim(w) \/ Cancel(w) => Kept
<1>1. PICK q \in Request : q = req[w] /\ RequestOK(q)
  BY Running
<1> USE DEF exchangeVars, standingVars
<1>2. /\ listing \in [Listings -> [owner : Users \cup {None}, claimer : Users \cup {None},
                      status : {"none", "open", "claimed", "expired", "cancelled"}]]
      /\ review \in [Reviews -> [listing : Listings \cup {0}, reviewer : Users \cup {None},
                     status : {"none", "in_progress", "submitted", "deleted"}]]
  BY DEF IInv, TypeOK
<1>3. ASSUME NEW l \in Listings, InsertListing(w, l) PROVE Kept
  <2>1. q.u \in Users /\ listing[l] = NoListing
    BY <1>1, <1>3 DEF InsertListing, At, RequestOK, NextListing
  <2>2. listing' = [listing EXCEPT ![l] = [owner |-> q.u, status |-> "open", claimer |-> None]]
    BY <1>1, <1>3 DEF InsertListing
  <2>3. UNCHANGED <<review, rated, dispute, ledger, standingVars>>
    BY <1>3 DEF InsertListing
  <2>4. TablesOK'
    BY <1>2, <2>1, <2>2, <2>3 DEF IInv, TypeOK, TablesOK
  <2>5. Lasting
    BY <1>2, <2>1, <2>2, <2>3 DEF Lasting, NoListing
  <2>6. \A m \in Listings : InProgress(m)' = InProgress(m)
    BY <2>3 DEF InProgress
  <2>7. InProgress(l) = {}
    BY <2>1 DEF IInv, RowsOK, ReviewIsClaimed, NoListing
  <2>8. ReviewIsClaimed'
    BY <1>2, <2>2, <2>3, <2>6, <2>7 DEF IInv, RowsOK, ReviewIsClaimed
  <2>9. RowsOK'
    BY <2>3, <2>5, <2>8, RowsStable DEF RowsOK
  <2>10. PICK p : p = [q EXCEPT !.at = "fee", !.l = l]
    OBVIOUS
  <2>11. p \in Request /\ p.at = "fee" /\ p.l = l /\ p.op = q.op
    BY <2>10, RowIds DEF Request, Step
  <2>12. q.op # "resolve"
    BY <1>1, <1>3 DEF InsertListing, At, RequestOK, Striking, Following
  <2>13. RequestOK(p)'
    BY <2>2, <1>2, <2>11, <2>12 DEF RequestOK, Striking, Listed
  <2> QED BY <1>1, <1>3, <2>4, <2>5, <2>9, <2>10, <2>11, <2>13, StepPreserves
          DEF InsertListing, Resume
<1>4. ASSUME Claim(w) PROVE Kept
  <2>1. q.u \in Users /\ q.l \in Listings /\ listing[q.l].owner # q.u
    BY <1>1, <1>4 DEF Claim, At, RequestOK, Listed
  <2>2. CASE listing[q.l].status # "open"
    BY <1>1, <1>4, <2>2, IdleKnows, LocalStepPreserves DEF Claim, StartReview, Resume
  <2>3. CASE listing[q.l].status = "open"
    <3>1. PICK r \in Reviews : StartReview(w, r)
      BY <1>1, <1>4, <2>3 DEF Claim
    <3>2. /\ review[r] = NoReview
          /\ listing' = [listing EXCEPT ![q.l].status = "claimed", ![q.l].claimer = q.u]
          /\ review' = [review EXCEPT ![r] = [listing |-> q.l, reviewer |-> q.u,
                                              status |-> "in_progress"]]
          /\ UNCHANGED <<rated, dispute, ledger, standingVars>>
      BY <1>1, <3>1 DEF StartReview, NextReview
    <3>3. /\ listing'[q.l].status = "claimed" /\ listing'[q.l].claimer = q.u
          /\ \A l \in Listings : /\ listing'[l].owner = listing[l].owner
                                 /\ l # q.l => listing'[l] = listing[l]
          /\ review'[r].listing = q.l /\ review'[r].reviewer = q.u
          /\ review'[r].status = "in_progress" /\ review[r].status = "none"
          /\ \A s \in Reviews : s # r => review'[s] = review[s]
      BY <1>2, <2>1, <3>2 DEF NoReview
    <3>4. TablesOK'
      BY <1>2, <2>1, <3>2 DEF IInv, TypeOK, TablesOK
    <3>5. Lasting
      BY <2>3, <3>2, <3>3 DEF Lasting
    <3>6. ReviewRows'
      BY <2>1, <2>3, <3>3 DEF IInv, RowsOK, ReviewRows, Listed, OwnerOf
    <3>7. LedgerRows'
      BY ZenonT(40), <2>3, <3>2, <3>3 DEF IInv, RowsOK, LedgerRows
    <3>8. InProgress(q.l) = {}
      BY <2>1, <2>3 DEF IInv, RowsOK, ReviewIsClaimed
    <3>9. /\ InProgress(q.l)' = {r}
          /\ \A l \in Listings : l # q.l => InProgress(l)' = InProgress(l)
      BY <3>3, <3>8 DEF InProgress
    <3>10. ReviewIsClaimed'
      BY <3>3, <3>9 DEF IInv, RowsOK, ReviewIsClaimed, InProgress
    <3>11. RowsOK'
      BY <3>2, <3>5, <3>6, <3>7, <3>10, RowsStable DEF RowsOK
    <3> QED BY <3>1, <3>4, <3>5, <3>11, IdleKnows, StepPreserves DEF StartReview, Resume
  <2> QED BY <2>2, <2>3
<1>5. ASSUME Cancel(w) PROVE Kept
  <2>1. q.at = "cancel" /\ Listed(q.l) /\ q.l \in Listings
    BY <1>1, <1>5 DEF Cancel, At, RequestOK, Listed
  <2>2. CASE listing[q.l].status # "open"
    BY <1>1, <1>5, <2>2, IdleKnows, LocalStepPreserves DEF Cancel, Resume, tableVars
  <2>3. CASE listing[q.l].status = "open"
    <3>1. /\ listing' = [listing EXCEPT ![q.l].status = "cancelled"]
          /\ Goto(w, "giveback")
          /\ UNCHANGED <<review, rated, dispute, ledger, standingVars>>
      BY <1>1, <1>5, <2>3 DEF Cancel
    <3>2. /\ listing'[q.l].status = "cancelled"
          /\ \A l \in Listings : /\ listing'[l].owner = listing[l].owner
                                 /\ l # q.l => listing'[l] = listing[l]
      BY <1>2, <2>1, <3>1
    <3>3. TablesOK'
      BY ZenonT(40), <1>2, <2>1, <3>1 DEF IInv, TypeOK, TablesOK
    <3>4. Lasting
      BY <2>3, <3>1, <3>2 DEF Lasting
    <3>5. \A l \in Listings : InProgress(l)' = InProgress(l)
      BY <3>1 DEF InProgress
    <3>6. InProgress(q.l) = {}
      BY <2>1, <2>3 DEF IInv, RowsOK, ReviewIsClaimed
    <3>7. ReviewIsClaimed'
      BY <3>1, <3>2, <3>5, <3>6 DEF IInv, RowsOK, ReviewIsClaimed
    <3>8. RowsOK'
      BY <3>1, <3>4, <3>7, RowsStable DEF RowsOK
    <3>9. RequestOK([q EXCEPT !.at = "giveback"])'
      <4>1. q.op # "resolve"
        BY <1>1, <2>1 DEF RequestOK, Striking, Following
      <4>2. Listed(q.l)'
        BY <2>1, <3>2 DEF Listed
      <4> QED BY <3>2, <4>1, <4>2, NextStepTyped DEF RequestOK, Striking, Step
    <3> QED BY ZenonT(40), <1>1, <3>1, <3>3, <3>4, <3>8, <3>9, NextStepTyped, StepPreserves
            DEF Goto, Resume, Step
  <2> QED BY <2>2, <2>3
<1> QED BY <1>3, <1>4, <1>5

\* A review is submitted or rated.
LEMMA ReviewWritePreserves ==
  ASSUME IInv, NEW w \in Handlers
  PROVE  Submit(w) \/ InsertRating(w) => Kept
<1>1. PICK q \in Request : q = req[w] /\ RequestOK(q)
  BY Running
<1> USE DEF exchangeVars, standingVars
<1>2. ASSUME Submit(w) PROVE Kept
  <2>1. q.at = "submit" /\ Written(q.r) /\ q.r \in Reviews /\ q.op # "resolve"
    BY <1>1, <1>2 DEF Submit, At, RequestOK, Written, Striking, Following
  <2>2. CASE review[q.r].status # "in_progress"
    BY <1>1, <1>2, <2>2, IdleKnows, LocalStepPreserves DEF Submit, Resume, tableVars
  <2>3. CASE review[q.r].status = "in_progress"
    <3>1. /\ review' = [review EXCEPT ![q.r].status = "submitted"]
          /\ Goto(w, "reward")
          /\ UNCHANGED <<listing, rated, dispute, ledger, standingVars>>
      BY <1>1, <1>2, <2>3 DEF Submit
    <3>2. /\ review'[q.r].status = "submitted"
          /\ \A r \in Reviews : /\ review'[r].listing = review[r].listing
                                /\ review'[r].reviewer = review[r].reviewer
                                /\ r # q.r => review'[r] = review[r]
      BY <2>1, <3>1 DEF IInv, TypeOK
    <3>3. TablesOK'
      BY ZenonT(40), <2>1, <3>1 DEF IInv, TypeOK, TablesOK
    <3>4. Lasting
      BY <2>3, <3>1, <3>2 DEF Lasting
    <3>5. ReviewRows'
      BY <2>3, <3>1, <3>2 DEF IInv, RowsOK, ReviewRows, Listed, OwnerOf
    <3>6. LedgerRows'
      BY <2>3, <3>1, <3>2 DEF IInv, RowsOK, LedgerRows
    <3>7. \A l \in Listings : InProgress(l)' \subseteq InProgress(l)
      BY <2>3, <3>2 DEF InProgress
    <3>8. ReviewIsClaimed'
      BY <3>1, <3>2, <3>7 DEF IInv, RowsOK, ReviewIsClaimed, InProgress
    <3>9. RowsOK'
      BY <3>1, <3>4, <3>5, <3>6, <3>8, RowsStable DEF RowsOK
    <3>10. RequestOK([q EXCEPT !.at = "reward"])'
      <4>1. Written(q.r)'
        BY <2>1, <3>2 DEF Written
      <4> QED BY <2>1, <3>2, <4>1, NextStepTyped DEF RequestOK, Striking, Step
    <3> QED BY <1>1, <3>1, <3>3, <3>4, <3>9, <3>10, NextStepTyped, StepPreserves
            DEF Goto, Resume, Step
  <2> QED BY <2>2, <2>3
<1>3. ASSUME InsertRating(w) PROVE Kept
  <2>1. q.at = "rate" /\ q.op = "rate" /\ Written(q.r) /\ q.r \in Reviews
    BY <1>1, <1>3 DEF InsertRating, At, RequestOK, Written
  <2>2. rated' = rated \cup {q.r} /\ UNCHANGED <<listing, review, dispute, ledger, standingVars>>
    BY <1>1, <1>3 DEF InsertRating
  <2>3. TablesOK'
    BY <2>1, <2>2 DEF IInv, TypeOK, TablesOK
  <2>4. Lasting
    BY <2>2 DEF Lasting
  <2>5. RowsOK'
    BY <2>2, <2>4, RowsStable DEF RowsOK
  <2>6. CASE Resume(w, Idle)
    BY <2>3, <2>4, <2>5, <2>6, IdleKnows, StepPreserves DEF Resume
  <2>7. CASE Goto(w, "strike")
    <3>1. Written(q.r)'
      BY <2>1, <2>2 DEF Written
    <3>2. RequestOK([q EXCEPT !.at = "strike"])'
      BY <2>1, <3>1, NextStepTyped DEF RequestOK, Striking, Step
    <3> QED BY <1>1, <2>3, <2>4, <2>5, <2>7, <3>2, NextStepTyped, StepPreserves
            DEF Goto, Resume, Step
  <2> QED BY <1>3, <2>6, <2>7 DEF InsertRating
<1> QED BY <1>2, <1>3

\* A strike is stored, or the reviewer suspended.
LEMMA StandingWritePreserves ==
  ASSUME IInv, NEW w \in Handlers
  PROVE  IssueStrike(w) \/ SuspendReviewer(w) => Kept
<1>1. PICK q \in Request : q = req[w] /\ RequestOK(q)
  BY Running
<1> USE DEF exchangeVars, standingVars
<1>2. ASSUME IssueStrike(w) PROVE Kept
  <2>1. q.at = "strike" /\ Written(q.r) /\ q.r \in Reviews /\ q.op \in {"rate", "resolve"}
    BY <1>1, <1>2 DEF IssueStrike, At, RequestOK, Written, Striking
  <2>2. PICK g : g = GroundOf(q)
    OBVIOUS
  <2>3. /\ g \in Ground
        /\ \A r \in Reviews : g = <<"rating", r>> => Written(r)
        /\ \A d \in Disputes : g = <<"dispute", d>> => dispute[d].status \in Upheld
    BY <1>1, <2>1, <2>2 DEF GroundOf, Ground, RequestOK
  <2>4. /\ strike' = [strike EXCEPT ![g] = "active"]
        /\ Goto(w, "count")
        /\ UNCHANGED <<exchangeVars, ledger, suspension>>
    BY <1>1, <1>2, <2>2 DEF IssueStrike
  <2>5. \A h \in Ground : h # g => strike'[h] = strike[h]
    BY <2>4 DEF IInv, TypeOK
  <2>6. TablesOK'
    BY <2>3, <2>4 DEF IInv, TypeOK, TablesOK
  <2>7. Lasting
    BY <2>4 DEF Lasting
  <2>8. StrikeRows'
    BY <2>3, <2>4, <2>5 DEF IInv, RowsOK, StrikeRows, Written, Ground
  <2>9. UpheldOnly'
    BY <2>3, <2>4, <2>5 DEF IInv, RowsOK, UpheldOnly, Upheld, Ground
  <2>10. RowsOK'
    BY <2>4, <2>7, <2>8, <2>9, RowsStable DEF RowsOK
  <2>11. RequestOK([q EXCEPT !.at = "count"])
    BY <1>1, <2>1, NextStepTyped DEF RequestOK, Striking, Following, Step
  <2>12. RequestOK([q EXCEPT !.at = "count"])'
    BY <2>7, <2>11, NextStepTyped, RequestStable DEF Step
  <2> QED BY <1>1, <2>4, <2>6, <2>7, <2>10, <2>12, NextStepTyped, StepPreserves
          DEF Goto, Resume, Step
<1>3. ASSUME SuspendReviewer(w) PROVE Kept
  <2>1. q.at = "suspend"
    BY <1>1, <1>3 DEF SuspendReviewer, At
  <2>2. /\ suspension' = [suspension EXCEPT ![review[q.r].reviewer] = "active"]
        /\ Resume(w, AfterStrike(q))
        /\ UNCHANGED <<exchangeVars, ledger, strike>>
    BY <1>1, <1>3 DEF SuspendReviewer
  <2>3. TablesOK'
    BY <2>2 DEF IInv, TypeOK, TablesOK
  <2>4. Lasting
    BY <2>2 DEF Lasting
  <2>5. RowsOK'
    BY <2>2, <2>4, RowsStable DEF RowsOK
  <2>6. AfterStrike(q) \in Request /\ RequestOK(AfterStrike(q))
    BY <1>1, <2>1, AfterStrikeKnows DEF Striking
  <2>7. RequestOK(AfterStrike(q))'
    <3>1. PICK p \in Request : p = AfterStrike(q) /\ RequestOK(p)
      BY <2>6
    <3>2. RequestOK(p)'
      BY <2>4, <3>1, RequestStable
    <3> QED BY <3>1, <3>2 DEF AfterStrike
  <2> QED BY <2>2, <2>3, <2>4, <2>5, <2>6, <2>7, StepPreserves DEF Resume, AfterStrike
<1> QED BY <1>2, <1>3

\* A dispute is filed or resolved.
LEMMA DisputeWritePreserves ==
  ASSUME IInv, NEW w \in Handlers
  PROVE  InsertDispute(w) \/ Resolve(w) => Kept
<1>1. PICK q \in Request : q = req[w] /\ RequestOK(q)
  BY Running
<1> USE DEF exchangeVars, standingVars
<1>2. dispute \in [Disputes -> [review : Reviews \cup {0}, filer : Users \cup {None},
                     status : {"none", "open", "deleted"} \cup Ruling]]
  BY DEF IInv, TypeOK
<1>3. ASSUME InsertDispute(w) PROVE Kept
  <2>1. q.at = "file" /\ Written(q.r) /\ q.r \in Reviews /\ q.u \in Users
    BY <1>1, <1>3 DEF InsertDispute, At, RequestOK, Written
  <2>2. UNCHANGED <<listing, review, rated, ledger, standingVars>> /\ Resume(w, Idle)
    BY <1>3 DEF InsertDispute
  <2>3. CASE UNCHANGED dispute
    BY <2>2, <2>3, IdleKnows, LocalStepPreserves DEF Resume, tableVars
  <2>4. CASE \E d \in Disputes : /\ NextDispute(d)
                                /\ dispute' = [dispute EXCEPT ![d] =
                                     [review |-> q.r, filer |-> q.u, status |-> "open"]]
    <3>1. PICK d \in Disputes : /\ dispute[d] = NoDispute
                                /\ dispute' = [dispute EXCEPT ![d] =
                                     [review |-> q.r, filer |-> q.u, status |-> "open"]]
      BY <2>4 DEF NextDispute
    <3>2. /\ dispute[d].status = "none" /\ dispute'[d].review = q.r
          /\ \A e \in Disputes : e # d => dispute'[e] = dispute[e]
      BY <1>2, <3>1 DEF NoDispute
    <3>3. TablesOK'
      BY <1>2, <2>1, <2>2, <3>1 DEF IInv, TypeOK, TablesOK
    <3>4. Lasting
      BY <2>2, <3>2 DEF Lasting
    <3>5. DisputeRows'
      BY <2>1, <2>2, <3>2 DEF IInv, RowsOK, DisputeRows, Written
    <3>6. UpheldOnly'
      BY <2>2, <3>2 DEF IInv, RowsOK, UpheldOnly
    <3>7. RowsOK'
      BY <2>2, <3>4, <3>5, <3>6, RowsStable DEF RowsOK
    <3> QED BY <2>2, <3>3, <3>4, <3>7, IdleKnows, StepPreserves DEF Resume
  <2> QED BY <1>1, <1>3, <2>3, <2>4 DEF InsertDispute
<1>4. ASSUME Resolve(w) PROVE Kept
  <2>1. /\ q.at = "resolve" /\ q.op = "resolve" /\ q.to \in Ruling /\ q.d \in Disputes
        /\ dispute[q.d].status # "none" /\ dispute[q.d].review = q.r /\ Written(q.r)
    BY <1>1, <1>4 DEF Resolve, At, RequestOK
  <2>2. UNCHANGED <<listing, review, rated, ledger, standingVars>>
    BY <1>4 DEF Resolve
  <2>3. CASE dispute[q.d].status # "open"
    BY <1>1, <1>4, <2>3, IdleKnows, LocalStepPreserves DEF Resolve, Resume, tableVars
  <2>4. CASE dispute[q.d].status = "open"
    <3>1. dispute' = [dispute EXCEPT ![q.d].status = q.to]
      BY <1>1, <1>4, <2>4 DEF Resolve
    <3>2. /\ dispute'[q.d].status = q.to /\ dispute'[q.d].review = q.r
          /\ \A e \in Disputes : e # q.d => dispute'[e] = dispute[e]
      BY <1>2, <2>1, <3>1
    <3>3. TablesOK'
      BY ZenonT(40), <1>2, <2>1, <2>2, <3>1 DEF IInv, TypeOK, TablesOK
    <3>4. Lasting
      BY <2>1, <2>2, <2>4, <3>2 DEF Lasting, Upheld, Ruling
    <3>5. DisputeRows'
      BY <2>1, <2>2, <3>2 DEF IInv, RowsOK, DisputeRows, Written
    <3>6. UpheldOnly'
      BY <2>2, <2>4, <3>2 DEF IInv, RowsOK, UpheldOnly
    <3>7. RowsOK'
      BY <2>2, <3>4, <3>5, <3>6, RowsStable DEF RowsOK
    <3>8. CASE Resume(w, Idle)
      BY <3>3, <3>4, <3>7, <3>8, IdleKnows, StepPreserves DEF Resume
    <3>9. CASE q.to = "for_filer" /\ Goto(w, "review")
      <4>1. Written(q.r)' /\ dispute'[q.d].status \in Upheld
        BY <2>1, <2>2, <3>2, <3>9 DEF Written, Upheld
      <4>2. RequestOK([q EXCEPT !.at = "review"])'
        BY <2>1, <3>2, <4>1, NextStepTyped DEF RequestOK, Striking, Following, Step, Upheld
      <4> QED BY ZenonT(40), <1>1, <3>3, <3>4, <3>7, <3>9, <4>2, NextStepTyped, StepPreserves
              DEF Goto, Resume, Step
    <3> QED BY <1>1, <1>4, <2>4, <3>8, <3>9 DEF Resolve
  <2> QED BY <2>3, <2>4
<1> QED BY <1>3, <1>4

\* A step that takes no handler further.
LEMMA OutsidePreserves ==
  ASSUME IInv, Lasting, TablesOK', RowsOK', UNCHANGED req
  PROVE  Kept
<1>1. ASSUME NEW v \in Handlers PROVE RequestOK(req[v])'
  <2>1. PICK q \in Request : q = req[v] /\ RequestOK(q)
    BY Running
  <2> QED BY <2>1, RequestStable
<1> QED BY <1>1 DEF IInv, TypeOK, TablesOK, Kept

\* The maintenance jobs, and time.
LEMMA MaintenancePreserves ==
  ASSUME IInv
  PROVE  Maintenance \/ TimePasses => Kept
<1> USE DEF exchangeVars, standingVars
<1>1. /\ listing \in [Listings -> [owner : Users \cup {None}, claimer : Users \cup {None},
                      status : {"none", "open", "claimed", "expired", "cancelled"}]]
      /\ review \in [Reviews -> [listing : Listings \cup {0}, reviewer : Users \cup {None},
                     status : {"none", "in_progress", "submitted", "deleted"}]]
      /\ dispute \in [Disputes -> [review : Reviews \cup {0}, filer : Users \cup {None},
                      status : {"none", "open", "deleted"} \cup Ruling]]
  BY DEF IInv, TypeOK
<1>2. ASSUME ExpireListings PROVE Kept
  <2>1. PICK late \in SUBSET {l \in Listings : listing[l].status = "open"} :
          listing' = [l \in Listings |->
                        IF l \in late THEN [listing[l] EXCEPT !.status = "expired"]
                                      ELSE listing[l]]
    BY <1>2 DEF ExpireListings
  <2>2. UNCHANGED <<review, rated, dispute, ledger, standingVars, req>>
    BY <1>2 DEF ExpireListings
  <2>3. \A l \in Listings :
          /\ l \in late => /\ listing[l].status = "open" /\ listing'[l].status = "expired"
                           /\ listing'[l].owner = listing[l].owner
          /\ l \notin late => listing'[l] = listing[l]
    BY <1>1, <2>1
  <2>4. TablesOK'
    BY SMTT(40), <1>1, <2>1, <2>2 DEF IInv, TypeOK, TablesOK
  <2>5. Lasting
    BY <2>2, <2>3 DEF Lasting
  <2>6. \A l \in Listings : InProgress(l)' = InProgress(l) /\ (l \in late => InProgress(l) = {})
    BY <2>2, <2>3 DEF InProgress, IInv, RowsOK, ReviewIsClaimed
  <2>7. ReviewIsClaimed'
    BY <2>2, <2>3, <2>6 DEF IInv, RowsOK, ReviewIsClaimed
  <2>8. RowsOK'
    BY <2>2, <2>5, <2>7, RowsStable DEF RowsOK
  <2> QED BY <2>2, <2>4, <2>5, <2>8, OutsidePreserves
<1>3. ASSUME ExpireReviews PROVE Kept
  <2>1. PICK late \in SUBSET {l \in Listings : listing[l].status = "claimed"},
             gone \in SUBSET {r \in Reviews : review[r].status = "in_progress"} :
          /\ gone = {r \in Reviews : review[r].status = "in_progress"
                                     /\ review[r].listing \in late}
          /\ review' = [r \in Reviews |->
                          IF r \in gone THEN [review[r] EXCEPT !.status = "deleted"]
                                        ELSE review[r]]
          /\ dispute' = [d \in Disputes |->
                           IF dispute[d].review \in gone
                           THEN [dispute[d] EXCEPT !.status = "deleted"] ELSE dispute[d]]
          /\ listing' = Reopened(late)
    BY <1>3 DEF ExpireReviews
  <2>2. UNCHANGED <<rated, ledger, standingVars, req>>
    BY <1>3 DEF ExpireReviews
  <2>3. \A l \in Listings :
          /\ l \in late => /\ listing[l].status = "claimed" /\ listing'[l].status = "open"
                           /\ listing'[l].owner = listing[l].owner
          /\ l \notin late => listing'[l] = listing[l]
    BY ZenonT(40), <1>1, <2>1 DEF Reopened
  <2>4. \A r \in Reviews :
          /\ review'[r].listing = review[r].listing /\ review'[r].reviewer = review[r].reviewer
          /\ r \in gone => review'[r].status = "deleted"
          /\ r \notin gone => review'[r] = review[r]
    BY <1>1, <2>1
  <2>5. \A d \in Disputes :
          /\ dispute'[d].review = dispute[d].review
          /\ dispute[d].review \in gone => dispute'[d].status = "deleted"
          /\ dispute[d].review \notin gone => dispute'[d] = dispute[d]
    BY <1>1, <2>1
  <2>6. TablesOK'
    <3>1. listing' \in [Listings -> [owner : Users \cup {None}, claimer : Users \cup {None},
                        status : {"none", "open", "claimed", "expired", "cancelled"}]]
      <4> DEFINE Row == [owner : Users \cup {None}, claimer : Users \cup {None},
                         status : {"none", "open", "claimed", "expired", "cancelled"}]
      <4>1. \A x \in Row : [x EXCEPT !.status = "open", !.claimer = None] \in Row
        OBVIOUS
      <4>2. \A l \in Listings : listing[l] \in Row
        BY <1>1
      <4> HIDE DEF Row
      <4>3. Reopened(late) \in [Listings -> Row]
        BY <4>1, <4>2 DEF Reopened
      <4> QED BY <2>1, <4>3 DEF Row
    <3>2. review' \in [Reviews -> [listing : Listings \cup {0}, reviewer : Users \cup {None},
                       status : {"none", "in_progress", "submitted", "deleted"}]]
      BY <1>1, <2>1
    <3>3. dispute' \in [Disputes -> [review : Reviews \cup {0}, filer : Users \cup {None},
                        status : {"none", "open", "deleted"} \cup Ruling]]
      BY SMTT(40), <1>1, <2>1
    <3> QED BY <2>2, <3>1, <3>2, <3>3 DEF IInv, TypeOK, TablesOK
  <2>7. Lasting
    <3>1. \A l \in Listings : listing[l].status # "none" =>
            /\ listing'[l].status # "none" /\ listing'[l].owner = listing[l].owner
            /\ listing[l].status = "cancelled" => listing'[l].status = "cancelled"
      BY <2>3
    <3>2. \A r \in Reviews : review[r].status # "none" =>
            /\ review'[r].status # "none"
            /\ review[r].status = "submitted" => review'[r].status = "submitted"
      BY <2>4
    <3>3. \A d \in Disputes : dispute[d].status # "none" =>
            /\ dispute'[d].status # "none"
            /\ dispute[d].status \in Upheld => dispute'[d].status \in Upheld
      BY <2>5 DEF Upheld
    <3> QED BY <2>4, <2>5, <3>1, <3>2, <3>3 DEF Lasting
  <2>8. ReviewRows'
    BY <2>3, <2>4 DEF IInv, RowsOK, ReviewRows, Listed, OwnerOf
  <2>9. DisputeRows'
    BY <2>4, <2>5 DEF IInv, RowsOK, DisputeRows, Written
  <2>10. \A l \in Listings : InProgress(l)' = IF l \in late THEN {} ELSE InProgress(l)
    <3> TAKE l \in Listings
    <3>1. CASE l \in late
      BY <2>1, <2>4, <3>1 DEF InProgress
    <3>2. CASE l \notin late
      BY <2>1, <2>4, <3>2 DEF InProgress
    <3> QED BY <3>1, <3>2
  <2>11. ReviewIsClaimed'
    BY <2>3, <2>4, <2>10 DEF IInv, RowsOK, ReviewIsClaimed, InProgress
  <2>12. LedgerRows'
    BY <2>2, <2>7, RowsStable
  <2>13. UpheldOnly' /\ StrikeRows'
    BY <2>2, <2>7, RowsStable
  <2> QED BY <2>2, <2>6, <2>7, <2>8, <2>9, <2>11, <2>12, <2>13, OutsidePreserves DEF RowsOK
<1>4. ASSUME UNCHANGED <<exchangeVars, ledger, req>>, TablesOK',
             \A g \in Ground : strike[g] = "none" => strike'[g] = "none"
      PROVE  Kept
  <2>1. Lasting
    BY <1>4 DEF Lasting
  <2>2. StrikeRows' /\ UpheldOnly'
    BY <1>4 DEF IInv, RowsOK, StrikeRows, UpheldOnly, Written, Ground
  <2>3. RowsOK'
    BY <1>4, <2>1, <2>2, RowsStable DEF RowsOK
  <2> QED BY <1>4, <2>1, <2>3, OutsidePreserves
<1>5. ASSUME DecayStrikes PROVE Kept
  <2>1. TablesOK'
    BY <1>5 DEF DecayStrikes, IInv, TypeOK, TablesOK
  <2> QED BY <1>4, <1>5, <2>1 DEF DecayStrikes
<1>6. ASSUME TimePasses PROVE Kept
  <2>1. /\ strike' \in [Ground -> {"none", "active", "expired", "inactive"}]
        /\ suspension' \in [Users -> {"none", "active", "lifted"}]
        /\ UNCHANGED <<exchangeVars, ledger>>
    BY <1>6 DEF TimePasses, IInv, TypeOK
  <2>2. TablesOK'
    BY <2>1 DEF IInv, TypeOK, TablesOK
  <2>3. \A g \in Ground : strike[g] = "none" => strike'[g] = "none"
    BY <1>6 DEF TimePasses, IInv, TypeOK
  <2> QED BY <1>4, <1>6, <2>2, <2>3 DEF TimePasses
<1> QED BY <1>2, <1>3, <1>5, <1>6 DEF Maintenance

\* Lemma: A crash, which drops every request and keeps the rows, keeps the invariant.
LEMMA CrashPreserves ==
  ASSUME IInv, Crash
  PROVE  Kept
<1> USE DEF tableVars, exchangeVars, standingVars
<1>1. UNCHANGED tableVars /\ req' = [w \in Handlers |-> Idle]
  BY DEF Crash
<1>2. TypeOK'
  BY <1>1, IdleKnows DEF IInv, TypeOK
<1>3. Lasting
  BY <1>1 DEF Lasting
<1>4. RowsOK'
  BY <1>1, <1>3, RowsStable DEF RowsOK
<1> QED BY <1>1, <1>2, <1>3, <1>4, IdleKnows DEF IInv, Kept

\* Lemma: Every step of the service keeps the invariant: one case per action.
LEMMA NextPreserves ==
  ASSUME IInv, [Next]_vars
  PROVE  Kept
<1>1. CASE UNCHANGED vars
  <2> USE DEF vars, tableVars, exchangeVars, standingVars
  <2>1. TablesOK'
    BY <1>1 DEF IInv, TypeOK, TablesOK
  <2>2. Lasting
    BY <1>1 DEF Lasting
  <2>3. RowsOK'
    BY <1>1, <2>2, RowsStable DEF RowsOK
  <2> QED BY <1>1, <2>1, <2>2, <2>3, OutsidePreserves
<1>2. ASSUME NEW w \in Handlers, Arrival(w) PROVE Kept
  BY <1>2, ArrivalPreserves
<1>3. ASSUME NEW w \in Handlers, Proceed(w) PROVE Kept
  BY <1>3, LedgerWritePreserves, ListingWritePreserves, ReviewWritePreserves,
     StandingWritePreserves, DisputeWritePreserves, ReadPreserves DEF Proceed
<1>4. ASSUME NEW w \in Handlers, Throw(w) PROVE Kept
  BY <1>4, ReadPreserves
<1> QED BY <1>1, <1>2, <1>3, <1>4, CrashPreserves, MaintenancePreserves DEF Next

-----------------------------------------------------------------------------
(* The results.                                                             *)

\* In every reachable state each row, and what each running handler still relies on, is
\* as described above.
THEOREM Invariance == Spec => []IInv
<1>1. IInv /\ [Next]_vars => IInv'
  BY NextPreserves DEF Kept
<1> QED BY <1>1, InitEstablishes, PTL DEF Spec

\* Every table, column and local variable keeps its type.
THEOREM TypeCorrect == Spec => []TypeOK
<1>1. IInv => TypeOK
  BY DEF IInv
<1> QED BY <1>1, Invariance, PTL

\* createTransaction books a reward only for a review that is submitted, by somebody
\* other than the owner of the listing.
THEOREM OnlyEarnedRewards == Spec => []RewardIsEarned
<1>1. IInv => RewardIsEarned
  BY DEF IInv, RowsOK, LedgerRows, ReviewRows, RewardIsEarned
<1> QED BY <1>1, Invariance, PTL

\* However claims, cancellations and the expiry jobs interleave, a listing has at most
\* one review in progress, by the reviewer who claimed it.
THEOREM OneReviewInProgress == Spec => []ReviewIsClaimed
<1>1. IInv => ReviewIsClaimed
  BY DEF IInv, RowsOK
<1> QED BY <1>1, Invariance, PTL

\* A listing whose fee came back is cancelled, and nobody is reviewing it.
THEOREM RefundedIsOver == Spec => []CancelledIsOver
<1>1. IInv => CancelledIsOver
  BY DEF IInv, RowsOK, LedgerRows, ReviewIsClaimed, CancelledIsOver
<1> QED BY <1>1, Invariance, PTL

\* Refunds and strikes follow only a dispute that was decided for its filer.
THEOREM OnlyUpheldDisputes == Spec => []UpheldOnly
<1>1. IInv => UpheldOnly
  BY DEF IInv, RowsOK
<1> QED BY <1>1, Invariance, PTL

-----------------------------------------------------------------------------
(* Suspension.  Nothing tells the handlers of two strikes of one reviewer   *)
(* of each other: each counts after its own INSERT.                         *)

\* Lemma: The grounds for a strike are finitely many, so strikes can be counted.
LEMMA GroundIsFinite ==
  /\ IsFiniteSet(Ground)
  /\ \A S \in SUBSET Ground : IsFiniteSet(S) /\ Cardinality(S) \in Nat
<1>1. IsFiniteSet(Reviews) /\ IsFiniteSet(Disputes)
  BY FeedbackAssumption, FS_Interval DEF Reviews, Disputes
<1>2. IsFiniteSet({"rating"}) /\ IsFiniteSet({"dispute"})
  BY FS_Singleton
<1>3. IsFiniteSet(Ground)
  BY <1>1, <1>2, FS_Product, FS_Union DEF Ground
<1> QED BY <1>3, FS_Subset, FS_CardinalityType

\* Whom a stored strike is against never changes.
LEMMA StruckUserStable ==
  ASSUME IInv, Lasting, NEW g \in Ground, strike[g] # "none"
  PROVE  StruckUser(g)' = StruckUser(g)
<1>1. CASE \E r \in Reviews : g = <<"rating", r>>
  BY <1>1 DEF IInv, RowsOK, StrikeRows, Written, Lasting, StruckUser
<1>2. CASE \E d \in Disputes : g = <<"dispute", d>>
  <2>1. PICK d \in Disputes : g = <<"dispute", d>>
    BY <1>2
  <2>2. dispute[d].status # "none"
    BY <2>1 DEF IInv, RowsOK, UpheldOnly
  <2>3. Written(dispute[d].review) /\ dispute'[d].review = dispute[d].review
    BY <2>2 DEF IInv, RowsOK, DisputeRows, Lasting
  <2> QED BY <2>1, <2>3 DEF Written, Lasting, StruckUser
<1> QED BY <1>1, <1>2 DEF Ground

\* No strike is added, no suspension forgotten, and whoever is about to suspend waits.
LEMMA QuietSteps ==
  ASSUME IInv, Lasting, LimitSuspends, FeedbackAssumption,
         \A g \in Ground : strike'[g] = "active" => strike[g] = "active",
         \A u \in Users : suspension[u] # "none" => suspension'[u] # "none",
         \A w \in Handlers : req[w].at \in {"count", "suspend"} => req'[w] = req[w]
  PROVE  LimitSuspends'
<1> SUFFICES ASSUME NEW u \in Users, Cardinality(ActiveStrikes(u)') >= StrikeLimit
             PROVE  \/ suspension'[u] # "none"
                    \/ \E w \in Handlers : /\ req'[w].at \in {"count", "suspend"}
                                           /\ review'[req'[w].r].reviewer = u
  BY DEF LimitSuspends
<1>1. ActiveStrikes(u)' \subseteq ActiveStrikes(u)
  BY StruckUserStable DEF ActiveStrikes
<1>2. ActiveStrikes(u) \subseteq Ground
  BY DEF ActiveStrikes
<1>3. Cardinality(ActiveStrikes(u)') <= Cardinality(ActiveStrikes(u))
  BY <1>1, <1>2, GroundIsFinite, FS_Subset
<1>4. Cardinality(ActiveStrikes(u)) >= StrikeLimit
  <2>1. /\ Cardinality(ActiveStrikes(u)) \in Nat /\ Cardinality(ActiveStrikes(u)') \in Nat
        /\ StrikeLimit \in Nat
    BY <1>1, <1>2, GroundIsFinite DEF FeedbackAssumption
  <2> QED BY <1>3, <2>1
<1>5. CASE suspension[u] # "none"
  BY <1>5
<1>6. CASE \E w \in Handlers : /\ req[w].at \in {"count", "suspend"}
                               /\ review[req[w].r].reviewer = u
  <2>1. PICK w \in Handlers : /\ req[w].at \in {"count", "suspend"}
                              /\ review[req[w].r].reviewer = u
    BY <1>6
  <2>2. Written(req[w].r)
    BY <2>1 DEF IInv, RequestOK, Striking
  <2>3. review'[req[w].r].reviewer = u
    BY <2>1, <2>2 DEF Written, Lasting
  <2> QED BY <2>1, <2>3
<1> QED BY <1>4, <1>5, <1>6 DEF LimitSuspends

\* The INSERT of a strike leaves every other reviewer's strikes alone, and the handler
\* that made it about to count.
LEMMA IssueSuspends ==
  ASSUME IInv, Lasting, LimitSuspends, NEW w \in Handlers, IssueStrike(w)
  PROVE  LimitSuspends'
<1>1. PICK q \in Request : q = req[w] /\ RequestOK(q)
  BY Running
<1>2. /\ q.at = "strike" /\ Written(q.r) /\ q.op \in {"rate", "resolve"}
      /\ q.op = "resolve" => dispute[q.d].review = q.r /\ q.d \in Disputes
  BY <1>1 DEF IssueStrike, At, RequestOK, Striking
<1>3. PICK g \in Ground : g = GroundOf(q) /\ StruckUser(g) = review[q.r].reviewer
  <2>1. CASE q.op = "rate"
    <3>1. <<"rating", q.r>> \in Ground /\ StruckUser(<<"rating", q.r>>) = review[q.r].reviewer
      BY <1>2 DEF Ground, StruckUser, Written
    <3> QED BY <2>1, <3>1 DEF GroundOf
  <2>2. CASE q.op = "resolve"
    <3>1. <<"dispute", q.d>> \in Ground /\ StruckUser(<<"dispute", q.d>>) = review[q.r].reviewer
      BY <1>2, <2>2 DEF Ground, StruckUser
    <3> QED BY <2>2, <3>1 DEF GroundOf
  <2> QED BY <1>2, <2>1, <2>2
<1>4. /\ strike' = [strike EXCEPT ![g] = "active"]
      /\ UNCHANGED <<review, dispute, suspension>>
      /\ req' = [req EXCEPT ![w] = [q EXCEPT !.at = "count"]]
  BY <1>1, <1>3 DEF IssueStrike, Goto, Resume, exchangeVars
<1>5. strike \in [Ground -> {"none", "active", "expired", "inactive"}] /\ req \in [Handlers -> Request]
  BY DEF IInv, TypeOK
<1> SUFFICES ASSUME NEW u \in Users, Cardinality(ActiveStrikes(u)') >= StrikeLimit
             PROVE  \/ suspension'[u] # "none"
                    \/ \E v \in Handlers : /\ req'[v].at \in {"count", "suspend"}
                                           /\ review'[req'[v].r].reviewer = u
  BY DEF LimitSuspends
<1>6. CASE u = review[q.r].reviewer
  <2>1. req'[w].at = "count" /\ req'[w].r = q.r
    BY <1>4, <1>5, NextStepTyped DEF Step, Request
  <2> QED BY <1>4, <1>6, <2>1
<1>7. CASE u # review[q.r].reviewer
  <2>1. ActiveStrikes(u)' = ActiveStrikes(u)
    BY <1>3, <1>4, <1>5, <1>7 DEF ActiveStrikes, StruckUser
  <2>2. \A v \in Handlers : req[v].at \in {"count", "suspend"} => req'[v] = req[v]
    BY <1>1, <1>2, <1>4, <1>5
  <2> QED BY ZenonT(40), <1>4, <2>1, <2>2 DEF LimitSuspends
<1> QED BY <1>6, <1>7

\* Whoever counts enough strikes goes on to suspend, and suspends whom he counted for.
LEMMA CountSuspends ==
  ASSUME IInv, LimitSuspends, NEW w \in Handlers, CountStrikes(w) \/ SuspendReviewer(w)
  PROVE  LimitSuspends'
<1>1. PICK q \in Request : q = req[w] /\ RequestOK(q)
  BY Running
<1>2. UNCHANGED <<review, dispute, strike>>
  BY DEF CountStrikes, SuspendReviewer, tableVars, exchangeVars, standingVars
<1>3. \A u \in Users : ActiveStrikes(u)' = ActiveStrikes(u)
  BY <1>2 DEF ActiveStrikes, StruckUser
<1>4. \A v \in Handlers : v # w => req'[v] = req[v]
  BY DEF CountStrikes, SuspendReviewer, Goto, Resume, IInv, TypeOK
<1>5. \A u \in Users : suspension[u] # "none" => suspension'[u] # "none"
  BY DEF CountStrikes, SuspendReviewer, tableVars, standingVars, IInv, TypeOK
<1> SUFFICES ASSUME NEW u \in Users, Cardinality(ActiveStrikes(u)) >= StrikeLimit
             PROVE  \/ suspension'[u] # "none"
                    \/ \E v \in Handlers : /\ req'[v].at \in {"count", "suspend"}
                                           /\ review'[req'[v].r].reviewer = u
  BY <1>3 DEF LimitSuspends
<1>6. CASE u = review[q.r].reviewer
  <2>1. CASE CountStrikes(w)
    <3>1. req' = [req EXCEPT ![w] = [q EXCEPT !.at = "suspend"]]
      BY <1>1, <1>6, <2>1 DEF CountStrikes, Goto, Resume
    <3>2. req'[w].at = "suspend" /\ req'[w].r = q.r
      BY <3>1, NextStepTyped DEF Step, Request, IInv, TypeOK
    <3> QED BY <1>2, <1>6, <3>2
  <2>2. CASE SuspendReviewer(w)
    BY <1>1, <1>6, <2>2 DEF SuspendReviewer, IInv, TypeOK
  <2> QED BY <2>1, <2>2
<1>7. CASE u # review[q.r].reviewer
  <2>1. CASE suspension[u] # "none"
    BY <1>5, <2>1
  <2>2. CASE \E v \in Handlers : /\ req[v].at \in {"count", "suspend"}
                                 /\ review[req[v].r].reviewer = u
    BY <1>1, <1>2, <1>4, <1>7, <2>2
  <2> QED BY <2>1, <2>2 DEF LimitSuspends
<1> QED BY <1>6, <1>7

\* When no call fails and no process ends, whoever has as many active strikes as the
\* limit is or was suspended, or about to be, for any number of strikes at once.
THEOREM LimitAlwaysSuspends ==
  ASSUME Faults = {}, StrikeLimit # 0
  PROVE  Spec => []LimitSuspends
<1>1. Init => LimitSuspends
  <2>1. ASSUME Init, NEW u \in Users PROVE ActiveStrikes(u) = {}
    BY <2>1 DEF Init, ActiveStrikes
  <2> QED BY <2>1, FS_EmptySet, FeedbackAssumption DEF LimitSuspends, FeedbackAssumption
<1>2. IInv /\ LimitSuspends /\ [Next]_vars => LimitSuspends'
  <2> SUFFICES ASSUME IInv, LimitSuspends, [Next]_vars PROVE LimitSuspends'
    OBVIOUS
  <2>1. Lasting
    BY NextPreserves DEF Kept
  <2>2. strike \in [Ground -> {"none", "active", "expired", "inactive"}]
        /\ suspension \in [Users -> {"none", "active", "lifted"}] /\ req \in [Handlers -> Request]
    BY DEF IInv, TypeOK
  <2>3. CASE UNCHANGED vars
    BY <2>1, <2>3, QuietSteps, FeedbackAssumption DEF vars, tableVars, standingVars
  <2>4. ASSUME NEW w \in Handlers, UNCHANGED <<strike, suspension>>,
               req[w].at \notin {"count", "suspend"},
               \A v \in Handlers : v # w => req'[v] = req[v]
        PROVE  LimitSuspends'
    BY <2>1, <2>4, QuietSteps, FeedbackAssumption
  <2>5. ASSUME NEW w \in Handlers, Arrival(w) PROVE LimitSuspends'
    <3>1. /\ UNCHANGED <<strike, suspension>> /\ req[w] = Idle
          /\ \A v \in Handlers : v # w => req'[v] = req[v]
      BY <2>2, <2>5 DEF Arrival, Begin, tableVars, standingVars, GrantSignup, CreateListing,
         ClaimListing, CancelListing, SubmitReview, RateReview, CreateDispute, ResolveDispute
    <3> QED BY <2>4, <3>1 DEF Idle
  <2>6. ASSUME NEW w \in Handlers, Proceed(w) PROVE LimitSuspends'
    <3>1. CASE CountStrikes(w) \/ SuspendReviewer(w)
      BY <3>1, CountSuspends
    <3>2. CASE IssueStrike(w)
      BY <2>1, <3>2, IssueSuspends
    <3>3. CASE \/ CreateTransaction(w, "grant", <<"signup", req[w].u>>)
               \/ CreateTransaction(w, "fee", <<"fee", req[w].l>>)
               \/ CreateTransaction(w, "giveback", <<"cancel", req[w].l>>)
               \/ CreateTransaction(w, "reward", <<"reward", req[w].r>>)
               \/ CreateTransaction(w, "repay", <<"refund", req[w].d>>)
      <4>1. /\ UNCHANGED <<strike, suspension>> /\ req[w].at \notin {"count", "suspend"}
            /\ \A v \in Handlers : v # w => req'[v] = req[v]
        BY <2>2, <3>3 DEF CreateTransaction, At, Resume, standingVars
      <4> QED BY <2>4, <4>1
    <3>4. CASE (\E l \in Listings : InsertListing(w, l)) \/ CheckSuspension(w) \/ Claim(w)
               \/ Cancel(w) \/ Submit(w) \/ InsertRating(w)
      <4>1. /\ UNCHANGED <<strike, suspension>> /\ req[w].at \notin {"count", "suspend"}
            /\ \A v \in Handlers : v # w => req'[v] = req[v]
        BY <2>2, <3>4 DEF InsertListing, CheckSuspension, Claim, StartReview, Cancel, Submit,
           InsertRating, At, Goto, Resume, tableVars, standingVars
      <4> QED BY <2>4, <4>1
    <3>5. CASE CheckDispute(w) \/ InsertDispute(w) \/ Resolve(w) \/ LookupReview(w)
      <4>1. /\ UNCHANGED <<strike, suspension>> /\ req[w].at \notin {"count", "suspend"}
            /\ \A v \in Handlers : v # w => req'[v] = req[v]
        BY <2>2, <3>5 DEF CheckDispute, InsertDispute, Resolve, LookupReview,
           At, Goto, Resume, tableVars, standingVars
      <4> QED BY <2>4, <4>1
    <3> QED BY <2>6, <3>1, <3>2, <3>3, <3>4, <3>5 DEF Proceed
  <2>7. CASE Maintenance \/ TimePasses
    <3>1. /\ \A g \in Ground : strike'[g] = "active" => strike[g] = "active"
          /\ \A u \in Users : suspension[u] # "none" => suspension'[u] # "none"
          /\ UNCHANGED req
      BY <2>2, <2>7 DEF Maintenance, ExpireListings, ExpireReviews, DecayStrikes, TimePasses,
         standingVars
    <3> QED BY <2>1, <3>1, QuietSteps, FeedbackAssumption
  <2>8. ~Crash /\ \A w \in Handlers : ~Throw(w)
    BY DEF Crash, Throw
  <2> QED BY <2>3, <2>5, <2>6, <2>7, <2>8 DEF Next
<1> QED BY <1>1, <1>2, Invariance, PTL DEF Spec

=============================================================================
