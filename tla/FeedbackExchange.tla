--------------------------- MODULE FeedbackExchange ---------------------------
(***************************************************************************)
(* feedback-exchange-service: writers spend a token to list a script, earn *)
(* one by reviewing somebody else's, and dispute a review; bad reviewers   *)
(* collect strikes and are suspended.                                      *)
(*                                                                         *)
(* As in CoverageOrders a request is a worker, one action is one statement *)
(* or transaction of the repository, and req[w] is what the handler still  *)
(* holds from earlier statements.  Rows have unique ids that are never     *)
(* used again; a deleted row keeps its data here, for the ledger entries   *)
(* that name it, and no statement finds it.                                *)
(***************************************************************************)
EXTENDS Integers, FiniteSets

CONSTANTS
  Users, None,
  Handlers,      \* concurrent HTTP requests
  MaxListings,   \* bound: rows of feedback_listings
  MaxReviews,    \* bound: rows of feedback_reviews
  MaxDisputes,   \* bound: rows of feedback_disputes
  SignupGrant,   \* 3 in the code
  StrikeLimit,   \* 3 in the code
  Faults         \* which of "database" and "crash" may happen

Listings == 1 .. MaxListings
Reviews  == 1 .. MaxReviews
Disputes == 1 .. MaxDisputes

ASSUME FeedbackAssumption ==
  /\ None \notin Users
  /\ MaxListings \in Nat /\ MaxReviews \in Nat /\ MaxDisputes \in Nat
  /\ SignupGrant \in Nat /\ StrikeLimit \in Nat
  /\ Faults \subseteq {"database", "crash"}

VARIABLES
  listing,     \* [Listings -> row of feedback_listings]
  review,      \* [Reviews -> row of feedback_reviews]
  rated,       \* reviews with a row in reviewer_ratings
  dispute,     \* [Disputes -> row of feedback_disputes]
  ledger,      \* the idempotency keys in token_ledger, where they are UNIQUE
  strike,      \* [Ground -> StrikeState]: rows of reviewer_strikes by their reason
  suspension,  \* [Users -> "none", "active" or "lifted"]: reviewer_suspensions
  req          \* [Handlers -> Request]

exchangeVars == <<listing, review, rated, dispute>>
standingVars == <<strike, suspension>>
tableVars == <<exchangeVars, ledger, standingVars>>
vars == <<tableVars, req>>

\* A key names the whole transaction: signup_grant_<user>, listing_fee_..._<listing>,
\* cancel_refund_<listing>, review_reward_<review>, dispute_refund_<dispute>.
Key == ({"signup"} \X Users) \cup ({"fee", "cancel"} \X Listings)
         \cup ({"reward"} \X Reviews) \cup ({"refund"} \X Disputes)

\* What a strike is for: a low rating of a review, or a dispute lost.
Ground == ({"rating"} \X Reviews) \cup ({"dispute"} \X Disputes)

Ruling == {"for_filer", "for_reviewer", "dismissed"}
Op     == {"none", "signup", "list", "claim", "cancel", "submit", "rate", "dispute",
           "resolve"}
Step   == {"idle", "grant", "list", "fee", "vet", "claim", "cancel", "giveback", "submit",
           "reward", "rate", "check", "file", "resolve", "review", "strike", "count",
           "suspend", "repay"}

\* The local variables of a running handler: its user u, the listing l, review r and
\* dispute d it works on, and the ruling (or whether the rating is low) it was sent.
Request == [op : Op, at : Step, u : Users \cup {None}, l : Nat, r : Nat, d : Nat,
            to : {"none", "low", "fine"} \cup Ruling]

Idle == [op |-> "none", at |-> "idle", u |-> None, l |-> 0, r |-> 0, d |-> 0,
         to |-> "none"]

NoListing == [owner |-> None, status |-> "none", claimer |-> None]
NoReview  == [listing |-> 0, reviewer |-> None, status |-> "none"]
NoDispute == [review |-> 0, filer |-> None, status |-> "none"]

Init ==
  /\ listing = [l \in Listings |-> NoListing]
  /\ review = [r \in Reviews |-> NoReview]
  /\ rated = {}
  /\ dispute = [d \in Disputes |-> NoDispute]
  /\ ledger = {}
  /\ strike = [g \in Ground |-> "none"]
  /\ suspension = [u \in Users |-> "none"]
  /\ req = [w \in Handlers |-> Idle]

-----------------------------------------------------------------------------
Begin(w, r)   == req[w] = Idle /\ req' = [req EXCEPT ![w] = r]
Resume(w, r)  == req' = [req EXCEPT ![w] = r]
Goto(w, step) == Resume(w, [req[w] EXCEPT !.at = step])
At(w, step)   == req[w].at = step

NextListing(l) == listing[l] = NoListing /\ \A k \in Listings : k < l => listing[k] # NoListing
NextReview(r)  == review[r] = NoReview /\ \A k \in Reviews : k < r => review[k] # NoReview
NextDispute(d) == dispute[d] = NoDispute /\ \A k \in Disputes : k < d => dispute[k] # NoDispute

ReviewExists(r)  == review[r].status \in {"in_progress", "submitted"}
DisputeExists(d) == dispute[d].status \in {"open"} \cup Ruling
OwnerOf(r)       == listing[review[r].listing].owner

\* A database call fails: no handler catches it, the request ends with a 500.
Throw(w) ==
  /\ "database" \in Faults
  /\ ~At(w, "idle")
  /\ Resume(w, Idle)
  /\ UNCHANGED tableVars

Crash ==
  /\ "crash" \in Faults
  /\ req # [w \in Handlers |-> Idle]
  /\ req' = [w \in Handlers |-> Idle]
  /\ UNCHANGED tableVars

-----------------------------------------------------------------------------
(* Tokens.                                                                  *)

\* Whom a transaction credits; a fee debits the owner of the listing.
Credited(key) ==
  CASE key[1] = "signup" -> key[2]
    [] key[1] = "cancel" -> listing[key[2]].owner
    [] key[1] = "reward" -> review[key[2]].reviewer
    [] key[1] = "refund" -> OwnerOf(dispute[key[2]].review)
    [] key[1] = "fee"    -> None

Earned(u) == Cardinality({key \in ledger : key[1] # "signup" /\ Credited(key) = u})
Spent(u)  == Cardinality({key \in ledger : key[1] = "fee" /\ listing[key[2]].owner = u})

\* getBalance: the sum of the credits minus the sum of the debits.
Balance(u) ==
  Earned(u) + (IF <<"signup", u>> \in ledger THEN SignupGrant ELSE 0) - Spent(u)

\* createTransaction is the last statement of its handler.  A key that is there
\* already violates the constraint: nothing is stored and the handler throws.
CreateTransaction(w, step, key) ==
  /\ At(w, step)
  /\ ledger' = ledger \cup {key}
  /\ Resume(w, Idle)
  /\ UNCHANGED <<exchangeVars, standingVars>>

GrantSignup(w, u) ==
  /\ <<"signup", u>> \notin ledger
  /\ Begin(w, [Idle EXCEPT !.op = "signup", !.at = "grant", !.u = u])
  /\ UNCHANGED tableVars

-----------------------------------------------------------------------------
(* Listings.                                                                *)

CreateListing(w, u) ==
  /\ Balance(u) >= 1
  /\ Begin(w, [Idle EXCEPT !.op = "list", !.at = "list", !.u = u])
  /\ UNCHANGED tableVars

\* Mutant: the listing appears and its fee is forgotten.
InsertForFree(w, l) ==
  /\ At(w, "list")
  /\ NextListing(l)
  /\ listing' = [listing EXCEPT ![l] =
                   [owner |-> req[w].u, status |-> "open", claimer |-> None]]
  /\ Resume(w, Idle)
  /\ UNCHANGED <<review, rated, dispute, ledger, standingVars>>

InsertListing(w, l) ==
  /\ At(w, "list")
  /\ NextListing(l)
  /\ listing' = [listing EXCEPT ![l] =
                   [owner |-> req[w].u, status |-> "open", claimer |-> None]]
  /\ Resume(w, [req[w] EXCEPT !.at = "fee", !.l = l])
  /\ UNCHANGED <<review, rated, dispute, ledger, standingVars>>

ClaimListing(w, u, l) ==
  /\ listing[l].status = "open" /\ listing[l].owner # u
  /\ Begin(w, [Idle EXCEPT !.op = "claim", !.at = "vet", !.u = u, !.l = l])
  /\ UNCHANGED tableVars

CheckSuspension(w) ==
  /\ At(w, "vet")
  /\ IF suspension[req[w].u] = "active" THEN Resume(w, Idle) ELSE Goto(w, "claim")
  /\ UNCHANGED tableVars

StartReview(w, r) ==
  LET l == req[w].l IN
  /\ NextReview(r)
  /\ listing' = [listing EXCEPT ![l].status = "claimed", ![l].claimer = req[w].u]
  /\ review' = [review EXCEPT ![r] =
                  [listing |-> l, reviewer |-> req[w].u, status |-> "in_progress"]]
  /\ Resume(w, Idle)
  /\ UNCHANGED <<rated, dispute, ledger, standingVars>>

\* UPDATE ... WHERE status = 'open' and INSERT of the review, in one transaction.
Claim(w) ==
  /\ At(w, "claim")
  /\ \/ listing[req[w].l].status = "open" /\ \E r \in Reviews : StartReview(w, r)
     \/ listing[req[w].l].status # "open" /\ Resume(w, Idle) /\ UNCHANGED tableVars

CancelListing(w, l) ==
  /\ listing[l].status = "open"
  /\ Begin(w, [Idle EXCEPT !.op = "cancel", !.at = "cancel", !.u = listing[l].owner,
                           !.l = l])
  /\ UNCHANGED tableVars

\* Mutants: the UPDATE does not ask for an open listing; the refund forgets which.
CancelBlindly(w) ==
  /\ At(w, "cancel")
  /\ listing' = [listing EXCEPT ![req[w].l].status = "cancelled"]
  /\ Goto(w, "giveback")
  /\ UNCHANGED <<review, rated, dispute, ledger, standingVars>>

CancelNoId(w) ==
  /\ At(w, "cancel")
  /\ listing[req[w].l].status = "open"
  /\ listing' = [listing EXCEPT ![req[w].l].status = "cancelled"]
  /\ Resume(w, [req[w] EXCEPT !.at = "giveback", !.l = 0])
  /\ UNCHANGED <<review, rated, dispute, ledger, standingVars>>

\* UPDATE ... WHERE status = 'open'.
Cancel(w) ==
  /\ At(w, "cancel")
  /\ IF listing[req[w].l].status = "open"
     THEN /\ listing' = [listing EXCEPT ![req[w].l].status = "cancelled"]
          /\ Goto(w, "giveback")
     ELSE Resume(w, Idle) /\ UNCHANGED listing
  /\ UNCHANGED <<review, rated, dispute, ledger, standingVars>>

-----------------------------------------------------------------------------
(* Reviews and ratings.                                                     *)

SubmitReview(w, r) ==
  /\ ReviewExists(r)
  /\ Begin(w, [Idle EXCEPT !.op = "submit", !.at = "submit", !.u = review[r].reviewer,
                           !.r = r])
  /\ UNCHANGED tableVars

\* Mutant: the reward does not depend on the UPDATE having found its row.
SubmitUnchecked(w) ==
  LET r == req[w].r IN
  /\ At(w, "submit")
  /\ review' = IF review[r].status = "in_progress"
               THEN [review EXCEPT ![r].status = "submitted"] ELSE review
  /\ Goto(w, "reward")
  /\ UNCHANGED <<listing, rated, dispute, ledger, standingVars>>

\* UPDATE ... WHERE status = 'in_progress'.  The listing is read once more and
\* left "claimed".
Submit(w) ==
  LET r == req[w].r IN
  /\ At(w, "submit")
  /\ IF review[r].status = "in_progress"
     THEN review' = [review EXCEPT ![r].status = "submitted"] /\ Goto(w, "reward")
     ELSE review' = review /\ Resume(w, Idle)
  /\ UNCHANGED <<listing, rated, dispute, ledger, standingVars>>

RateReview(w, r, score) ==
  /\ review[r].status = "submitted"
  /\ Begin(w, [Idle EXCEPT !.op = "rate", !.at = "rate", !.u = OwnerOf(r), !.r = r,
                           !.to = score])
  /\ UNCHANGED tableVars

\* review_id is UNIQUE: a second rating is refused.
InsertRating(w) ==
  /\ At(w, "rate")
  /\ rated' = rated \cup {req[w].r}
  /\ IF req[w].r \notin rated /\ req[w].to = "low" THEN Goto(w, "strike")
                                                    ELSE Resume(w, Idle)
  /\ UNCHANGED <<listing, review, dispute, ledger, standingVars>>

-----------------------------------------------------------------------------
(* Strikes and suspensions.                                                 *)

GroundOf(q) == IF q.op = "rate" THEN <<"rating", q.r>> ELSE <<"dispute", q.d>>

StruckUser(g) ==
  IF g[1] = "rating" THEN review[g[2]].reviewer ELSE review[dispute[g[2]].review].reviewer

ActiveStrikes(u) == {g \in Ground : strike[g] = "active" /\ StruckUser(g) = u}

AfterStrike(q) == IF q.op = "resolve" THEN [q EXCEPT !.at = "repay"] ELSE Idle

IssueStrike(w) ==
  /\ At(w, "strike")
  /\ strike' = [strike EXCEPT ![GroundOf(req[w])] = "active"]
  /\ Goto(w, "count")
  /\ UNCHANGED <<exchangeVars, ledger, suspension>>

\* Mutant: the limit itself is not enough.
CountAboveLimit(w) ==
  /\ At(w, "count")
  /\ IF Cardinality(ActiveStrikes(review[req[w].r].reviewer)) > StrikeLimit
     THEN Goto(w, "suspend") ELSE Resume(w, AfterStrike(req[w]))
  /\ UNCHANGED tableVars

CountStrikes(w) ==
  /\ At(w, "count")
  /\ IF Cardinality(ActiveStrikes(review[req[w].r].reviewer)) >= StrikeLimit
     THEN Goto(w, "suspend") ELSE Resume(w, AfterStrike(req[w]))
  /\ UNCHANGED tableVars

SuspendReviewer(w) ==
  /\ At(w, "suspend")
  /\ suspension' = [suspension EXCEPT ![review[req[w].r].reviewer] = "active"]
  /\ Resume(w, AfterStrike(req[w]))
  /\ UNCHANGED <<exchangeVars, ledger, strike>>

-----------------------------------------------------------------------------
(* Disputes.                                                                *)

CreateDispute(w, r, u) ==
  /\ ReviewExists(r) /\ u \in {OwnerOf(r), review[r].reviewer}
  /\ Begin(w, [Idle EXCEPT !.op = "dispute", !.at = "check", !.u = u, !.r = r])
  /\ UNCHANGED tableVars

CheckDispute(w) ==
  LET filed == {d \in Disputes : /\ DisputeExists(d)
                                 /\ dispute[d].review = req[w].r
                                 /\ dispute[d].filer = req[w].u}
  IN /\ At(w, "check")
     /\ IF filed # {} THEN Resume(w, Idle) ELSE Goto(w, "file")
     /\ UNCHANGED tableVars

\* The foreign key refuses a dispute of a review that is gone.
InsertDispute(w) ==
  LET r == req[w].r IN
  /\ At(w, "file")
  /\ \/ ~ReviewExists(r) /\ UNCHANGED dispute
     \/ /\ ReviewExists(r)
        /\ \E d \in Disputes :
             /\ NextDispute(d)
             /\ dispute' = [dispute EXCEPT ![d] =
                              [review |-> r, filer |-> req[w].u, status |-> "open"]]
  /\ Resume(w, Idle)
  /\ UNCHANGED <<listing, review, rated, ledger, standingVars>>

ResolveDispute(w, d, ruling) ==
  /\ DisputeExists(d)
  /\ Begin(w, [Idle EXCEPT !.op = "resolve", !.at = "resolve", !.r = dispute[d].review,
                           !.d = d, !.to = ruling])
  /\ UNCHANGED tableVars

\* Mutant: a dispute can be resolved again.
ResolveAgain(w) ==
  LET q == req[w] IN
  /\ At(w, "resolve")
  /\ dispute' = [dispute EXCEPT ![q.d].status = q.to]
  /\ IF q.to = "for_filer" THEN Goto(w, "review") ELSE Resume(w, Idle)
  /\ UNCHANGED <<listing, review, rated, ledger, standingVars>>

\* UPDATE ... WHERE status IN ('open', 'under_review').
Resolve(w) ==
  LET q == req[w] IN
  /\ At(w, "resolve")
  /\ IF dispute[q.d].status = "open"
     THEN /\ dispute' = [dispute EXCEPT ![q.d].status = q.to]
          /\ IF q.to = "for_filer" THEN Goto(w, "review") ELSE Resume(w, Idle)
     ELSE Resume(w, Idle) /\ UNCHANGED dispute
  /\ UNCHANGED <<listing, review, rated, ledger, standingVars>>

LookupReview(w) ==
  /\ At(w, "review")
  /\ IF ReviewExists(req[w].r) THEN Goto(w, "strike") ELSE Resume(w, Idle)
  /\ UNCHANGED tableVars

-----------------------------------------------------------------------------
(* Maintenance.  expires_at and review_deadline may have passed for any of  *)
(* the rows a statement looks at.                                           *)

ExpireListings ==
  \E late \in SUBSET {l \in Listings : listing[l].status = "open"} :
    /\ late # {}
    /\ listing' = [l \in Listings |->
                     IF l \in late THEN [listing[l] EXCEPT !.status = "expired"]
                                   ELSE listing[l]]
    /\ UNCHANGED <<review, rated, dispute, ledger, standingVars, req>>

Reopened(late) ==
  [l \in Listings |-> IF l \in late THEN [listing[l] EXCEPT !.status = "open", !.claimer = None]
                                    ELSE listing[l]]

\* Mutant: the reviews are not deleted.
ReopenOnly ==
  \E late \in SUBSET {l \in Listings : listing[l].status = "claimed"} :
    /\ late # {}
    /\ listing' = Reopened(late)
    /\ UNCHANGED <<review, rated, dispute, ledger, standingVars, req>>

\* One transaction: the unfinished reviews of the overdue listings are deleted,
\* their disputes with them (ON DELETE CASCADE), and ALL overdue listings reopened.
ExpireReviews ==
  \E late \in SUBSET {l \in Listings : listing[l].status = "claimed"} :
    LET gone == {r \in Reviews : review[r].status = "in_progress" /\ review[r].listing \in late}
    IN /\ late # {}
       /\ review' = [r \in Reviews |-> IF r \in gone THEN [review[r] EXCEPT !.status = "deleted"]
                                                     ELSE review[r]]
       /\ dispute' = [d \in Disputes |->
                        IF dispute[d].review \in gone
                        THEN [dispute[d] EXCEPT !.status = "deleted"] ELSE dispute[d]]
       /\ listing' = Reopened(late)
       /\ UNCHANGED <<rated, ledger, standingVars, req>>

\* getActiveStrikeCount ignores expired strikes before this marks them inactive.
DecayStrikes ==
  /\ \E g \in Ground : strike[g] = "expired"
  /\ strike' = [g \in Ground |-> IF strike[g] = "expired" THEN "inactive" ELSE strike[g]]
  /\ UNCHANGED <<exchangeVars, ledger, suspension, req>>

\* A strike expires after 90 days, a suspension after 30.
TimePasses ==
  \/ \E g \in Ground : /\ strike[g] = "active"
                       /\ strike' = [strike EXCEPT ![g] = "expired"]
                       /\ UNCHANGED <<exchangeVars, ledger, suspension, req>>
  \/ \E u \in Users : /\ suspension[u] = "active"
                      /\ suspension' = [suspension EXCEPT ![u] = "lifted"]
                      /\ UNCHANGED <<exchangeVars, ledger, strike, req>>

-----------------------------------------------------------------------------
Arrival(w) ==
  \/ \E u \in Users : GrantSignup(w, u) \/ CreateListing(w, u)
  \/ \E u \in Users, l \in Listings : ClaimListing(w, u, l)
  \/ \E l \in Listings : CancelListing(w, l)
  \/ \E r \in Reviews : SubmitReview(w, r) \/ RateReview(w, r, "low") \/ RateReview(w, r, "fine")
  \/ \E r \in Reviews, u \in Users : CreateDispute(w, r, u)
  \/ \E d \in Disputes, ruling \in Ruling : ResolveDispute(w, d, ruling)

Proceed(w) ==
  \/ CreateTransaction(w, "grant", <<"signup", req[w].u>>)
  \/ \E l \in Listings : InsertListing(w, l)
  \/ CreateTransaction(w, "fee", <<"fee", req[w].l>>)
  \/ CheckSuspension(w) \/ Claim(w) \/ Cancel(w)
  \/ CreateTransaction(w, "giveback", <<"cancel", req[w].l>>)
  \/ Submit(w)
  \/ CreateTransaction(w, "reward", <<"reward", req[w].r>>)
  \/ InsertRating(w) \/ IssueStrike(w) \/ CountStrikes(w) \/ SuspendReviewer(w)
  \/ CheckDispute(w) \/ InsertDispute(w) \/ Resolve(w) \/ LookupReview(w)
  \/ CreateTransaction(w, "repay", <<"refund", req[w].d>>)

Maintenance == ExpireListings \/ ExpireReviews \/ DecayStrikes

Next ==
  \/ \E w \in Handlers : Arrival(w) \/ Proceed(w) \/ Throw(w)
  \/ Crash \/ Maintenance \/ TimePasses

Spec == Init /\ [][Next]_vars

\* Node's event loop runs every pending continuation; nobody has to send a request.
FairSpec == Spec /\ \A w \in Handlers : WF_vars(Proceed(w))

-----------------------------------------------------------------------------
(* Properties.                                                              *)

TypeOK ==
  /\ listing \in [Listings -> [owner : Users \cup {None}, claimer : Users \cup {None},
                    status : {"none", "open", "claimed", "expired", "cancelled"}]]
  /\ review \in [Reviews -> [listing : Listings \cup {0}, reviewer : Users \cup {None},
                   status : {"none", "in_progress", "submitted", "deleted"}]]
  /\ rated \subseteq Reviews
  /\ dispute \in [Disputes -> [review : Reviews \cup {0}, filer : Users \cup {None},
                    status : {"none", "open", "deleted"} \cup Ruling]]
  /\ ledger \subseteq Key
  /\ strike \in [Ground -> {"none", "active", "expired", "inactive"}]
  /\ suspension \in [Users -> {"none", "active", "lifted"}]
  /\ req \in [Handlers -> Request]

\* A token is only ever earned by a submitted review of somebody else's listing:
\* the reward of a review that expired while it was being submitted is not paid,
\* and no review is rewarded that could still be deleted.
RewardIsEarned ==
  \A r \in Reviews : <<"reward", r>> \in ledger =>
    review[r].status = "submitted" /\ review[r].reviewer # OwnerOf(r)

\* Of the reviews of a listing at most one is in progress, and then the listing is
\* claimed by its reviewer: claims race with each other, with cancelling and with
\* the two expiry jobs.
InProgress(l) == {r \in Reviews : review[r].listing = l /\ review[r].status = "in_progress"}
ReviewIsClaimed ==
  \A l \in Listings :
    /\ \A r, s \in InProgress(l) : r = s
    /\ \A r \in InProgress(l) :
         listing[l].status = "claimed" /\ listing[l].claimer = review[r].reviewer

\* The fee comes back only for a listing that is cancelled for good, which nobody
\* is still reviewing, and after which no other review of it can be started.
CancelledIsOver ==
  \A l \in Listings : <<"cancel", l>> \in ledger =>
    listing[l].status = "cancelled" /\ InProgress(l) = {}

\* A refund or a strike is only ever given for a dispute that was decided for its
\* filer, or deleted since together with its review.
UpheldOnly ==
  \A d \in Disputes :
    <<"refund", d>> \in ledger \/ strike[<<"dispute", d>>] # "none" =>
      dispute[d].status \in {"for_filer", "deleted"}

\* However the strikes of a reviewer coincide, a reviewer who has reached the limit
\* is or was suspended, or a handler is about to do it (no call failing).
LimitSuspends ==
  \A u \in Users : Cardinality(ActiveStrikes(u)) >= StrikeLimit =>
    \/ suspension[u] # "none"
    \/ \E w \in Handlers : req[w].at \in {"count", "suspend"} /\ review[req[w].r].reviewer = u

\* The moves the tables call for and the ledger does not hold.
Unbooked ==
  ({<<"fee", l>> : l \in {m \in Listings : listing[m].status # "none"}}
    \cup {<<"reward", r>> : r \in {s \in Reviews : review[s].status = "submitted"}}
    \cup {<<"cancel", l>> : l \in {m \in Listings : listing[m].status = "cancelled"}})
    \ ledger

\* A listing is eventually paid for, a submitted review rewarded and a cancelled
\* listing refunded: when no call fails, the ledger always catches up.
EveryMoveIsBooked == Unbooked # {} ~> Unbooked = {}

=============================================================================
