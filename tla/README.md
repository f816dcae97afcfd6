# Verification of Script Manifest

TLA+ models of Script Manifest's services, the TLC runs that check them, and proofs about them
that TLAPS checks. The models are translated from the TypeScript under `services/` and
`packages/db`; the design documents are quoted only where they say something the code does not do.

- [1. The system](#1-the-system): its components, their state, what is hard about them
- [2. How the code is modelled](#2-how-the-code-is-modelled): conventions shared by all modules
- [3. The modules](#3-the-modules): how each corresponds to the code
- [4. The runs](#4-the-runs): what is checked, with which bounds and which fairness
- [5. What is proved](#5-what-is-proved)
- [6. Where the code and its documentation disagree](#6-where-the-code-and-its-documentation-disagree)
- [7. What is not modelled](#7-what-is-not-modelled)
- [8. Plan](#8-plan)

To check everything: `tlc -config <run>.cfg <module>` for each run of section 4, and `tlapm` on the
eight `…Proofs.tla` modules.

## 1. The system

Script Manifest hosts writers' scripts, tracks their competition submissions, ranks them, trades
feedback between them, sells script coverage, and gives industry accounts access. It is a TypeScript
monorepo of Fastify services behind a stateless `api-gateway`. All services share one PostgreSQL
database but each writes its own tables; they read each other's data over HTTP and publish
notification events to `notification-service` (over HTTP or Kafka). Every service is one Node.js
process (or several identical ones), so inside a process nothing is preempted between two `await`s,
and at each `await` any other request may run. Almost no handler uses a transaction for what it does:
it reads a row, checks it, and writes some awaits later. That is the main source of hazards here, with
the payment platform's retries and out-of-order webhooks second.

| Component | State | Operations that change it | What is hard | Correct when |
|---|---|---|---|---|
| coverage-marketplace: orders | `coverage_orders`, `coverage_deliveries`, `coverage_disputes`, `coverage_dispute_events`, `payment_retry_queue`, `stripe_webhook_log` | place, claim, deliver, complete, cancel, dispute, rule, retry a payment; SLA and auto-complete sweep (timer); payout retry poll (30 s timer); Stripe webhooks | stale status in every handler; failures between capture, transfer and status; retries with another key; repeated, late and reordered webhooks; two admins at once | a provider is paid only out of a captured payment and for an earned order; an authorised payment moves its order on; the trail of a dispute is true (that the provider is paid *once*, and that every queued payout ends, is documented and does not hold: section 6) |
| coverage-marketplace: gateway | Stripe's intents, captures, transfers, refunds and their idempotency keys | create, capture, transfer, refund; authorise, decline, cancel, charge back | a call that was executed and not answered | a key stands for one effect |
| coverage-marketplace: providers, services, reviews | `coverage_providers`, `coverage_services`, `coverage_reviews` | onboarding, review, rating aggregate | the aggregate is recomputed by concurrent reviews | the stored rating is the average of the stored reviews |
| feedback-exchange | `token_ledger`, `feedback_listings`, `feedback_reviews`, `reviewer_ratings`, `reviewer_strikes`, `reviewer_suspensions`, `feedback_disputes` | grant, list, claim, cancel, submit, rate, dispute, resolve; expiry of listings, of overdue reviews, of strikes | balance read before it is spent; several dependent statements per request; expiry against submit, cancel and dispute | tokens are earned; one reviewer at work per listing; strikes reach suspension |
| profile-project | `projects`, `project_drafts`, `co_writers`, `script_access_requests` | create, update, archive, promote a draft; decide access requests | READ COMMITTED transactions that act on what they read before; lock order | at most one primary draft, which is handed on; a request that has got a client is answered |
| programs | applications, cohorts, sessions, availability windows, `program_crm_sync_jobs`, `program_notification_log` | apply, review; create a cohort or session with members; CRM queue (claim, complete, fail); reminders | `BEGIN` and `COMMIT` are sent to the pool, not to a connection; an event is sent before it is recorded as sent | nothing is recorded as sent that was not; what is due is done (that an answered decision stays is what the code says and does not hold: section 6; nor are creations all or nothing) |
| partner-dashboard | `partner_submissions`, judge assignments, evaluations, normalization runs, published results, draft swaps, `partner_sync_jobs` | intake, assign, evaluate, normalise, publish, swap; job queue | transactions that lock the same rows in different orders; evaluation after publication; a failure reported for a success that could not be stored | publication is all or nothing; no script without a recorded swap; one runner and one verdict per job |
| ranking | `placement_scores`, `writer_badges`, `writer_scores`, `anti_gaming_flags`, `competition_prestige` | recompute, award, resolve a flag, change prestige | input fetched in several HTTP calls, whose errors pass for empty lists; two recomputations at once; tables written by separate statements | an undisturbed recomputation leaves tables that agree; badges are earned; scores change as a whole |
| submission-tracking | submissions, placements | submit, place, verify | placement and status in two statements | the status is that of a placement |
| notification | `notification_events`; the topic's offsets | publish, consume, store, mark read | repeated delivery against a UNIQUE column; a failing insert or start; rebalancing | nothing is skipped, order is kept, what is sent is stored unless one of three named things happens |
| competition-directory | competitions | upsert, cancel | none beyond single rows | – |
| identity | users, sessions, refresh tokens, failed logins | register, log in and out, refresh, lock out | rotation of a token family against its revocation | one live token per family |
| industry-portal | accounts, entitlements, lists, teams, mandates, digests, talent index | mostly single statements | index rebuild against writes | – |
| script-storage | scripts, viewers (and files in an object store) | register, approve a viewer, set visibility | a second service takes the same decision separately | – |
| packages/db | the connection pool | `query`, `connect` | transactions across pooled connections | – |
| api-gateway, writer-web, contracts, email, service-utils (but its publisher), infra | none of their own | – | – | – |

**How they interact.** ranking fetches submissions and placements from submission-tracking over HTTP
(`Ranking` extends `SubmissionTracking`); partner-dashboard asks ranking to recompute after a publication,
by best effort; programs and most other services publish events, which notification-service stores
(`Notifications`); programs and profile-project share the pool of `packages/db` (`PooledDatabase`); the
marketplace and Stripe call each other (`CoverageOrders` extends `PaymentGateway`).

`PROJECT.json` lists the components with their sources and status, and under `hazards` the lines where
each hazard bites.

## 2. How the code is modelled

**A running async function is a worker.** `req[w]` holds what the function still has in local
variables: which function it is (`op`), the await it stands at (`at`), and the order, intent, dispute,
review and so on *as it read them*. The tables are the other variables. A request arrives with the
first read and its guard (`Begin`), continues with one action per call to the database or to the
payment platform (`Proceed`), and may stop at any await because the call throws (`Throw`, which jumps
to what the caller's `catch` does) or because the process ends (`Crash`). Nothing a function holds is
refreshed unless the code reads it again, so every stale decision of the code is a behaviour of the
model.

**A repository method is one action when it is one statement** (or statements whose interleavings are
equivalent to one), and several when it is several: `createDispute`'s `SELECT` and `INSERT` are two actions.
Constraints that PostgreSQL enforces (UNIQUE, CHECK, foreign keys, ON DELETE CASCADE) are part of the
action that runs into them. A statement's `WHERE` is evaluated when it runs, not when the function
read the row.

**Scheduled loops** over the rows of one `SELECT` are one worker per row: that allows every
interleaving the loop allows, and in addition iterations that overlap, which a second instance
of the service, or a second tick of the timer, has as well.

**Time** is not measured. A deadline, a back-off delay or an expiry may have passed whenever the code
asks. Amounts of money, names, texts, e-mail and notifications are left out: an amount never decides
what happens to an order here. A provider is the order's.

**Which code.** The stores are the PostgreSQL repositories that are shipped; the in-memory repository of the
marketplace's tests, which reschedules a payout where PostgreSQL rejects the statement, is not modelled.

**Mutants** of an action stand next to it in the module, with a comment: they are not part of any
specification, and each shows that a property of a run notices the bug it describes.

## 3. The modules

### PaymentGateway

Stripe, as the `PaymentGateway` interface shows it: `intent`, `captures`, `refunds`, `transfers`, `sent`.
The first group of operators are the calls in `stripePaymentGateway.ts`; the platform keeps one result
per idempotency key, so the state of a capture or refund is a function of the order, and `transfers` is
the set of keys `<<order, n>>` that were executed (`idem_transfer_<o>` is `n = 0`,
`idem_transfer_retry_<o>_<k>` is `n = k + 1`). The second group is what cardholders, banks and the
platform do on their own, and is external. `sent` only grows: an event in it may be delivered at any
time and any number of times.

### CoverageOrders

Extends PaymentGateway with the tables of the marketplace.

| Code | Actions |
|---|---|
| `POST /internal/orders` | `PlaceOrder`, `CreateIntent`, `InsertOrder` |
| `POST …/retry-payment` | `RetryPayment`, `CreateIntent`, `ReplaceIntent` |
| `POST …/claim`, `…/deliver`, `…/cancel` | `ClaimOrder`; `DeliverOrder`, `CreateDelivery`; `CancelOrder`, `RefundPayment`; each ends in `WriteStatus` (`updateOrderStatus`) |
| `POST …/complete`; auto-complete in `scheduler.ts` | `CompleteOrder`, `AutoComplete`; `Capture`, `Transfer`, `Settle` or `QueueRetry` |
| `runRetryQueueOnce` | `PollRetry`, `MarkProcessing`, `ReloadOrder`, `Transfer`, `Settle`, `MarkSucceeded`; `Reschedule`, whose `UPDATE` is rejected, so that the branch that gives up is never reached |
| `POST …/dispute`; SLA sweep | `OpenDispute`, `SlaBreach`; `CheckExisting`, `CheckOpen`, `InsertDispute`, `WriteStatus`, `RecordEvent` |
| `PATCH /internal/disputes/:id` | `ResolveDispute`, `RuleOnDispute`, then refund or payout, `RecordEvent` |
| `POST /internal/stripe-webhook` | `ReceiveWebhook`, `LookupOrder`, `WriteStatus`, `StoreReceipt`, `LogWebhook` |
| any `await` that throws | `Throw`, with `Catch` for the `try` blocks |

`updateOrderStatus` writes without looking at the status it overwrites; this is why almost everything
about an order's status is a question and not a fact. `AfterWrite` says where each function goes on.

### CoverageEscrow

The promise about money without any table: work is earned, funds are captured only when it is earned, a payout
needs both, and no step does two of these at once. `CoverageOrders` refines it with `earned` defined
by deliveries and rulings and the other three by the platform's own records (`EscrowImplemented`).
It does *not* promise a single payout, because the code does not keep that promise (section 6).

### MCCoverageOrders, CoverageClaims

Model values and symmetry; and the two formulas that a document and a test state and the code
violates (`SinglePayout`, `RetryEnds`).

### …Proofs modules

Section 5.

### FeedbackExchange

| Code | Actions |
|---|---|
| `ensureSignupGrant` | `GrantSignup`, then `CreateTransaction` |
| `POST /internal/listings` | `CreateListing` (reads the balance), `InsertListing`, `CreateTransaction` (the fee) |
| `POST …/claim` | `ClaimListing`, `CheckSuspension`, `Claim` (one transaction) |
| `POST …/cancel` | `CancelListing`, `Cancel`, `CreateTransaction` (the refund) |
| `POST …/submit` | `SubmitReview`, `Submit`, `CreateTransaction` (the reward) |
| `POST …/rate` | `RateReview`, `InsertRating`; for a low score `IssueStrike`, `CountStrikes`, `SuspendReviewer` |
| `POST …/dispute` | `CreateDispute`, `CheckDispute`, `InsertDispute` |
| `POST …/resolve` | `ResolveDispute`, `Resolve`, `LookupReview`, strike and suspension as above, `CreateTransaction` (the refund) |
| `POST /internal/maintenance` | `ExpireListings`, `ExpireReviews`, `DecayStrikes` |
| passing of `expires_at`, `lifted_at` | `TimePasses` |

The ledger is the set of idempotency keys: a key determines accounts and amount, `idempotency_key` is
UNIQUE, and `Balance` sums over it. Ids are never reused, so a row the expiry deletes keeps its data in
the model with status `deleted`, and no statement finds it; its rewards and refunds can still be
attributed. The two statements of `expireOverdueReviews` run in one transaction and their effect is that
of one step. The model keeps in mind that the second reopens *all* overdue claimed listings, and the
first deletes only reviews that are still in progress, with their disputes (ON DELETE CASCADE).

### PooledDatabase

Connections with an open transaction each (its writes, its locks, or `aborted`), and the committed rows.
Used in two ways: in `Programs` every statement may run on any connection, as `getPool().query()` does; in
`ProjectDrafts` a request keeps the client it checked out. READ COMMITTED: a statement sees
committed rows and those its connection wrote; a writer waits for a row's lock.

### Programs

| Code | Actions |
|---|---|
| `createProgramApplication`, `reviewProgramApplication` with its notification | `CreateProgramApplication`, `ReviewProgramApplication`, `NotifyDecision` |
| `createProgramCohort`, `createProgramSession`, `replaceAvailabilityWindows` | `Create`; `BeginTransaction`, `FirstStatement`, `SecondStatement`, `ThirdStatement`, `Commit`, `Rollback` |
| `upsertSessionAttendance`, `updateProgramSessionIntegration` | `UpsertSessionAttendance`; `UpdateProgramSessionIntegration`, `UpsertIntegration` |
| CRM queue and `crm_sync_dispatcher` | `QueueProgramCrmSyncJob`, `Dispatch`; `BeginTransaction`, `SelectJob`, `ClaimJob`, `Commit`; `Publish`; `CompleteJob`, or `ReadAttempts`, `FailJob` |
| `application_sla_reminder`, `session_reminder` | `ListApplicationReminderCandidates` or `ListSessionReminderCandidates`; `HasReminderBeenSent`, `Publish`, `MarkReminderSent` |
| `cohort_transition` | `RunCohortTransitionJob` |
| a call that fails; the process ends | `FailedCall` with `Catch`; `Crash` |

One application, job, cohort and session stand for the rows: no statement relates two of a kind.
`TokenAsked` says who receives the notifications. As shipped it is `TRUE`: the scheduler posts to
`/internal/events` without an `x-service-token` (`scheduler.ts:43-45`, `index.ts:258`), and notification-service answers
403 without it (its `index.ts:82`); `Publish` is then never enabled, and `Refused` is what every publication ends in.
With `FALSE` the receiver is one that does not ask, like that of the service's tests, and `Refused` may still happen. `TRUE` only
takes behaviours away, so what the run shows with `FALSE` holds with `TRUE` (`DueIsDone` too: it never claims that a
publication is accepted).
Of a session's reminders the default one is followed. `clock` says whether it is due and whether the cohort has
ended; the session is taken to be before that end, and neither looks at the other.
`calm` says that failures have ended (`CalmDown`); the liveness property needs that they do.

### ProjectDrafts

`createDraft`, `updateDraft` and `setPrimaryDraft` statement by statement. An `UPDATE` of all drafts of a
project is split into the rows it sees (`Demote`) and their locking one by one in any order (`DemoteRow`), which is
where deadlocks come from (`BreakDeadlock`: PostgreSQL aborts one of them). The partial unique
index is `IndexWait` (a second primary row waits for the transaction that has the first) and
`UniqueViolation`. A connection stands for the client a request has checked out. Two paths of `updateDraft` never release it: a
draft that does not exist (`ReadDraft`), and a lost connection, on which the ROLLBACK of the `catch` block fails, too
(`Throw`). The transaction is over, but the connection stays `Leaked` and takes no request any more. `sole` is
history: the update looked for another active draft and saw none.

### SubmissionTracking, Ranking

`SubmissionTracking` has the statements of submissions and placements (`CreateSubmission`,
`CreatePlacement`, `UpdateSubmissionStatus`, `UpdatePlacementVerification`). `Ranking` extends it: a recomputation fetches
submissions, placements and prestige (`FetchSubmissions`, `FetchPlacements`, `ComputeScores`; the code does not look
at the status of the first two answers, so an error answer is an empty list: `answered = FALSE`), replaces the
scores in a transaction (`BeginDelete`, `DeleteScores`, `InsertScores`, `CommitScores`: a DELETE that had
to wait for another's rows does not see those that one inserted), and then writes badges, totals and ranks, and duplicate
flags one by one (`HasBadges`, `AwardBadge`, `UpsertWriterScores`, `CreateFlag`, `Finish`). The
formulas of `scoring.ts` are operators (`Raw`, `Rank`, `Board`, `Duplicates`) over small weights; the decay
of scores with age is left out. `alone` and `settled` are history: whether a recomputation has got both lists and has had
inputs and tables to itself, and whether nothing has changed since.

### PartnerSync, PartnerCompetition

`PartnerSync` is the sync job queue: claimed for an outside runner (`jobs/claim`) or by `run-next`, reported
on by `complete` and `fail`. `PartnerCompetition` composes it with intake, `AutoAssign` and
`AssignJudges`, `RecordEvaluation`, `RunNormalization`, `PublishResults` with its announcement to ranking,
and `ProcessDraftSwap`, whose row gets its `created_at` when the request comes in, before the submission's row lock is waited for
(`created`, against `recorded`, when it is committed: moments are counted in requests); transactions hold the rows they touched until `Commit…`, `Throw` or
`BreakDeadlock`. Scores are kept times `Scale`, a common multiple of all numbers of evaluations, so
that means are integers. `Sums` has the operator for totals, which `Ranking` uses, too.

### Notifications

| Code | Actions |
|---|---|
| `publishNotificationEvent`, `getProducer` | `GetProducer`, `Connect`, `Send`; `Restart` of the publishing process |
| `startConsumer` | `StartConsumer`, `Assign` (`fromBeginning: false`) |
| `eachMessage`, `pushEvent` | `EachMessage`, `PushEvent` |
| Kafka and KafkaJS | `Assign`, `Commit`, `Retry`, `Leave` (a session times out), `Crash`, and the log itself |

The client commits what `eachMessage` has returned from and retries what threw, from the committed
offset or where it is; both are allowed. A consumer that loses its partition finishes the message it is
working on, while the new owner may be working on the same one. A start that fails is logged (`consumer.ts:35-37`) and
never tried again by that process: the consumer stays `off` until `Crash`, that is a restart of the instance. A start may fail
any number of times; the other faults are counted.

### MC… modules

Model values, orders and symmetry for TLC.

## 4. The runs

These runs finish without error; section 6 has the three that expect a counterexample. Bounds are constants of the configurations.

| Run | Configuration | Bounds | Properties | What it shows |
|---|---|---|---|---|
| `cov_payouts` | `CoverageOrders_payouts` | 1 order, 2 functions at once (requests, webhooks, sweeps or retry polls), 1 dispute, 1 retry entry, 2 event types; any database call may fail and the process may crash | `TypeOK`, `PayoutIsEarned`, `CompletedIsPaid`, `TrailTruthful`, `OneRulingActs`, `WebhookHandledOnce`, `DisputedHasDispute`, `EscrowImplemented` | two functions at a time over the whole life of an order, with opposite rulings: money moves as it should on every path, a repeated event is handled at most once, and no order is `disputed` before its dispute is stored, unless the bank charged back |
| `cov_intents` | `CoverageOrders_intents` | 2 intents for one order, 2 handlers, declined and authorised payments, `FairSpec` | `WorkIsPaid`, `AuthorisedLeavesPlaced` | a provider never works for an order for which nothing was ever authorised; an authorised payment gets its order out of `placed`, whichever of the two handlers is late |
| `fb_tokens` | `FeedbackExchange_tokens` | 2 users, 1 listing, 2 reviews, 2 handlers; failing database, crashes | `TypeOK`, `RewardIsEarned`, `ReviewIsClaimed`, `CancelledIsOver` | claim, cancel, submit and both expiry jobs race on a listing: tokens are earned and nobody reviews a cancelled listing |
| `fb_disputes` | `FeedbackExchange_disputes` | 2 users, 1 review, 1 dispute, limit of 2 strikes, 2 handlers, no failures, `FairSpec` | `UpheldOnly`, `LimitSuspends`, `EveryMoveIsBooked` | two admins, and the expiry of the review under them; each handler inserts its strike before it counts, so whoever counts last sees both; every listing is paid for, every submitted review rewarded, every cancelled listing refunded |
| `prog_alone` | `Programs_alone` | 1 function, 1 connection (`DB_POOL_MAX=1`), 2 attempts, 3 claims; any call may fail, crashes, `FairSpec` | `TypeOK`, `RecordedWasSent`, `DueIsDone` | nothing is recorded as sent that was not; once failures end every queued job is carried through or given up, the reminder of an undecided application is tried until it is logged, and the member of an ended cohort is completed |
| `drafts` | `ProjectDrafts_primary` | 3 drafts, 2 connections, 5 requests, failing statements, leaked clients, `FairSpec` | `TypeOK`, `OnePrimary`, `PrimaryIsHandedOn`, `RequestsEnd` | never two primary drafts; a primary draft is handed on unless the request that archived it had looked for another active one and saw none; every request that has got a client is answered, deadlocks included |
| `ranking` | `Ranking_overlap` | 2 writers, 2 submissions, 2 placements, 3 recomputations of which 2 overlap, 1 change, failing calls and error answers | `TypeOK`, `BadgeIsEarned`, `SettledAgrees`, `StatusHasPlacement`, `ScoresChangeWhole` | overlapping recomputations award no badge twice and never show half-replaced scores; an error answer deletes all scores, and the next recomputation that is undisturbed and gets both lists repairs everything |
| `partner` | `PartnerCompetition_season` | 2 submissions, 2 judges, 2 workers, 3 requests, 1 sync job with 2 runners; failing statements, any number of crashes | `TypeOK`, `ClaimedOnceOneVerdict`, `PublishedWhole`, `ScriptIsRecorded`, `NormalizedFairly` | publication is all or nothing whichever of two deadlocked publications is aborted; no script changes without a record and no later swap is lost; a job has one runner and one verdict; an undisturbed normalization favours no judge |
| `notifications` | `Notifications_topic` | 4 events (one malformed), 2 partitions, 2 consumers, any number of failed starts and 1 failure of 7 other kinds, `FairSpec` | `TypeOK`, `NothingSkipped`, `StoredInOrder`, `StoredOrHeldUp` | nothing committed is missing from the table; each user's events are stored in order from where the group began; a well-formed event of the topic is stored unless the group began behind it, a repeated one holds up its consumer for ever, or no instance has a consumer that started |

**Why these bounds are enough to be interesting.** In the marketplace every table row is keyed by its
order and no statement reads two orders (except the webhook's lookup by intent, which is per intent),
so orders interact only through intents; one order with as many functions as a race needs covers the
cases, and the theorems of section 5 hold for any number. The event types are spread over the
runs (`Subscribed`): together they multiply the states without meeting each other. `cov_payouts` has authorisations and cancellations,
`cov_intents` declines; the events of refunds and chargebacks are in no run, and left to the theorems, which hold for all five types
(`WorkIsPaid` and all properties of `cov_payouts` are proved). Two functions are the least for a race,
and each may be a request, a webhook, a sweep or a poll. Two intents
are needed where an order's intent is replaced.
In the exchange the grant and
the strike limit are scaled from 3 to 1 or 2 so that they are reached within the bounds
(`StrikeLimit = 3` in `fb_tokens` puts the suspension out of the way); two reviews of one listing are what
reopening it needs. In `Programs` two attempts separate `failed` from `dead_letter`, and three claims are more than they allow;
one connection is the configuration `DB_POOL_MAX=1` (`packages/db/src/index.ts:35`; the default is 10): with more of them
a single function's transaction is torn apart, as section 6 says. `RecordedWasSent` is proved for any number of functions and connections. Three drafts are what a hand-over
beside a promotion needs, five requests what it takes to create, archive and promote them in overlapping
transactions. In `Ranking` two submissions of one or two writers give a rank order, a duplicate and a
sum. The third recomputation is the one that may follow two overlapping or failed ones undisturbed, which is the case
`SettledAgrees` is about; `LastRunIsLate` has it begin when these have ended, and keeps new inputs (not failures) from disturbing it. In `PartnerCompetition` publications list the submissions
in both orders. In `Notifications` two partitions with two events each show that one holds up the other through their common consumer;
`InTurn` has each user's events sent one after the other. A failed start does not use up the fault of `MaxFaults`, so the instance
that crashes (after an INSERT, before its commit) may fail to start again, and both instances may; the theorems hold for any number of
faults. `MaxDisputes`, `MaxRetries`, `MaxListings` and so on limit only how many
rows are inserted; when they are used up the insert waits, which is why the runs do not check deadlock
(besides, a system without requests may rest).

**Fairness.** In the marketplace and the exchange `WF` for each worker: Node's event loop runs each continuation,
and a call is answered or fails. `WF` of `PollRetry` for each poll: the 30 second timer of
`createScheduler` fires again and again, *where* `COVERAGE_SLA_MAINTENANCE_MS` is positive. `.env.example` sets an hour; the
default is 0 (`index.ts:132`), and then `scheduler.ts:128-131` returns before either timer is set, nothing is swept and no payout is
retried: this is `Sweepers = Pollers = {}`, as in `cov_intents`. `SF` of `ReceiveWebhook`: Stripe repeats an
event until it is answered, and the endpoint is not busy for ever; as no event is received twice in the
model, one condition says this of each. No fairness is assumed of users,
admins, banks or of the calls' success. `cov_intents` and `fb_disputes` leave database failures and crashes
out, because the code does not recover from them: a failed handler's event stays in the log and its
redelivery is skipped; a submitted review whose reward failed is not rewarded later. `prog_alone` lets everything fail
until `CalmDown`, with `SF` of three of the scheduler's jobs: their timer fires for ever and they
find time. In `drafts` the database gets on with every statement that need not wait, and aborts one of
the transactions of a deadlock; a request that waits for a client of an exhausted pool has not begun, and nothing is said of it. In
`notifications` running processes go on and clients that were started join their group again: `SF` of `Assign` for each partition, because the
coordinator gives a free partition to a member that comes back to poll again and again, although it is busy in between;
which partition of a consumer comes next is not promised, and nobody has to publish. A start that failed is not
repeated, and no fairness says otherwise.

Every property of a passing run has a mutant in `PROJECT.json`: a plausible bug in one action
under which TLC finds the property violated with the same configuration.

## 5. What is proved

Each module of proofs extends the module it is about. Its theorems hold for every value of the
constants that the assumptions named in the module allow; no theorem has another hypothesis unless
the table says so. All of them follow the same plan: an inductive invariant of named parts; lemmas that say
what no step takes back (`Lasting`), so that what a function learnt before an await is still true after it; one lemma
per action; and the theorems at the end.

### CoverageOrdersProofs

For any sets of orders, intents and workers, any bounds and
any set of faults (assumptions `GatewayAssumption` and `OrdersAssumption`: the sets of model values are
disjoint, the bounds are naturals):

| Theorem | States |
|---|---|
| `Invariance` | `Spec => []IInv` |
| `TypeCorrect` | `Spec => []TypeOK` |
| `NoPayoutBeforeCapture` | `Spec => []PayoutAfterCapture` |
| `OnlyEarnedPayouts` | `Spec => []PayoutIsEarned` |
| `CompletedOrdersArePaid` | `Spec => []CompletedIsPaid` |
| `Refinement` | `Spec => EscrowImplemented` |

*The argument.* None of the properties is inductive: a function transfers money on the strength of a row it read
several awaits ago, and the row may say something else by then. What saves the code is that the
*evidence* a payout needs is never taken back: a capture, a delivery and a transfer stay, a
ruling is final, an order keeps having an intent, a retry entry keeps its order (`Evidence`). So
knowledge of evidence cannot go stale, although knowledge of a status can. `IInv` therefore consists of

- `TypeOK`;
- `RowsOK`: what rows guarantee about other rows (a `delivered` order has a delivery; a queued retry
  is for an order that is earned and captured; ...) with the three properties;
- `RequestOK(req[w])` for each worker: what the local variables of a function guarantee at each await (at `capture`
  the order is earned; at `transfer`, `queue`, `settle`, ... it is earned and captured; at `settle` its
  transfer was executed; ...).

`RequestStable` shows that a waiting function's knowledge survives any step that keeps `Evidence`,
`RowsStable` the same for rows, `StepPreserves` combines them, and then there is one lemma per action.
The refinement maps each action to `Earn`, `CaptureFunds`, `Pay`, `GiveBack` or a stutter, using `IInv`.

The second half of the module is a second layer, under the same assumptions:

| Theorem | States |
|---|---|
| `HandlingInvariance` | `Spec => []Handling` |
| `OnlyPaidWork` | `Spec => []WorkIsPaid` |
| `NoOrphanDispute` | `Spec => []DisputedHasDispute` |
| `TrailIsTrue` | `Spec => []TrailTruthful` |
| `OneHandler` | `Spec => []WebhookHandledOnce` |
| `OneRuling` | `Spec => []OneRulingActs` |

*The argument.* `IInv` says that the rows exist which a function works on; `Handling` adds *why* the function may
write what it is about to write (`Informed`): a function about to write `payment_held` or `claimed` works on an
order with an intent whose authorisation the platform reported; one about to write `disputed` has found, made or heard of a
dispute (which may have been ruled on since: `NoOrphanDispute` does not say that it is open); one about to record `resolved` has ruled and moved the money. Reports, transfers, refunds, rulings
and the list of intents a writer was offered (`offered`) only grow, so this survives every await, although the
status the function read does not. `HooksOK` and `RulingsOK` say that an event or a ruling has one owner: the log row
and the status of the dispute are changed by the statement that decides who goes on
(`INSERT ... ON CONFLICT DO NOTHING`, `UPDATE ... WHERE status IN ('open', 'under_review')`), so a second function cannot get past it.

### FeedbackExchangeProofs

For any sets of users and handlers, any bounds, grant and strike limit, and any faults
(`FeedbackAssumption`):

| Theorem | States |
|---|---|
| `Invariance` | `Spec => []IInv` |
| `TypeCorrect` | `Spec => []TypeOK` |
| `OnlyEarnedRewards` | `Spec => []RewardIsEarned` |
| `OneReviewInProgress` | `Spec => []ReviewIsClaimed` |
| `RefundedIsOver` | `Spec => []CancelledIsOver` |
| `OnlyUpheldDisputes` | `Spec => []UpheldOnly` |
| `LimitAlwaysSuspends` | `Faults = {} /\ Spec => []LimitSuspends` |

*The argument* is the same: what a handler relies on after an await is what no step takes back
(`Lasting`: a submitted review stays submitted, a cancelled listing cancelled, a ruling, a ledger key and a
row's owner, reviewer and filer stay). `IInv` is `TypeOK`, what rows guarantee about each other
(`RowsOK`: a review in progress belongs to a listing claimed by its reviewer and there is only one; a
reward is for a submitted review; a refund's or strike's dispute is decided or deleted), and what each
handler knows (`RequestOK`). `LimitSuspends` rests on the order of two statements: a strike is inserted
before the strikes are counted, so the handler that counts last counts all. It needs that no handler
fails between the two.

### NotificationsProofs

For any sets of events, partitions and consumers, and any faults (`NotificationsAssumption`: every event
has a partition):

| Theorem | States |
|---|---|
| `Invariance` | `Spec => []IInv` |
| `TypeCorrect` | `Spec => []TypeOK` |
| `NothingIsSkipped` | `Spec => []NothingSkipped` |
| `EventsInOrder` | `Spec => []StoredInOrder` |

*The argument.* `NothingSkipped` is not inductive: a commit moves the offset to the owner's position, so
all before the position has to be stored, and the position moves when an INSERT is answered. `IInv`
says that of the position, too (`PartitionOK`), and of every consumer with a message in hand, owner or
not, that all messages before it are stored, and that only for the owner the position is the one before
it (`HandOK`): the INSERT of a consumer that lost its partition does no harm and moves nothing. `StoredWasSent` (what is
in the table is in its log) is needed for the order, when a stored event is sent once more.

### SumProofs

Lemmas about `SumOver`, which folds over a set: a total of finitely many integers is an integer
(`SumIsInt`), is one row and the total of the others (`SumStep`), and scales and shifts with its rows
(`SumShifts`); and the maximum of a finite set is in it (`MaxIsMember`). There is no induction over data here; instead, a
smallest set for which the claim fails is taken (`MinimalSet`, from the well-foundedness of the subset
ordering), and the fold's recursive function is shown to exist (`SumUnrollable`) and not to depend on the set
it is defined for (`SumsAgree`). `RankingProofs` and `PartnerProofs` extend the module.

### PartnerProofs

For any sets of submissions, judges, scripts, requests and sync runners, any bounds and any failures
(`SyncAssumption`; `PartnerAssumption`: finitely many submissions, lists of judges and of results that
are not empty, as the request schemas demand, and a `Scale` that all numbers of evaluations divide):

| Theorem | States |
|---|---|
| `SyncInvariance` | `Spec => []SyncInv` |
| `OneRunnerOneVerdict` | `Spec => []ClaimedOnceOneVerdict` |
| `ResultsAreWhole` | `Spec => []PublishedWhole` |
| `Invariance` | `Spec => [](IInv /\ TimesOK)` |
| `TypeCorrect` | `Spec => []TypeOK` |
| `ScriptsAreRecorded` | `Spec => []ScriptIsRecorded` |
| `NoJudgeIsFavoured` | `Spec => []NormalizedFairly` |

*The argument.* `SyncInv` adds what `FOR UPDATE SKIP LOCKED` gives the runner whose transaction is open:
its job is still queued and no other open transaction has it (`ClaimOK`). So the commit hands out a job
that was never claimed. A report needs no such knowledge: its `UPDATE ... WHERE status = 'running'` finds the job running, hence
without a verdict, however many report. For `PublishedWhole` it is enough that one COMMIT writes results
and statuses: what else writes submissions keeps a status or sets `in_review`. `ScriptIsRecorded` needs that and the
moments: swap and script are one COMMIT, which is later than the beginning of any swap that has begun (`TimesOK`), so no recorded swap
began after the one whose script is stored. That the *newest row* names the script is not claimed, because it is not so (section 6).

`NormalizedFairly` rests on a protocol and on arithmetic. The protocol (`Treating`, a part of `IInv`): a normalization whose reading of
the evaluations is still current has given the scores computed from them to all evaluations but those
left, and holds the right scores for these; whoever else writes an evaluation ends that (`Stale`). The arithmetic
(`FairlyNormalized`): the total of a judge's scores is shifted by exactly what the judge's mean is off
(`SumShifts`, `MeanIsExact`), unless a score is cut off, and cutting off keeps the order
(`ClampedIs`). Nothing is said of a normalization during which evaluations are recorded: the code does not
protect it, and `settled` leaves it out.

### ProjectDraftsProofs

For any sets of drafts and requests, and any failures (`DraftsAssumption`):

| Theorem | States |
|---|---|
| `Invariance` | `Spec => []IInv` |
| `TypeCorrect` | `Spec => []TypeOK` |
| `AtMostOnePrimary` | `Spec => []OnePrimary` |
| `PrimaryIsNotLost` | `Spec => PrimaryIsHandedOn` |

*The argument.* `OnePrimary` speaks of committed rows, but is decided while changes are uncommitted: a COMMIT writes what
its transaction decided some statements earlier. `RowsOK` therefore extends it to open transactions. A row has
one writer, by its lock; of all rows marked primary in open transactions there is only one, and whoever marks it
holds the row that is primary in the store, if that is another one. This is inductive because there are
only two ways to mark a draft: after the demotion of all others, which took their locks, and by inserting or keeping a primary row,
for which the partial unique index makes the statement wait or fail. A request's outcome (what is still to be demoted, what its
last statement will write) is in `RequestsOK`. `PrimaryIsHandedOn` is an action property, by the same invariant.

### ProgramsProofs

For any sets of connections and functions, either value of `TokenAsked`, and any faults (`ProgramsAssumption`):

| Theorem | States |
|---|---|
| `Invariance` | `Spec => []IInv` |
| `TypeCorrect` | `Spec => []TypeOK` |
| `OnlySentIsRecorded` | `Spec => []RecordedWasSent` |

*The argument.* As statements of several functions mix in the transactions of the pool's connections, a
COMMIT may publish a change that a quite different function made long ago. So the invariant has to say of *every*
uncommitted change what it says of the store: whatever records an event as sent is true (`Holds`, `DataOK`). It is
enough that a function holds the acceptance of an event when it records it (`Knows`), and that acceptances are never taken
back.
Nothing of the kind can be said of what a creation leaves behind: see section 6.

### RankingProofs

For any writers, competitions, submissions and placements, any prestige multipliers, any number of overlapping
recomputations, any failures and error answers (`TrackingAssumption`, `RankingAssumption`):

| Theorem | States |
|---|---|
| `Invariance` | `Spec => []IInv` |
| `TypeCorrect` | `Spec => []TypeOK` |
| `BadgesAreEarned` | `Spec => []BadgeIsEarned` |
| `ResultsAreRight` | `Spec => []SettledAgrees` |
| `StatusFollowsPlacement` | `Spec => StatusHasPlacement` |
| `ScoresAppearAtOnce` | `Spec => ScoresChangeWhole` |

*The argument.* The invariant has two halves. `Knows` holds of every recomputation, whoever else runs: what it fetched may be old, or nothing at all after an error answer, but
a placement keeps its submission and status, and one that was verified was verified; this gives
`BadgeIsEarned`. `Current` holds of a recomputation that got both lists and has had inputs and tables to itself (`alone`): at each of its steps,
what it holds and what it has written already are what the inputs of now demand. In particular its DELETE sees all scores,
no row of its totals is missing for any writer who is on the board, and the badges it leaves out exist. So
whatever stale or half-written state it found is replaced (`TotalsAgree`, `RanksAgree`, `AwardsAgree`,
`FlagsAgree`). Underneath are two facts about data, for sets of any size: a sum of
integers is an integer (`SumIsInt`), and counting who is
above gives the ranks 1, 2, .. without gap or tie (`RanksCount`: an injection of a finite set into 1..n is onto).

*Only model-checked:* all liveness (`AuthorisedLeavesPlaced`, `EveryMoveIsBooked`, `DueIsDone`,
`RequestsEnd`, `StoredOrHeldUp`), which
together with `ENABLED` is out of the prover's reach. So is induction over data in general; what `SumOver` needs of it goes the way
described under `SumProofs`.

## 6. Where the code and its documentation disagree

Three runs expect a counterexample of one formula; the quoted statements are in
`PROJECT.json`.

| Run | Formula | What the code does |
|---|---|---|
| `cov_payout` | `SinglePayout` | a transfer whose answer was lost is repeated under another idempotency key |
| `cov_retry` | `RetryEnds` | a queued payout whose retry fails once is neither made nor given up: PostgreSQL rejects the rescheduling `UPDATE` (its parameter `$2` is never used, so its type is unknown), the entry stays `processing`, and no poll looks at it again; the test that says otherwise runs on the store in memory |
| `prog_pool` | `DecisionKept` | the decision on an application becomes part of a transaction that another request left open on the connection, and is rolled back with it after it was answered |

The models show more of the same kind, for which there is no run of their own.

*Marketplace.* A queued payout is retried after the order was disputed and refunded: the provider is paid
and the order becomes `completed`. An admin may rule on a dispute between its INSERT and the write of the order's
status: the order then says `disputed` and there is nothing left to rule on. `abandoned`, which the code never reaches (`cov_retry`), is not in the CHECK constraint of `coverage_orders.status`. A
claim or a webhook that read the order before it was cancelled overwrites `cancelled`, which the design
calls terminal; two dispute requests may both pass `createDispute`'s `SELECT` and leave two open
disputes; the event of an intent that was replaced after the handler looked it up marks the order `payment_held`.

*Feedback exchange.* Two listings can be created on one balance, which becomes negative. The listing of a
submitted review stays `claimed`, so `expireOverdueReviews` offers it again. One filer's two requests may both
pass the check of `createDispute`, and each dispute is refunded. A reviewer suspended between the check and
the claim claims nevertheless. The strike and the refund after a dispute do not look at who filed it, so
that a reviewer who files one and wins is struck.

*Programs.* The notifications the scheduler publishes are all refused: it sends no service token where
notification-service asks for one (section 3, `TokenAsked`). So no reminder is ever logged, and every CRM job ends as `dead_letter`.
`createProgramCohort`, `createProgramSession` and `replaceAvailabilityWindows` send `BEGIN`, their statements, and `COMMIT` or `ROLLBACK` to the
pool: on several connections some are committed at once and outlive a failure, even when only one function runs, so a
cohort without members or a session without attendees can be left. Two overlapping dispatchers may claim one CRM job (`FOR UPDATE SKIP LOCKED` runs on another
connection than its `BEGIN`), and then try it more often than `max_attempts`. A transaction left
open by a failed statement keeps its locks, for which the function itself may wait. A job whose dispatcher
dies stays `running`. A session's reminder is sent only by a run of the job within `lookbackMinutes` of its time, so
that failures during these are not made up for; the 250 candidates include those already reminded, who may
crowd out the others; and `reminders/dispatch` answers how many it queued although it queues nothing. Submitting again resets a decision, and a cohort may be formed of applications
that were not accepted. Two overlapping changes of a session's integration write back each other's old fields.

*Drafts.* `updateDraft` decides on `isPrimary` as it read it without a lock and writes back the
lifecycle state it read: when requests overlap, an archived draft can stay or become primary, and an
archived one be restored. A project whose only primary draft is archived while another is inserted can be
left with active drafts and no primary one: the one exception `PrimaryIsHandedOn` names, as the request that archives did not see the
other. Every `PATCH` of a draft that does not exist costs the pool a client (`repository.ts:659-663` returns without
`client.release()`), and so does a lost connection; when all are gone (10 by default) no request of the service gets one until it is restarted.
`RequestsEnd` says only that the transaction is over and blocks nobody.

*Ranking.* The status of submission-tracking's answers is not looked at (`index.ts:179-181`, `189-191`): an error answer is
an empty list, and the recomputation deletes all scores and completes. Of two overlapping recomputations the one with the older input may write last; scores of
placements it did not know remain (`ON CONFLICT` does not delete them), ranks can then be equal. The next
undisturbed recomputation repairs this, as `SettledAgrees` says. A badge outlives the rejection of its
placement, and a dismissed duplicate flag is raised again. The gateway's "incremental" recomputation changes nothing.

*Partner competitions.* Judges are filled up one after the other in the order of the request, whatever was
assigned before, and overlapping auto-assignments give one submission several judges. An evaluation
recorded after publication sets the submission back to `in_review`. Scoring again keeps the
old normalized score until the next normalization. A swap's `created_at` is taken before the row lock is waited for (`repository.ts:981`), so of
overlapping swaps the row with the newest one need not name the submission's script. A sync job that runs when the process ends stays
`running`, and `run-next` stores `failed` for a success that it could not store. The ranks of published
writers are recomputed by best effort after the commit.

*Notifications.* `docs/phase-0/notification-architecture.md:37` says "At-least-once delivery with idempotency
key on notification write", and a comment in `consumer.ts` that malformed events are skipped "to avoid
infinite retry". But `pushEvent` has no `ON CONFLICT`: an event that is delivered twice (the process ends, or the session
is lost, between INSERT and commit; the answer of the INSERT or of the send is lost) is rejected by the
UNIQUE `event_id`, `eachMessage` throws, and that message is retried for ever while the
partition behind it waits. `StoredOrHeldUp` names this as one of three exceptions. Another is the last one below. `getProducer` sets the
shared producer before it has connected, so events published meanwhile, or at any time after a failed connect, are
lost. With `fromBeginning: false` events sent before the group's first commit may be skipped. An instance whose
consumer does not start "falls back to HTTP-only mode" and never tries again, but publishers with Kafka never use HTTP; with the one
instance of `compose.yml` nothing is consumed until it is restarted.

## 7. What is not modelled

- *Marketplace:* onboarding, services and reviews with the rating aggregate (`updateProviderRating`
  computes and stores it under READ COMMITTED, so an older number may be stored last), the `account.updated` webhook, file
  uploads, receipts' content, customers. They change none of the modelled state, except that a
  provider may get or lose its Stripe account; `Payable` is fixed per run. A call that the platform refuses has no effect and
  throws (`Throw`); one that it executes may still
  throw, because its answer is lost (`Answer`). Amounts are not modelled, so a partial refund is a refund.
- *Programs:* application forms, rubrics, outcomes, mentorship matches and KPI snapshots: rows that one statement
  writes and that no other operation reads to decide anything.
- *Profile-project:* profiles, projects (and the cascade of their deletion), co-writers and access requests are single-row
  writes. After `COMMIT` `updateDraft` releases its client, and when the following `getDraft` fails it sends ROLLBACK
  on that client and releases it a second time; in the model a request has its client to itself.
- *Ranking and submissions:* decay of scores with age, appeals, snapshots, tiers, moving a submission to another
  project, an arbitrary status entered with a submission beyond the five statuses.
- *Partner:* memberships and roles, intake configuration, entrant messages, analytics, creating competitions.
- *Notifications:* the HTTP intake (used without Kafka), mark-read, templates and preferences, broadcasts and
  direct notifications.
- *identity-service:* users, sessions and tokens are conditional single-statement writes; the other services only read the user it names.
- *industry-portal-service:* mostly single statements. What is not: `createAccount` makes three inserts without a transaction;
  the talent index is rebuilt by TRUNCATE and INSERT, which overlapping rebuilds repeat; list items without a project are not unique.
- *competition-directory, script-storage:* single-row statements without a guard that could
  be stale. `api-gateway`, `writer-web`, `contracts`, `email`, `infra` keep no state
  the services depend on.
- Read-only routes, listings with filters, metrics, logs, and who may call what: requests are those that
  pass the checks of authentication and roles.

## 8. Plan

Done, in this order: `PaymentGateway`, `CoverageOrders`, `CoverageEscrow`, `CoverageClaims`,
`CoverageOrdersProofs`, `FeedbackExchange`, `PooledDatabase`, `Programs`, `SubmissionTracking`, `Ranking`, `PartnerSync`, `PartnerCompetition`,
`ProjectDrafts`, `FeedbackExchangeProofs`, `Notifications`, `NotificationsProofs`, `PartnerProofs`, the second layer of
`CoverageOrdersProofs`, `ProjectDraftsProofs`, `ProgramsProofs`, `RankingProofs`, `SumProofs`, and the competition in `PartnerProofs`.

Next, most important first:

1. An abstract ledger that `FeedbackExchange` implements: by how much concurrent debits can overdraw a balance.
2. `ProviderRating`: the aggregate after concurrent reviews.
3. The refresh rotation of identity-service, with revocation and the lockout thresholds.
