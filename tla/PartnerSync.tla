------------------------------ MODULE PartnerSync ------------------------------
(***************************************************************************)
(* The FilmFreeway sync jobs of partner-dashboard-service.  A job is       *)
(* claimed by POST sync/jobs/claim, for a runner outside the service that  *)
(* reports by POST sync/jobs/:jobId/complete or fail, or by POST           *)
(* sync/run-next, which runs it and stores the outcome itself.  Nothing    *)
(* ties a report to the one who claimed, so both may report on one job.    *)
(*                                                                         *)
(* Jobs are numbered in the order of created_at.                           *)
(***************************************************************************)
EXTENDS Integers, Sequences, FiniteSets

CONSTANTS
  Runners,  \* requests that claim a job, under way at the same time
  MaxJobs,  \* bound: jobs
  Breaks    \* subset of {"database", "runner", "crash"}: what may fail

ASSUME SyncAssumption ==
  MaxJobs \in Nat /\ Breaks \subseteq {"database", "runner", "crash"}

VARIABLES
  job,      \* partner_sync_jobs: sequence of statuses
  claim,    \* [Runners -> [at, job]]
  claims,   \* history: how often each job was claimed
  verdicts  \* history: per job, the outcomes that were answered as stored

syncVars == <<job, claim, claims, verdicts>>

JobStatus == {"queued", "running", "succeeded", "failed"}
Jobs == DOMAIN job
NoClaim == [at |-> "idle", job |-> 0]

SyncInit ==
  /\ job = <<>> /\ claims = <<>> /\ verdicts = <<>>
  /\ claim = [r \in Runners |-> NoClaim]

Holds(r, at) == claim[r].at = at
Move(r, at) == claim' = [claim EXCEPT ![r].at = at]
Leave(r) == claim' = [claim EXCEPT ![r] = NoClaim]

\* POST sync.
QueueFilmFreewaySync ==
  /\ Len(job) < MaxJobs
  /\ job' = Append(job, "queued")
  /\ claims' = Append(claims, 0) /\ verdicts' = Append(verdicts, <<>>)
  /\ UNCHANGED claim

\* SELECT .. FOR UPDATE SKIP LOCKED and UPDATE, in one statement: the oldest queued job
\* that no open transaction has.  run-next goes on after the claim, jobs/claim does not.
Locked == {claim[r].job : r \in {q \in Runners : claim[q].at \in {"claim", "take"}}}
SkipLocked == {j \in Jobs \ Locked : job[j] = "queued"}

\* Mutant: FOR UPDATE without the lock of the transaction.
AllQueued(r, at) ==
  /\ Holds(r, "idle")
  /\ \E j \in Jobs :
       /\ job[j] = "queued" /\ \A i \in 1..(j - 1) : job[i] # "queued"
       /\ claim' = [claim EXCEPT ![r] = [at |-> at, job |-> j]]
  /\ UNCHANGED <<job, claims, verdicts>>

ClaimNextFilmFreewaySyncJob(r, at) ==
  /\ Holds(r, "idle")
  /\ \E j \in SkipLocked :
       /\ \A i \in SkipLocked : j <= i
       /\ claim' = [claim EXCEPT ![r] = [at |-> at, job |-> j]]
  /\ UNCHANGED <<job, claims, verdicts>>

CommitClaim(r) ==
  /\ \/ Holds(r, "claim") /\ Leave(r)
     \/ Holds(r, "take") /\ Move(r, "run")
  /\ job' = [job EXCEPT ![claim[r].job] = "running"]
  /\ claims' = [claims EXCEPT ![claim[r].job] = @ + 1]
  /\ UNCHANGED verdicts

\* The configured runner succeeds, or it reports or throws a failure.
RunSync(r) ==
  /\ Holds(r, "run")
  /\ \/ Move(r, "succeeded")
     \/ "runner" \in Breaks /\ Move(r, "failed")
  /\ UNCHANGED <<job, claims, verdicts>>

\* completeFilmFreewaySyncJob and failFilmFreewaySyncJob: one row or an answer 404 or 409.
StoreOutcome(j, outcome) ==
  IF job[j] = "running"
  THEN /\ job' = [job EXCEPT ![j] = outcome]
       /\ verdicts' = [verdicts EXCEPT ![j] = Append(@, outcome)]
  ELSE UNCHANGED <<job, verdicts>>

\* The end of run-next.
EndRun(r) ==
  /\ claim[r].at \in {"succeeded", "failed"}
  /\ StoreOutcome(claim[r].job, claim[r].at)
  /\ Leave(r)
  /\ UNCHANGED claims

\* POST jobs/:jobId/complete and jobs/:jobId/fail; other answers change nothing.
ReportOutcome(j, outcome) ==
  /\ job[j] = "running"
  /\ StoreOutcome(j, outcome)
  /\ UNCHANGED <<claim, claims>>

\* A statement or the connection fails.  The claim is rolled back; run-next's catch block
\* fails a job whose success it could not store, and gives up when that fails too.
SyncThrow(r) ==
  /\ "database" \in Breaks /\ claim[r].at \in {"claim", "take", "succeeded", "failed"}
  /\ IF Holds(r, "succeeded") THEN Move(r, "failed") ELSE Leave(r)
  /\ UNCHANGED <<job, claims, verdicts>>

SyncCrash == claim' = [r \in Runners |-> NoClaim] /\ UNCHANGED <<job, claims, verdicts>>

SyncStep(r) ==
  \/ CommitClaim(r)
  \/ RunSync(r)
  \/ EndRun(r)
  \/ SyncThrow(r)

SyncNext ==
  \/ QueueFilmFreewaySync
  \/ \E r \in Runners, at \in {"claim", "take"} : ClaimNextFilmFreewaySyncJob(r, at)
  \/ \E r \in Runners : SyncStep(r)
  \/ \E j \in Jobs, outcome \in {"succeeded", "failed"} : ReportOutcome(j, outcome)

SyncTypeOK ==
  /\ job \in Seq(JobStatus) /\ Len(job) <= MaxJobs
  /\ claim \in [Runners -> [at : {"idle", "claim", "take", "run", "succeeded", "failed"}, job : 0..MaxJobs]]

\* No job is handed to two runners, whoever asks at the same time; and of all who report
\* on it, one is told that the outcome was stored, and it is that outcome which stays.
ClaimedOnceOneVerdict ==
  \A j \in Jobs :
    /\ claims[j] = IF job[j] = "queued" THEN 0 ELSE 1
    /\ verdicts[j] = IF job[j] \in {"succeeded", "failed"} THEN <<job[j]>> ELSE <<>>

=============================================================================
