----------------------------- MODULE PartnerProofs -----------------------------
(***************************************************************************)
(* For any number of submissions, judges, requests, jobs and runners and   *)
(* any failures: a sync job has one runner and one verdict, and what says  *)
(* that results are out is written together with them.                     *)
(***************************************************************************)
EXTENDS PartnerCompetition, SumProofs, SequenceTheorems

-----------------------------------------------------------------------------
(* The sync jobs.                                                           *)

\* A runner whose transaction is open has a queued job to itself; one that runs a job
\* has one that exists.
ClaimOK(r) ==
  /\ claim[r].at # "idle" => claim[r].job \in Jobs
  /\ claim[r].at \in {"claim", "take"} =>
       /\ job[claim[r].job] = "queued"
       /\ \A q \in Runners \ {r} :
            claim[q].at \in {"claim", "take"} => claim[q].job # claim[r].job

\* What ClaimedOnceOneVerdict says of one job.
Settled(j) ==
  /\ claims[j] = IF job[j] = "queued" THEN 0 ELSE 1
  /\ verdicts[j] = IF job[j] \in {"succeeded", "failed"} THEN <<job[j]>> ELSE <<>>

SyncInv ==
  /\ SyncTypeOK
  /\ claims \in Seq(Nat) /\ Len(claims) = Len(job)
  /\ verdicts \in Seq(Seq(JobStatus)) /\ Len(verdicts) = Len(job)
  /\ \A r \in Runners : ClaimOK(r)
  /\ ClaimedOnceOneVerdict

\* Lemma: a job is appended.
LEMMA Queues == SyncAssumption /\ SyncInv /\ QueueFilmFreewaySync => SyncInv'
<1> SUFFICES ASSUME SyncAssumption, SyncInv, QueueFilmFreewaySync PROVE SyncInv'
  OBVIOUS
<1> DEFINE n == Len(job)
<1>1. /\ job \in Seq(JobStatus) /\ n \in Nat /\ n + 1 <= MaxJobs /\ MaxJobs \in Nat
      /\ claims \in Seq(Nat) /\ Len(claims) = n /\ verdicts \in Seq(Seq(JobStatus)) /\ Len(verdicts) = n
  BY DEF SyncInv, SyncTypeOK, QueueFilmFreewaySync, SyncAssumption
<1>2. job' = Append(job, "queued") /\ claims' = Append(claims, 0) /\ verdicts' = Append(verdicts, <<>>) /\ claim' = claim
  BY DEF QueueFilmFreewaySync
<1>3. /\ job' \in Seq(JobStatus) /\ Len(job') = n + 1
      /\ \A j \in 1..n : job'[j] = job[j]
      /\ job'[n + 1] = "queued"
  BY <1>1, <1>2 DEF JobStatus
<1>4. /\ claims' \in Seq(Nat) /\ Len(claims') = n + 1
      /\ \A j \in 1..n : claims'[j] = claims[j]
      /\ claims'[n + 1] = 0
  BY <1>1, <1>2
<1>5. /\ verdicts' \in Seq(Seq(JobStatus)) /\ Len(verdicts') = n + 1
      /\ \A j \in 1..n : verdicts'[j] = verdicts[j]
      /\ verdicts'[n + 1] = <<>>
  <2>1. <<>> \in Seq(JobStatus)
    OBVIOUS
  <2> QED
    BY <1>1, <1>2, <2>1
<1>6. DOMAIN job = 1..n /\ DOMAIN job' = 1..(n + 1)
  BY <1>1, <1>3
<1>7. ClaimedOnceOneVerdict'
  <2> SUFFICES ASSUME NEW j \in 1..(n + 1)
               PROVE  /\ claims'[j] = IF job'[j] = "queued" THEN 0 ELSE 1
                      /\ verdicts'[j] = IF job'[j] \in {"succeeded", "failed"} THEN <<job'[j]>> ELSE <<>>
    BY <1>6 DEF ClaimedOnceOneVerdict, Jobs
  <2>1. CASE j = n + 1
    BY <1>3, <1>4, <1>5, <2>1
  <2>2. CASE j # n + 1
    <3>1. j \in 1..n
      BY <1>1, <2>2
    <3>2. Settled(j)
      BY <1>6, <3>1 DEF SyncInv, ClaimedOnceOneVerdict, Settled, Jobs
    <3>3. job'[j] = job[j] /\ claims'[j] = claims[j] /\ verdicts'[j] = verdicts[j]
      BY <1>3, <1>4, <1>5, <3>1
    <3> QED
      BY <3>2, <3>3 DEF Settled
  <2> QED
    BY <2>1, <2>2
<1>8. ASSUME NEW r \in Runners PROVE ClaimOK(r)'
  <2>1. ClaimOK(r)
    BY DEF SyncInv
  <2> QED
    BY <1>1, <1>2, <1>3, <1>6, <2>1 DEF ClaimOK, Jobs
<1>9. SyncTypeOK'
  BY <1>1, <1>2, <1>3 DEF SyncInv, SyncTypeOK
<1> QED
  BY <1>3, <1>4, <1>5, <1>7, <1>8, <1>9 DEF SyncInv

\* Lemma: a claim is begun, given up or goes on with the jobs as they are.
LEMMA Claims ==
  ASSUME SyncAssumption, SyncInv, NEW r \in Runners, UNCHANGED <<job, claims, verdicts>>,
         \/ claim' = [claim EXCEPT ![r] = NoClaim]
         \/ /\ claim[r].at \notin {"idle", "claim", "take"}
            /\ \E at \in {"run", "succeeded", "failed"} : claim' = [claim EXCEPT ![r].at = at]
         \/ \E at \in {"claim", "take"}, j \in SkipLocked : claim' = [claim EXCEPT ![r] = [at |-> at, job |-> j]]
  PROVE  SyncInv'
<1>1. /\ claim \in [Runners -> [at : {"idle", "claim", "take", "run", "succeeded", "failed"}, job : 0..MaxJobs]]
      /\ job \in Seq(JobStatus) /\ Len(job) <= MaxJobs /\ MaxJobs \in Nat
      /\ \A q \in Runners : ClaimOK(q)
  BY DEF SyncInv, SyncTypeOK, SyncAssumption
<1>2. CASE claim' = [claim EXCEPT ![r] = NoClaim]
  <2>1. claim' \in [Runners -> [at : {"idle", "claim", "take", "run", "succeeded", "failed"}, job : 0..MaxJobs]]
    BY <1>1, <1>2 DEF NoClaim
  <2>2. ASSUME NEW q \in Runners PROVE ClaimOK(q)'
    BY <1>1, <1>2 DEF ClaimOK, NoClaim, Jobs
  <2> QED
    BY <2>1, <2>2 DEF SyncInv, SyncTypeOK, ClaimedOnceOneVerdict, Jobs
<1>3. ASSUME claim[r].at \notin {"idle", "claim", "take"}, NEW at \in {"run", "succeeded", "failed"}, claim' = [claim EXCEPT ![r].at = at]
      PROVE  SyncInv'
  <2>1. claim' \in [Runners -> [at : {"idle", "claim", "take", "run", "succeeded", "failed"}, job : 0..MaxJobs]]
    BY <1>1, <1>3
  <2>2. ASSUME NEW q \in Runners PROVE ClaimOK(q)'
    BY <1>1, <1>3 DEF ClaimOK, Jobs
  <2> QED
    BY <2>1, <2>2 DEF SyncInv, SyncTypeOK, ClaimedOnceOneVerdict, Jobs
<1>4. ASSUME NEW at \in {"claim", "take"}, NEW j \in SkipLocked, claim' = [claim EXCEPT ![r] = [at |-> at, job |-> j]]
      PROVE  SyncInv'
  <2>1. j \in Jobs /\ j \in 0..MaxJobs /\ job[j] = "queued"
    BY <1>1 DEF SkipLocked, Jobs
  <2>2. \A q \in Runners : claim[q].at \in {"claim", "take"} => claim[q].job # j
    BY DEF SkipLocked, Locked
  <2>3. claim' \in [Runners -> [at : {"idle", "claim", "take", "run", "succeeded", "failed"}, job : 0..MaxJobs]]
    BY <1>1, <1>4, <2>1
  <2>4. ASSUME NEW q \in Runners PROVE ClaimOK(q)'
    BY <1>1, <1>4, <2>1, <2>2 DEF ClaimOK, Jobs
  <2> QED
    BY <2>3, <2>4 DEF SyncInv, SyncTypeOK, ClaimedOnceOneVerdict, Jobs
<1> QED
  BY <1>2, <1>3, <1>4

\* Lemma: a claimed job is handed out.
LEMMA HandsOut == SyncAssumption /\ SyncInv => \A r \in Runners : CommitClaim(r) => SyncInv'
<1> SUFFICES ASSUME SyncAssumption, SyncInv, NEW r \in Runners, CommitClaim(r) PROVE SyncInv'
  OBVIOUS
<1> DEFINE j == claim[r].job
<1>1. /\ claim \in [Runners -> [at : {"idle", "claim", "take", "run", "succeeded", "failed"}, job : 0..MaxJobs]]
      /\ job \in Seq(JobStatus) /\ Len(job) <= MaxJobs /\ MaxJobs \in Nat
      /\ claims \in Seq(Nat) /\ Len(claims) = Len(job) /\ Len(verdicts) = Len(job)
      /\ \A q \in Runners : ClaimOK(q)
  BY DEF SyncInv, SyncTypeOK, SyncAssumption
<1>2. /\ claim[r].at \in {"claim", "take"}
      /\ claim' = [claim EXCEPT ![r] = NoClaim] \/ claim' = [claim EXCEPT ![r].at = "run"]
      /\ job' = [job EXCEPT ![j] = "running"]
      /\ claims' = [claims EXCEPT ![j] = @ + 1]
      /\ verdicts' = verdicts
  BY DEF CommitClaim, Holds, Leave, Move
<1>3. /\ j \in Jobs /\ job[j] = "queued"
      /\ \A q \in Runners \ {r} : claim[q].at \in {"claim", "take"} => claim[q].job # j
  BY <1>1, <1>2 DEF ClaimOK
<1>4. /\ job' \in Seq(JobStatus) /\ Len(job') = Len(job) /\ DOMAIN job' = DOMAIN job
      /\ job'[j] = "running" /\ \A i \in Jobs \ {j} : job'[i] = job[i]
  BY <1>1, <1>2, <1>3 DEF JobStatus, Jobs
<1>5. claims[j] = 0 /\ verdicts[j] = <<>>
  BY <1>3 DEF SyncInv, ClaimedOnceOneVerdict
<1>6. /\ claims' \in Seq(Nat) /\ Len(claims') = Len(claims)
      /\ claims'[j] = 1 /\ \A i \in Jobs \ {j} : claims'[i] = claims[i]
  <2>1. DOMAIN claims = DOMAIN job /\ claims[j] \in Nat
    BY <1>1, <1>3 DEF Jobs
  <2> QED
    BY <1>1, <1>2, <1>3, <1>5, <2>1 DEF Jobs
<1>7. ClaimedOnceOneVerdict'
  <2> SUFFICES ASSUME NEW i \in Jobs PROVE Settled(i)'
    BY <1>4 DEF ClaimedOnceOneVerdict, Settled, Jobs
  <2>1. CASE i = j
    BY <1>2, <1>4, <1>5, <1>6, <2>1 DEF Settled
  <2>2. CASE i # j
    <3>1. Settled(i) /\ job'[i] = job[i] /\ claims'[i] = claims[i] /\ verdicts'[i] = verdicts[i]
      BY <1>2, <1>4, <1>6, <2>2 DEF SyncInv, ClaimedOnceOneVerdict, Settled
    <3> QED
      BY <3>1 DEF Settled
  <2> QED
    BY <2>1, <2>2
<1>8. claim' \in [Runners -> [at : {"idle", "claim", "take", "run", "succeeded", "failed"}, job : 0..MaxJobs]]
  <2>1. CASE claim' = [claim EXCEPT ![r] = NoClaim]
    <3>1. NoClaim \in [at : {"idle", "claim", "take", "run", "succeeded", "failed"}, job : 0..MaxJobs]
      BY <1>1 DEF NoClaim
    <3> QED
      BY <1>1, <2>1, <3>1
  <2>2. CASE claim' = [claim EXCEPT ![r].at = "run"]
    <3>1. [claim[r] EXCEPT !.at = "run"] \in [at : {"idle", "claim", "take", "run", "succeeded", "failed"}, job : 0..MaxJobs]
      BY <1>1
    <3> QED
      BY <1>1, <2>2, <3>1
  <2> QED
    BY <1>2, <2>1, <2>2
<1>9. ASSUME NEW q \in Runners PROVE ClaimOK(q)'
  <2>1. CASE q = r
    BY <1>1, <1>2, <1>3, <1>4, <2>1 DEF ClaimOK, NoClaim, Jobs
  <2>2. CASE q # r
    <3>1. claim'[q] = claim[q] /\ claim'[r].at \notin {"claim", "take"}
      BY <1>1, <1>2, <2>2 DEF NoClaim
    <3>2. \A p \in Runners \ {r} : claim'[p] = claim[p]
      BY <1>1, <1>2
    <3>3. ClaimOK(q) /\ Jobs' = Jobs
      BY <1>1, <1>4 DEF Jobs
    <3>4. ASSUME claim[q].at \in {"claim", "take"}
          PROVE  /\ job'[claim[q].job] = "queued"
                 /\ \A p \in Runners \ {q} : claim'[p].at \in {"claim", "take"} => claim'[p].job # claim[q].job
      <4>1. claim[q].job \in Jobs \ {j} /\ job[claim[q].job] = "queued"
        BY <1>3, <2>2, <3>3, <3>4 DEF ClaimOK
      <4> QED
        BY <1>4, <3>1, <3>2, <3>3, <3>4, <4>1 DEF ClaimOK
    <3> QED
      BY <3>1, <3>3, <3>4 DEF ClaimOK
  <2> QED
    BY <2>1, <2>2
<1> QED
  BY <1>1, <1>2, <1>4, <1>6, <1>7, <1>8, <1>9 DEF SyncInv, SyncTypeOK

\* Lemma: one of those who report is told that the outcome was stored.
LEMMA Stores ==
  ASSUME SyncAssumption, SyncInv, NEW j \in Jobs, job[j] = "running", NEW outcome \in {"succeeded", "failed"},
         StoreOutcome(j, outcome), UNCHANGED claims,
         claim' = claim \/ \E r \in Runners : claim' = [claim EXCEPT ![r] = NoClaim]
  PROVE  SyncInv'
<1>1. /\ job \in Seq(JobStatus) /\ Len(job) <= MaxJobs /\ MaxJobs \in Nat
      /\ verdicts \in Seq(Seq(JobStatus)) /\ Len(claims) = Len(job) /\ Len(verdicts) = Len(job)
      /\ \A q \in Runners : ClaimOK(q)
  BY DEF SyncInv, SyncTypeOK, SyncAssumption
<1>2. job' = [job EXCEPT ![j] = outcome] /\ verdicts' = [verdicts EXCEPT ![j] = Append(@, outcome)]
  BY DEF StoreOutcome
<1>3. /\ job' \in Seq(JobStatus) /\ Len(job') = Len(job) /\ DOMAIN job' = DOMAIN job
      /\ job'[j] = outcome /\ \A i \in Jobs \ {j} : job'[i] = job[i]
  BY <1>1, <1>2 DEF JobStatus, Jobs
<1>4. claims[j] = 1 /\ verdicts[j] = <<>>
  BY DEF SyncInv, ClaimedOnceOneVerdict
<1>5. Append(<<>>, outcome) = <<outcome>> /\ <<outcome>> \in Seq(JobStatus)
  BY DEF JobStatus
<1>6. /\ verdicts' \in Seq(Seq(JobStatus)) /\ Len(verdicts') = Len(verdicts)
      /\ verdicts'[j] = <<outcome>> /\ \A i \in Jobs \ {j} : verdicts'[i] = verdicts[i]
  <2>1. DOMAIN verdicts = DOMAIN job
    BY <1>1
  <2>2. verdicts' = [verdicts EXCEPT ![j] = <<outcome>>]
    BY <1>2, <1>4, <1>5
  <2> QED
    BY <1>1, <1>5, <2>1, <2>2 DEF Jobs
<1>7. ClaimedOnceOneVerdict'
  <2> SUFFICES ASSUME NEW i \in Jobs PROVE Settled(i)'
    BY <1>3 DEF ClaimedOnceOneVerdict, Settled, Jobs
  <2>1. CASE i = j
    BY <1>3, <1>4, <1>6, <2>1 DEF Settled
  <2>2. CASE i # j
    <3>1. Settled(i) /\ job'[i] = job[i] /\ claims'[i] = claims[i] /\ verdicts'[i] = verdicts[i]
      BY <1>3, <1>6, <2>2 DEF SyncInv, ClaimedOnceOneVerdict, Settled
    <3> QED
      BY <3>1 DEF Settled
  <2> QED
    BY <2>1, <2>2
<1>8. /\ claim' \in [Runners -> [at : {"idle", "claim", "take", "run", "succeeded", "failed"}, job : 0..MaxJobs]]
      /\ \A q \in Runners : claim'[q] = claim[q] \/ claim'[q] = NoClaim
  <2>1. claim \in [Runners -> [at : {"idle", "claim", "take", "run", "succeeded", "failed"}, job : 0..MaxJobs]]
    BY DEF SyncInv, SyncTypeOK
  <2>2. NoClaim \in [at : {"idle", "claim", "take", "run", "succeeded", "failed"}, job : 0..MaxJobs]
    BY <1>1 DEF NoClaim
  <2>3. CASE claim' = claim
    BY <2>1, <2>3
  <2>4. ASSUME NEW r \in Runners, claim' = [claim EXCEPT ![r] = NoClaim]
        PROVE  /\ claim' \in [Runners -> [at : {"idle", "claim", "take", "run", "succeeded", "failed"}, job : 0..MaxJobs]]
               /\ \A q \in Runners : claim'[q] = claim[q] \/ claim'[q] = NoClaim
    BY <2>1, <2>2, <2>4
  <2> QED
    BY <2>3, <2>4
<1>9. ASSUME NEW q \in Runners PROVE ClaimOK(q)'
  <2>1. \A p \in Runners : claim'[p].at \in {"claim", "take"} => claim'[p] = claim[p] /\ claim[p].job # j
    BY <1>1, <1>8 DEF ClaimOK, NoClaim
  <2>2. claim'[q].at # "idle" => claim'[q].job \in Jobs'
    BY <1>1, <1>3, <1>8 DEF ClaimOK, NoClaim, Jobs
  <2> QED
    BY <1>1, <1>3, <2>1, <2>2 DEF ClaimOK, Jobs
<1> QED
  BY <1>1, <1>3, <1>6, <1>7, <1>8, <1>9 DEF SyncInv, SyncTypeOK

\* Lemma: every step of the queue keeps the invariant.
LEMMA SyncSteps == SyncAssumption /\ SyncInv /\ SyncNext => SyncInv'
<1> SUFFICES ASSUME SyncAssumption, SyncInv, SyncNext PROVE SyncInv'
  OBVIOUS
<1>1. CASE QueueFilmFreewaySync
  BY <1>1, Queues
<1>2. ASSUME NEW r \in Runners, NEW at \in {"claim", "take"}, ClaimNextFilmFreewaySyncJob(r, at) PROVE SyncInv'
  BY <1>2, Claims DEF ClaimNextFilmFreewaySyncJob
<1>3. ASSUME NEW r \in Runners, CommitClaim(r) PROVE SyncInv'
  BY <1>3, HandsOut
<1>4. ASSUME NEW r \in Runners, RunSync(r) PROVE SyncInv'
  BY <1>4, Claims DEF RunSync, Holds, Move
<1>5. ASSUME NEW r \in Runners, EndRun(r) PROVE SyncInv'
  <2> DEFINE j == claim[r].job
  <2>1. j \in Jobs /\ claim[r].at \in {"succeeded", "failed"} /\ claims' = claims /\ claim' = [claim EXCEPT ![r] = NoClaim]
    BY <1>5 DEF EndRun, Leave, SyncInv, ClaimOK
  <2>2. CASE job[j] # "running"
    BY <1>5, <2>1, <2>2, Claims DEF EndRun, StoreOutcome
  <2>3. CASE job[j] = "running"
    BY <1>5, <2>1, <2>3, Stores DEF EndRun
  <2> QED
    BY <2>2, <2>3
<1>6. ASSUME NEW j \in Jobs, NEW outcome \in {"succeeded", "failed"}, ReportOutcome(j, outcome) PROVE SyncInv'
  BY <1>6, Stores DEF ReportOutcome
<1>7. ASSUME NEW r \in Runners, SyncThrow(r) PROVE SyncInv'
  BY <1>7, Claims DEF SyncThrow, Holds, Move, Leave
<1> QED
  BY <1>1, <1>2, <1>3, <1>4, <1>5, <1>6, <1>7 DEF SyncNext, SyncStep

\* Lemma: a crash ends the requests and leaves the jobs as they are.
LEMMA Crashes == SyncAssumption /\ SyncInv /\ SyncCrash => SyncInv'
<1> SUFFICES ASSUME SyncAssumption, SyncInv, SyncCrash PROVE SyncInv'
  OBVIOUS
<1>1. /\ \A r \in Runners : claim'[r] = NoClaim
      /\ claim' \in [Runners -> [at : {"idle", "claim", "take", "run", "succeeded", "failed"}, job : 0..MaxJobs]]
  BY DEF SyncCrash, NoClaim, SyncAssumption
<1> QED
  BY <1>1 DEF SyncCrash, SyncInv, SyncTypeOK, ClaimOK, NoClaim, ClaimedOnceOneVerdict, Jobs

\* Theorem: the invariant of the sync jobs.
THEOREM SyncInvariance == Spec => []SyncInv
<1>1. Init => SyncInv
  <2> SUFFICES ASSUME Init PROVE SyncInv
    OBVIOUS
  <2>1. job = <<>> /\ claims = <<>> /\ verdicts = <<>> /\ claim = [r \in Runners |-> NoClaim] /\ MaxJobs \in Nat
    BY SyncAssumption DEF Init, SyncInit, SyncAssumption
  <2>2. /\ job \in Seq(JobStatus) /\ claims \in Seq(Nat) /\ verdicts \in Seq(Seq(JobStatus))
        /\ Len(job) = 0 /\ Len(claims) = 0 /\ Len(verdicts) = 0 /\ Jobs = {}
    BY <2>1 DEF Jobs
  <2>3. claim \in [Runners -> [at : {"idle", "claim", "take", "run", "succeeded", "failed"}, job : 0..MaxJobs]]
    BY <2>1 DEF NoClaim
  <2> QED
    BY <2>1, <2>2, <2>3 DEF SyncInv, SyncTypeOK, ClaimOK, NoClaim, ClaimedOnceOneVerdict
<1>2. SyncInv /\ [Next]_vars => SyncInv'
  <2> SUFFICES ASSUME SyncInv, [Next]_vars PROVE SyncInv'
    OBVIOUS
  <2>1. UNCHANGED syncVars => SyncInv'
    BY DEF syncVars, SyncInv, SyncTypeOK, ClaimOK, ClaimedOnceOneVerdict, Jobs
  <2>2. CASE UNCHANGED vars
    BY <2>1, <2>2 DEF vars
  <2>3. ASSUME NEW s \in Submissions, CreateCompetitionSubmission(s) PROVE SyncInv'
    BY <2>1, <2>3 DEF CreateCompetitionSubmission, Judging
  <2>4. ASSUME NEW w \in Workers, Arrival(w) PROVE SyncInv'
    BY <2>1, <2>4 DEF Arrival, AutoAssign, AssignJudges, RecordEvaluation, RunNormalization,
         PublishResults, ProcessDraftSwap, Judging, Organizing
  <2>5. ASSUME NEW w \in Workers, Proceed(w) PROVE SyncInv'
    BY <2>1, <2>5 DEF Proceed, InsertAssignment, UpsertEvaluation, MarkInReview,
         FetchEvaluations, UpdateNormalized, InsertRun, PublishNext, PublishCompetition,
         CommitResults, Announce, SwapScript, RecordSwap, BreakDeadlock, Judging, Organizing
  <2>6. ASSUME NEW w \in Workers, Throw(w) PROVE SyncInv'
    BY <2>1, <2>6 DEF Throw
  <2>7. CASE SyncNext
    BY <2>7, SyncSteps, SyncAssumption
  <2>8. CASE Crash
    BY <2>8, Crashes, SyncAssumption DEF Crash
  <2> QED
    BY <2>2, <2>3, <2>4, <2>5, <2>6, <2>7, <2>8 DEF Next
<1> QED
  BY <1>1, <1>2, PTL DEF Spec

\* Theorem: however many claim and report at the same time, and whatever fails, a job is
\* handed to one runner and one verdict on it is stored.
THEOREM OneRunnerOneVerdict == Spec => []ClaimedOnceOneVerdict
<1>1. SyncInv => ClaimedOnceOneVerdict
  BY DEF SyncInv
<1> QED
  BY <1>1, SyncInvariance, PTL

-----------------------------------------------------------------------------
(* Publication.                                                             *)

\* Every row of partner_submissions has its columns.
PubInv ==
  /\ PublishedWhole
  /\ \A s \in Entered : sub[s] = [status |-> sub[s].status, script |-> sub[s].script]

\* Lemma: an update of submissions that publishes none needs no result.
LEMMA NothingPublished ==
  ASSUME PubInv, UNCHANGED <<results, competition>>,
         \A s \in DOMAIN sub' :
           /\ sub'[s].status = "published" => s \in Entered /\ sub[s].status = "published"
           /\ sub'[s] = [status |-> sub'[s].status, script |-> sub'[s].script]
  PROVE  PubInv'
BY DEF PubInv, PublishedWhole, Entered

\* Theorem: whatever publications, swaps and evaluations overlap, and wherever they fail,
\* a published submission has its result and a result its published competition.
THEOREM ResultsAreWhole == Spec => []PublishedWhole
<1>1. Init => PubInv
  BY DEF Init, PubInv, PublishedWhole, Entered
<1>2. PubInv /\ [Next]_vars => PubInv'
  <2> SUFFICES ASSUME PubInv, [Next]_vars PROVE PubInv'
    OBVIOUS
  <2>1. UNCHANGED <<sub, results, competition>> => PubInv'
    BY DEF PubInv, PublishedWhole, Entered
  <2>2. CASE UNCHANGED vars
    BY <2>1, <2>2 DEF vars, tables
  <2>3. ASSUME NEW s \in Submissions, CreateCompetitionSubmission(s) PROVE PubInv'
    <3>1. /\ UNCHANGED <<results, competition>> /\ DOMAIN sub' = Entered \cup {s}
          /\ \A t \in DOMAIN sub' : sub'[t] = IF t \in Entered THEN sub[t]
                                            ELSE [status |-> "received", script |-> "original"]
      BY <2>3 DEF CreateCompetitionSubmission, Judging, Entered
    <3> QED
      BY <3>1, NothingPublished DEF PubInv
  <2>4. ASSUME NEW w \in Workers, Arrival(w) PROVE PubInv'
    BY <2>1, <2>4 DEF Arrival, AutoAssign, AssignJudges, RecordEvaluation, RunNormalization,
         PublishResults, ProcessDraftSwap, Judging, Organizing
  <2>5. ASSUME NEW w \in Workers, MarkInReview(w) PROVE PubInv'
    <3>1. /\ UNCHANGED <<results, competition>> /\ DOMAIN sub' = Entered
          /\ \E t : \A s \in Entered :
               sub'[s] = IF s = t THEN [sub[s] EXCEPT !.status = "in_review"] ELSE sub[s]
      BY <2>5 DEF MarkInReview, Judging, Entered
    <3> QED
      BY <3>1, NothingPublished DEF PubInv
  <2>6. ASSUME NEW w \in Workers, RecordSwap(w) PROVE PubInv'
    <3>1. /\ UNCHANGED <<results, competition>> /\ DOMAIN sub' = Entered
          /\ \E t, script : \A s \in Entered :
               sub'[s] = IF s = t THEN [sub[s] EXCEPT !.script = script] ELSE sub[s]
      <4>1. PICK t \in DOMAIN req[w].rows : sub' = [sub EXCEPT ![t].script = req[w].rows[t].script]
        BY <2>6 DEF RecordSwap
      <4>2. UNCHANGED <<results, competition>>
        BY <2>6 DEF RecordSwap
      <4>3. /\ DOMAIN sub' = Entered
            /\ \A s \in Entered : sub'[s] = IF s = t THEN [sub[s] EXCEPT !.script = req[w].rows[t].script] ELSE sub[s]
        BY <4>1 DEF Entered
      <4> QED
        BY <4>2, <4>3
    <3> QED
      BY <3>1, NothingPublished DEF PubInv
  <2>7. ASSUME NEW w \in Workers, CommitResults(w) PROVE PubInv'
    <3>1. /\ competition' = "published" /\ DOMAIN sub' = Entered
          /\ \E published : /\ results' = results \cup published
                            /\ \A s \in Entered : sub'[s] = IF s \in published
                                 THEN [sub[s] EXCEPT !.status = "published"] ELSE sub[s]
      BY <2>7 DEF CommitResults, Entered
    <3> QED
      BY <3>1 DEF PubInv, PublishedWhole, Entered
  <2>8. ASSUME NEW w \in Workers, Proceed(w) PROVE PubInv'
    BY <2>1, <2>5, <2>6, <2>7, <2>8 DEF Proceed, InsertAssignment, UpsertEvaluation,
         FetchEvaluations, UpdateNormalized, InsertRun, PublishNext, PublishCompetition,
         Announce, SwapScript, BreakDeadlock, tables, Judging, Organizing
  <2>9. ASSUME NEW w \in Workers, Throw(w) PROVE PubInv'
    BY <2>1, <2>9 DEF Throw, tables
  <2>10. CASE SyncNext /\ UNCHANGED <<tables, req, requests, settled>>
    BY <2>1, <2>10 DEF tables
  <2>11. CASE Crash
    BY <2>1, <2>11 DEF Crash, tables
  <2> QED
    BY <2>2, <2>3, <2>4, <2>8, <2>9, <2>10, <2>11 DEF Next
<1>3. PubInv => PublishedWhole
  BY DEF PubInv
<1> QED
  BY <1>1, <1>2, <1>3, PTL DEF Spec

-----------------------------------------------------------------------------
(* Normalization: what Normalized computes.                                 *)

\* Lemma: cutting off leaves a score in 0..100, keeps the order, and changes no other score.
LEMMA ClampedIs ==
  ASSUME Scale \in Nat, NEW score \in Int
  PROVE  Clamped(score) = IF score < 0 THEN 0 ELSE IF score > 100 * Scale THEN 100 * Scale ELSE score
<1> DEFINE top == 100 * Scale
<1>1. top \in Nat
  OBVIOUS
<1> HIDE DEF top
<1>2. Min({top, score}) = IF score > top THEN top ELSE score
  <2>1. ASSUME NEW a \in {top, score}, \A b \in {top, score} : a =< b
        PROVE  a = IF score > top THEN top ELSE score
    BY <1>1, <2>1
  <2>2. \E a \in {top, score} : \A b \in {top, score} : a =< b
    BY <1>1
  <2> QED
    BY <2>1, <2>2 DEF Min
<1> DEFINE low == Min({top, score})
<1>3. low \in Int
  BY <1>1, <1>2
<1> HIDE DEF low
<1>4. Max({0, low}) = IF low < 0 THEN 0 ELSE low
  <2>1. ASSUME NEW a \in {0, low}, \A b \in {0, low} : a >= b
        PROVE  a = IF low < 0 THEN 0 ELSE low
    BY <1>3, <2>1
  <2>2. \E a \in {0, low} : \A b \in {0, low} : a >= b
    BY <1>3
  <2> QED
    BY <2>1, <2>2 DEF Max
<1>5. Clamped(score) = Max({0, low})
  BY DEF Clamped, low, top
<1>6. low = IF score > top THEN top ELSE score
  BY <1>2 DEF low
<1>7. Clamped(score) = IF score < 0 THEN 0 ELSE IF score > top THEN top ELSE score
  BY <1>1, <1>4, <1>5, <1>6
<1> QED
  BY <1>7 DEF top

\* Lemma: what divides the scale divides its multiples.
LEMMA DividesExactly ==
  ASSUME NEW n \in Nat \ {0}, NEW scale \in Nat, scale % n = 0, NEW t \in Int
  PROVE  ((scale * t) \div n) * n = scale * t
<1> DEFINE q == scale \div n
           x == scale * t
           d == x \div n
<1>1. q \in Int /\ scale = n * q
  OBVIOUS
<1>2. x \in Int /\ d \in Int /\ x = n * d + (x % n) /\ x % n \in 0..(n - 1)
  OBVIOUS
<1> DEFINE e == d - q * t
           r == x % n
<1>3. e \in Int /\ n * e = - r
  <2>1. x = n * (q * t)
    <3> SUFFICES ASSUME NEW u \in Int PROVE (n * u) * t = n * (u * t)
      BY <1>1
    <3> QED
      OBVIOUS
  <2>2. q * t \in Int
    BY <1>1
  <2> HIDE DEF q, x, d
  <2>3. n * (d - q * t) = n * d - n * (q * t)
    BY <1>2, <2>2
  <2> QED
    BY <1>2, <2>1, <2>2, <2>3
<1>4. e = 0
  <2> HIDE DEF e, r
  <2>1. r \in 0..(n - 1)
    BY <1>2 DEF r
  <2>2. e >= 1 => n * e >= n
    BY <1>3
  <2>3. e <= -1 => n * e <= - n
    BY <1>3
  <2> QED
    BY <1>3, <2>1, <2>2, <2>3
<1>5. d * n = x
  <2>1. r = 0
    <3>1. n * e = 0
      BY <1>4
    <3> QED
      BY <1>2, <1>3, <3>1
  <2> HIDE DEF x, d
  <2> QED
    BY <1>2, <2>1
<1> QED
  BY <1>5

\* Lemma: there are so few evaluations that the scale divides by any number of them.
LEMMA ScaleDivides ==
  ASSUME NEW keys \in SUBSET (Submissions \X Judges)
  PROVE  /\ IsFiniteSet(keys)
         /\ keys # {} => Cardinality(keys) \in Nat \ {0} /\ Scale % Cardinality(keys) = 0
<1>1. IsFiniteSet(Submissions) /\ IsFiniteSet(Judges)
  <2>1. IsFiniteSet(DOMAIN JudgeList)
    BY PartnerAssumption, FS_Interval DEF PartnerAssumption
  <2>2. JudgeList \in Surjection(DOMAIN JudgeList, Judges)
    BY PartnerAssumption DEF PartnerAssumption, Judges, Range, Surjection
  <2> QED
    BY <2>1, <2>2, FS_Surjection, PartnerAssumption DEF PartnerAssumption
<1> DEFINE all == Submissions \X Judges
           most == Cardinality(Submissions) * Cardinality(Judges)
<1>2. IsFiniteSet(all) /\ Cardinality(all) = most /\ most \in Nat
  BY <1>1, FS_Product, FS_CardinalityType
<1>3. IsFiniteSet(keys) /\ Cardinality(keys) <= most
  BY <1>2, FS_Subset
<1>4. ASSUME keys # {} PROVE Cardinality(keys) \in 1..most
  BY <1>2, <1>3, <1>4, FS_CardinalityType, FS_EmptySet
<1>5. \A n \in 1..most : Scale % n = 0
  BY PartnerAssumption DEF PartnerAssumption
<1> QED
  BY <1>2, <1>3, <1>4, <1>5

\* Lemma: means are exact in 1 / Scale.
LEMMA MeanIsExact ==
  ASSUME NEW keys \in SUBSET (Submissions \X Judges), keys # {},
         NEW rows, \A key \in keys : rows[key] \in Int
  PROVE  /\ SumOver(rows, keys) \in Int /\ Mean(rows, keys) \in Int
         /\ Mean(rows, keys) * Cardinality(keys) = Scale * SumOver(rows, keys)
<1> DEFINE n == Cardinality(keys)
           sum == SumOver(rows, keys)
<1>1. IsFiniteSet(keys) /\ n \in Nat \ {0} /\ Scale % n = 0
  BY ScaleDivides
<1>2. sum \in Int
  BY <1>1, SumIsInt
<1>3. Scale \in Nat
  BY PartnerAssumption DEF PartnerAssumption
<1>4. Mean(rows, keys) = (Scale * sum) \div n
  BY DEF Mean
<1> HIDE DEF n, sum
<1>5. ((Scale * sum) \div n) * n = Scale * sum
  BY <1>1, <1>2, <1>3, DividesExactly
<1>6. (Scale * sum) \div n \in Int
  <2>1. Scale * sum \in Int
    BY <1>2, <1>3
  <2> QED
    BY <1>1, <2>1
<1> QED
  BY <1>2, <1>4, <1>5, <1>6 DEF n, sum

\* What is added to a score of a judge.
Shift(rows, own) == Mean(rows, DOMAIN rows) - Mean(rows, own)

\* Lemma: what a score is normalized to, cut off or not.
LEMMA NormalizedIs ==
  ASSUME NEW rows, DOMAIN rows \subseteq Submissions \X Judges,
         \A key \in DOMAIN rows : rows[key] \in Int,
         NEW key \in DOMAIN rows
  PROVE  LET own == ByJudge(rows, key[2])
             score == Scale * rows[key] + Shift(rows, own)
         IN /\ own \in SUBSET DOMAIN rows /\ own # {}
            /\ Shift(rows, own) \in Int /\ score \in Int
            /\ Normalized(rows, key) = IF score < 0 THEN 0 ELSE IF score > 100 * Scale THEN 100 * Scale ELSE score
            /\ Normalized(rows, key) \in 0..(100 * Scale)
<1> DEFINE own == ByJudge(rows, key[2])
           all == DOMAIN rows
           score == Scale * rows[key] + Shift(rows, own)
<1>1. own \in SUBSET all /\ key \in own
  BY DEF ByJudge
<1>2. Mean(rows, all) \in Int /\ Mean(rows, own) \in Int
  <2>1. own \in SUBSET (Submissions \X Judges) /\ own # {} /\ \A k \in own : rows[k] \in Int
    BY <1>1
  <2> HIDE DEF own
  <2> QED
    BY <2>1, MeanIsExact
<1>3. Scale \in Nat /\ rows[key] \in Int
  BY PartnerAssumption DEF PartnerAssumption
<1>4. Shift(rows, own) = Mean(rows, all) - Mean(rows, own)
  BY DEF Shift
<1>5. Normalized(rows, key) = Clamped(Scale * rows[key] + Mean(rows, all) - Mean(rows, own))
  BY DEF Normalized
<1> HIDE DEF own, all
<1>6. Shift(rows, own) \in Int /\ score \in Int
  BY <1>2, <1>3, <1>4
<1>7. score = Scale * rows[key] + Mean(rows, all) - Mean(rows, own)
  <2>1. Scale * rows[key] \in Int
    BY <1>3
  <2> QED
    BY <1>2, <1>4, <2>1
<1> HIDE DEF score
<1>8. Normalized(rows, key) = IF score < 0 THEN 0 ELSE IF score > 100 * Scale THEN 100 * Scale ELSE score
  BY <1>3, <1>5, <1>6, <1>7, ClampedIs
<1>9. Normalized(rows, key) \in 0..(100 * Scale)
  BY <1>3, <1>6, <1>8
<1> QED
  BY <1>1, <1>6, <1>8, <1>9 DEF own, all, score

\* Lemma: normalized scores are fair, whatever the evaluations.
LEMMA FairlyNormalized ==
  ASSUME NEW rows, DOMAIN rows \subseteq Submissions \X Judges,
         \A key \in DOMAIN rows : rows[key] \in Int,
         NEW norm, DOMAIN norm = DOMAIN rows,
         \A key \in DOMAIN rows : norm[key] = Normalized(rows, key)
  PROVE  /\ \A key \in DOMAIN rows : norm[key] \in 0..(100 * Scale)
         /\ \A k, l \in DOMAIN rows : k[2] = l[2] /\ rows[k] < rows[l] => norm[k] <= norm[l]
         /\ (\A key \in DOMAIN rows : norm[key] \notin {0, 100 * Scale}) =>
              \A k, l \in DOMAIN rows :
                SumOver(norm, ByJudge(norm, k[2])) * Cardinality(ByJudge(norm, l[2]))
                  = SumOver(norm, ByJudge(norm, l[2])) * Cardinality(ByJudge(norm, k[2]))
<1> DEFINE all == DOMAIN rows
           Score(key) == Scale * rows[key] + Shift(rows, ByJudge(rows, key[2]))
<1>1. Scale \in Nat
  BY PartnerAssumption DEF PartnerAssumption
<1>2. ASSUME NEW key \in all
      PROVE  /\ ByJudge(rows, key[2]) \in SUBSET all /\ ByJudge(rows, key[2]) # {}
             /\ Shift(rows, ByJudge(rows, key[2])) \in Int /\ Score(key) \in Int
             /\ norm[key] = IF Score(key) < 0 THEN 0
                            ELSE IF Score(key) > 100 * Scale THEN 100 * Scale ELSE Score(key)
             /\ norm[key] \in 0..(100 * Scale)
  BY NormalizedIs
<1>3. ASSUME NEW k \in all, NEW l \in all, k[2] = l[2], rows[k] < rows[l]
      PROVE  norm[k] <= norm[l]
  <2> DEFINE d == Shift(rows, ByJudge(rows, k[2]))
  <2>1. d \in Int /\ rows[k] \in Int /\ rows[l] \in Int
    BY <1>2
  <2>2. Score(k) = Scale * rows[k] + d /\ Score(l) = Scale * rows[l] + d
    BY <1>3
  <2> HIDE DEF d
  <2>3. Scale * rows[k] <= Scale * rows[l]
    BY <1>1, <1>3, <2>1
  <2>4. Score(k) <= Score(l)
    BY <1>1, <2>1, <2>2, <2>3
  <2> HIDE DEF Score
  <2> QED
    BY <1>1, <1>2, <2>4
<1>4. ASSUME \A key \in all : norm[key] \notin {0, 100 * Scale}, NEW k \in all
      PROVE  /\ Cardinality(ByJudge(norm, k[2])) \in Nat
             /\ SumOver(norm, ByJudge(norm, k[2])) = Mean(rows, all) * Cardinality(ByJudge(norm, k[2]))
  <2> DEFINE own == ByJudge(rows, k[2])
             n == Cardinality(own)
             d == Shift(rows, own)
             sum == SumOver(rows, own)
             of == Mean(rows, own)
             M == Mean(rows, all)
  <2>1. ByJudge(norm, k[2]) = own
    BY DEF ByJudge
  <2>2. own \in SUBSET all /\ own # {} /\ d \in Int /\ all # {}
    BY <1>2
  <2>3. \A key \in own : key \in all /\ ByJudge(rows, key[2]) = own
    BY DEF ByJudge
  <2>4. \A key \in own : norm[key] = Scale * rows[key] + d
    <3> SUFFICES ASSUME NEW key \in own PROVE norm[key] = Score(key)
      BY <2>3
    <3>1. key \in all
      BY <2>3
    <3>2. norm[key] \notin {0, 100 * Scale}
      BY <1>4, <3>1
    <3> HIDE DEF Score, own, all
    <3> QED
      BY <1>1, <1>2, <3>1, <3>2
  <2>5. own \in SUBSET (Submissions \X Judges) /\ \A key \in own : rows[key] \in Int
    BY <2>2
  <2>6. all \in SUBSET (Submissions \X Judges) /\ \A key \in all : rows[key] \in Int
    OBVIOUS
  <2> HIDE DEF own, all
  <2>7. IsFiniteSet(own) /\ n \in Nat
    BY <2>2, <2>5, ScaleDivides
  <2>8. sum \in Int /\ of \in Int /\ of * n = Scale * sum
    BY <2>2, <2>5, MeanIsExact
  <2>9. M \in Int
    BY <2>2, <2>6, MeanIsExact
  <2>10. SumOver(norm, own) = Scale * sum + d * n
    BY <1>1, <2>2, <2>4, <2>5, <2>7, SumShifts
  <2>11. d = M - of
    BY DEF Shift, all
  <2> HIDE DEF n, d, sum, of, M
  <2>12. SumOver(norm, own) = of * n + (M - of) * n
    BY <2>8, <2>10, <2>11
  <2>13. of * n + (M - of) * n = M * n
    <3> SUFFICES ASSUME NEW a \in Int, NEW b \in Int, NEW m \in Nat PROVE a * m + (b - a) * m = b * m
      BY <2>7, <2>8, <2>9
    <3> QED
      OBVIOUS
  <2> QED
    BY <2>1, <2>7, <2>12, <2>13 DEF n, M
<1>5. ASSUME \A key \in all : norm[key] \notin {0, 100 * Scale}, NEW k \in all, NEW l \in all
      PROVE  SumOver(norm, ByJudge(norm, k[2])) * Cardinality(ByJudge(norm, l[2]))
               = SumOver(norm, ByJudge(norm, l[2])) * Cardinality(ByJudge(norm, k[2]))
  <2> DEFINE M == Mean(rows, all)
             m == Cardinality(ByJudge(norm, k[2]))
             n == Cardinality(ByJudge(norm, l[2]))
  <2>1. M \in Int
    <3>1. all \in SUBSET (Submissions \X Judges) /\ all # {}
      OBVIOUS
    <3> QED
      BY <3>1, MeanIsExact
  <2>2. /\ m \in Nat /\ SumOver(norm, ByJudge(norm, k[2])) = M * m
        /\ n \in Nat /\ SumOver(norm, ByJudge(norm, l[2])) = M * n
    BY <1>4, <1>5
  <2> HIDE DEF M, m, n
  <2>3. (M * m) * n = (M * n) * m
    BY <2>1, <2>2
  <2> QED
    BY <2>2, <2>3 DEF m, n
<1> QED
  BY <1>2, <1>3, <1>5

-----------------------------------------------------------------------------
(* The competition: types, what requests know, scripts and scores.          *)

Submission == [status : Status, script : Scripts \cup {"original"}]
Evaluation == [raw : Scores, norm : -1..(100 * Scale)]

TablesOK ==
  /\ Entered \subseteq Submissions /\ sub \in [Entered -> Submission]
  /\ competition \in {"open", "published"}
  /\ assigned \subseteq Entered \X Judges
  /\ DOMAIN eval \subseteq Entered \X Judges /\ eval \in [DOMAIN eval -> Evaluation]
  /\ results \subseteq Entered /\ recomputed \subseteq Entered
  /\ swaps \subseteq [submission : Entered, script : Scripts, created : Nat, recorded : Nat]

\* What request q may rely on, given the submissions entered and the pairs evaluated.
Knows(q, entered, evaluated) ==
  /\ q \in [at : Step, list : {q.list}, rows : {q.rows}, clean : BOOLEAN]
  /\ q.at = "assign" => q.list \in Seq(entered \X Judges) /\ q.list # <<>>
  /\ q.at = "evaluation" => \A key \in DOMAIN q.rows : key \in entered \X Judges /\ q.rows[key] \in Scores
  /\ q.at = "status" => q.list[1] \in entered
  /\ q.at = "normalize" => \A key \in DOMAIN q.rows : key \in evaluated /\ q.rows[key] \in 0..(100 * Scale)
  /\ q.at = "publish" => q.list \in Seq(Submissions) /\ q.list # <<>>
  /\ q.at \in {"publish", "competition", "commit", "announce"} => DOMAIN q.rows \subseteq entered
  /\ q.at \in {"swap", "record"} => 
       \A s \in DOMAIN q.rows : s \in entered /\ q.rows[s] \in [script : Scripts, created : Nat]

RawScores(rows) == [key \in DOMAIN rows |-> rows[key].raw]

\* These evaluations have the score that a normalization of all gives them.
Treated(rows, keys) == \A key \in keys : rows[key].norm = Normalized(RawScores(rows), key)

\* A normalization that has the evaluations to itself has treated those that are not left,
\* and holds the right scores of the others.
Treating(q, rows) ==
  q.clean =>
    /\ q.at = "normalize" =>
         /\ Treated(rows, DOMAIN rows \ DOMAIN q.rows)
         /\ \A key \in DOMAIN q.rows : q.rows[key] = Normalized(RawScores(rows), key)
    /\ q.at = "run" => Treated(rows, DOMAIN rows)

IInv ==
  /\ TablesOK
  /\ req = [w \in Workers |-> req[w]]
  /\ \A w \in Workers : Knows(req[w], Entered, DOMAIN eval) /\ Treating(req[w], eval)
  /\ settled \in BOOLEAN /\ (settled => Treated(eval, DOMAIN eval))
  /\ ScriptIsRecorded

\* No swap has a time to come.
TimesOK ==
  /\ requests \in Nat
  /\ \A w \in Workers : req[w].at \in {"swap", "record"} =>
       \A s \in DOMAIN req[w].rows : req[w].rows[s].created \in 1..requests
  /\ \A swap \in swaps : swap.created \in 1..requests /\ swap.recorded \in 1..requests

\* Lemma: a request goes on, and nobody relies on what it writes.
LEMMA GoesOn ==
  ASSUME IInv, NEW w \in Workers, NEW q, req' = [req EXCEPT ![w] = q],
         UNCHANGED <<eval, settled>>, Entered' = Entered, TablesOK', ScriptIsRecorded',
         Knows(q, Entered, DOMAIN eval), Treating(q, eval)
  PROVE  IInv'
<1>1. req' = [v \in Workers |-> req'[v]] /\ \A v \in Workers : req'[v] = IF v = w THEN q ELSE req[v]
  BY DEF IInv
<1>2. \A v \in Workers : Knows(req'[v], Entered, DOMAIN eval) /\ Treating(req'[v], eval)
  BY <1>1 DEF IInv
<1> QED
  BY <1>1, <1>2 DEF IInv

\* Lemma: a request goes on and writes nothing.
LEMMA ReadsOn ==
  ASSUME IInv, NEW w \in Workers, NEW q, req' = [req EXCEPT ![w] = q],
         UNCHANGED <<sub, competition, assigned, eval, results, swaps, recomputed, settled>>,
         Knows(q, Entered, DOMAIN eval), Treating(q, eval)
  PROVE  IInv'
<1>1. Entered' = Entered
  BY DEF Entered
<1>2. TablesOK'
  BY <1>1 DEF IInv, TablesOK
<1>3. ScriptIsRecorded'
  BY <1>1 DEF IInv, ScriptIsRecorded
<1> QED
  BY <1>1, <1>2, <1>3, GoesOn

\* Lemma: no swap is recorded and no script changes.
LEMMA ScriptsStay ==
  ASSUME IInv, Entered' = Entered, swaps' = swaps, \A t \in Entered : sub'[t].script = sub[t].script
  PROVE  ScriptIsRecorded'
BY DEF IInv, ScriptIsRecorded

\* Lemma: without a request there is nothing to know.
LEMMA IdleKnows ==
  \A S, K, rows : Knows(Idle, S, K) /\ Treating(Idle, rows)
BY DEF Idle, Knows, Treating, Step

\* Lemma: a request ends and writes nothing.
LEMMA Ends ==
  ASSUME IInv, NEW w \in Workers, Done(w), UNCHANGED <<tables, settled>>
  PROVE  IInv'
BY IdleKnows, ReadsOn DEF Done, Resume, tables

\* Lemma: what is known of some submissions and evaluations holds of more.
LEMMA KnowsLasts ==
  ASSUME NEW q, NEW S, NEW T, S \subseteq T, NEW K, NEW L, K \subseteq L, Knows(q, S, K)
  PROVE  Knows(q, T, L)
<1>1. q.at = "assign" => q.list \in Seq(T \X Judges) /\ q.list # <<>>
  <2>1. S \X Judges \subseteq T \X Judges
    OBVIOUS
  <2> QED
    BY <2>1 DEF Knows
<1> QED
  BY <1>1 DEF Knows

\* Lemma: automatic assignment gives each submission listed a judge.
LEMMA FillIsAssignable ==
  ASSUME NEW S, IsFiniteSet(S), NEW order \in SetToAllKPermutations(S), order # <<>>
  PROVE  Fill(order) \in Seq(S \X Judges) /\ Fill(order) # <<>>
<1>1. PICK part \in SUBSET S : order \in SetToSeqs(part)
  BY DEF SetToAllKPermutations
<1> DEFINE n == Cardinality(part)
           m == MaxPerJudge * Len(JudgeList)
           k == Min({n, m})
<1>2. n \in Nat /\ order \in [1..n -> part]
  BY <1>1, FS_Subset, FS_CardinalityType DEF SetToSeqs
<1>3. n # 0 /\ Len(order) = n
  BY <1>2
<1>4. JudgeList \in Seq(Judges) /\ JudgeList # <<>> /\ MaxPerJudge \in Nat \ {0}
  BY PartnerAssumption DEF PartnerAssumption
<1>5. m \in Nat \ {0}
  <2>1. Len(JudgeList) \in Nat \ {0}
    BY <1>4
  <2> QED
    BY <1>4, <2>1
<1> HIDE DEF n, m
<1>6. k = IF n <= m THEN n ELSE m
  <2>1. ASSUME NEW a \in {n, m}, \A b \in {n, m} : a =< b PROVE a = IF n <= m THEN n ELSE m
    BY <1>2, <1>5, <2>1
  <2>2. \E a \in {n, m} : \A b \in {n, m} : a =< b
    BY <1>2, <1>5
  <2> QED
    BY <2>1, <2>2 DEF Min
<1>7. k \in Nat \ {0} /\ k <= n /\ k <= m
  BY <1>2, <1>3, <1>5, <1>6
<1>8. Fill(order) = [i \in 1..k |-> <<order[i], JudgeList[(i - 1) \div MaxPerJudge + 1]>>]
  BY <1>3 DEF Fill, m
<1> HIDE DEF k
<1>9. ASSUME NEW i \in 1..k
      PROVE  <<order[i], JudgeList[(i - 1) \div MaxPerJudge + 1]>> \in S \X Judges
  <2>1. order[i] \in S
    BY <1>2, <1>7
  <2> DEFINE d == (i - 1) \div MaxPerJudge
             j == Len(JudgeList)
  <2>2. d \in Nat /\ MaxPerJudge * d <= i - 1
    BY <1>4, <1>7
  <2>3. j \in Nat /\ i - 1 < MaxPerJudge * j
    BY <1>4, <1>7 DEF m
  <2> HIDE DEF d, j
  <2>4. d < j
    <3>1. d >= j => MaxPerJudge * d >= MaxPerJudge * j
      BY <1>4, <2>2, <2>3
    <3>2. MaxPerJudge * d \in Int /\ MaxPerJudge * j \in Int
      BY <1>4, <2>2, <2>3
    <3> QED
      BY <1>7, <2>2, <2>3, <3>1, <3>2
  <2>5. d + 1 \in 1..j
    BY <2>2, <2>3, <2>4
  <2>6. JudgeList[d + 1] \in Judges
    BY <1>4, <2>5 DEF j
  <2> QED
    BY <2>1, <2>6 DEF d
<1> QED
  BY <1>7, <1>8, <1>9

\* Lemma: there are finitely many submissions, and raw scores are numbers.
LEMMA Evaluations ==
  ASSUME TablesOK
  PROVE  /\ IsFiniteSet(Entered)
         /\ DOMAIN RawScores(eval) = DOMAIN eval /\ DOMAIN eval \subseteq Submissions \X Judges
         /\ \A key \in DOMAIN eval : RawScores(eval)[key] \in Int
<1>1. Entered \subseteq Submissions /\ IsFiniteSet(Submissions) /\ Scores \subseteq 0..100
  BY PartnerAssumption DEF TablesOK, PartnerAssumption
<1>2. ASSUME NEW key \in DOMAIN eval PROVE eval[key].raw \in 0..100
  <2>1. eval[key] \in Evaluation
    BY DEF TablesOK
  <2> QED
    BY <1>1, <2>1 DEF Evaluation
<1>3. Entered \X Judges \subseteq Submissions \X Judges
  BY <1>1
<1>4. DOMAIN eval \subseteq Submissions \X Judges
  BY <1>3 DEF TablesOK
<1> QED
  BY <1>1, <1>2, <1>4, FS_Subset DEF RawScores

\* Lemma: initially nothing is stored.
LEMMA InitHolds == Init => IInv
<1> SUFFICES ASSUME Init PROVE IInv
  OBVIOUS
<1>1. Entered = {} /\ DOMAIN eval = {}
  BY DEF Init, Entered
<1>2. TablesOK
  BY <1>1 DEF Init, TablesOK
<1> QED
  BY <1>1, <1>2, IdleKnows DEF Init, IInv, ScriptIsRecorded

\* Lemma: one more submission.
LEMMA CreateKeeps ==
  ASSUME IInv, NEW s \in Submissions, CreateCompetitionSubmission(s)
  PROVE  IInv'
<1> DEFINE new == [status |-> "received", script |-> "original"]
<1>1. /\ s \notin Entered /\ Entered' = Entered \cup {s}
      /\ sub' = [t \in Entered \cup {s} |-> IF t = s THEN new ELSE sub[t]]
      /\ UNCHANGED <<competition, results, swaps, recomputed, assigned, eval, req, settled>>
  BY DEF CreateCompetitionSubmission, Judging, Entered
<1>2. new \in Submission
  BY DEF Submission, Status
<1>3. TablesOK'
  <2>1. sub' \in [Entered' -> Submission]
    BY <1>1, <1>2 DEF IInv, TablesOK
  <2>2. Entered \X Judges \subseteq Entered' \X Judges
    BY <1>1
  <2>3. swaps' \subseteq [submission : Entered', script : Scripts, created : Nat, recorded : Nat]
    BY <1>1 DEF IInv, TablesOK
  <2>4. /\ assigned' \subseteq Entered' \X Judges /\ DOMAIN eval' \subseteq Entered' \X Judges
        /\ Entered' \subseteq Submissions /\ results' \subseteq Entered' /\ recomputed' \subseteq Entered'
    BY <1>1, <2>2 DEF IInv, TablesOK
  <2>5. competition' \in {"open", "published"} /\ eval' \in [DOMAIN eval' -> Evaluation]
    BY <1>1 DEF IInv, TablesOK
  <2> QED
    BY <2>1, <2>3, <2>4, <2>5 DEF TablesOK
<1>4. ScriptIsRecorded'
  <2>1. {swap \in swaps' : swap.submission = s} = {}
    BY <1>1 DEF IInv, TablesOK
  <2>2. ASSUME NEW t \in Entered', t # s
        PROVE  t \in Entered /\ sub'[t] = sub[t] /\ swaps' = swaps
    BY <1>1, <2>2
  <2>3. sub'[s].script = "original"
    BY <1>1
  <2> QED
    BY <2>1, <2>2, <2>3 DEF IInv, ScriptIsRecorded
<1>5. \A w \in Workers : Knows(req[w], Entered', DOMAIN eval)
  BY <1>1, KnowsLasts DEF IInv
<1> QED
  BY <1>1, <1>3, <1>4, <1>5 DEF IInv

\* Lemma: a request begins.
LEMMA ArrivalKeeps ==
  ASSUME IInv, TimesOK, NEW w \in Workers, Arrival(w)
  PROVE  IInv'
<1>1. IsFiniteSet(Entered)
  BY Evaluations DEF IInv
<1>2. CASE AutoAssign(w)
  <2>1. PICK order \in SetToAllKPermutations(Entered) :
          order # <<>> /\ Begin(w, [Idle EXCEPT !.at = "assign", !.list = Fill(order)])
    BY <1>2 DEF AutoAssign
  <2>2. Fill(order) \in Seq(Entered \X Judges) /\ Fill(order) # <<>>
    BY <1>1, <2>1, FillIsAssignable
  <2> DEFINE q == [Idle EXCEPT !.at = "assign", !.list = Fill(order)]
  <2>3. q \in [at : {"assign"}, list : {Fill(order)}, rows : {<<>>}, clean : {FALSE}]
    BY DEF Idle
  <2>4. Knows(q, Entered, DOMAIN eval) /\ Treating(q, eval)
    BY <2>2, <2>3 DEF Knows, Treating, Step
  <2>5. req' = [req EXCEPT ![w] = q] /\ UNCHANGED <<sub, competition, assigned, eval, results, swaps, recomputed, settled>>
    BY <1>2, <2>1 DEF AutoAssign, Begin, Judging
  <2> HIDE DEF q
  <2> QED
    BY <2>4, <2>5, ReadsOn
<1>3. ASSUME NEW s \in Submissions, NEW j \in Judges, AssignJudges(w, s, j) PROVE IInv'
  <2> DEFINE q == [Idle EXCEPT !.at = "assign", !.list = <<<<s, j>>>>]
  <2>1. q \in [at : {"assign"}, list : {<<<<s, j>>>>}, rows : {<<>>}, clean : {FALSE}]
    BY DEF Idle
  <2>2. <<<<s, j>>>> \in Seq(Entered \X Judges) /\ <<<<s, j>>>> # <<>>
    BY <1>3 DEF AssignJudges
  <2>3. Knows(q, Entered, DOMAIN eval) /\ Treating(q, eval)
    BY <2>1, <2>2 DEF Knows, Treating, Step
  <2>4. req' = [req EXCEPT ![w] = q] /\ UNCHANGED <<sub, competition, assigned, eval, results, swaps, recomputed, settled>>
    BY <1>3 DEF AssignJudges, Begin, Judging
  <2> HIDE DEF q
  <2> QED
    BY <2>3, <2>4, ReadsOn
<1>4. ASSUME NEW s \in Submissions, NEW j \in Judges, NEW score \in Scores, RecordEvaluation(w, s, j, score) PROVE IInv'
  <2> DEFINE rows == [key \in {<<s, j>>} |-> score]
             q == [Idle EXCEPT !.at = "evaluation", !.rows = rows]
  <2>1. q \in [at : {"evaluation"}, list : {<<>>}, rows : {rows}, clean : {FALSE}]
    BY DEF Idle
  <2>2. \A key \in DOMAIN rows : key \in Entered \X Judges /\ rows[key] \in Scores
    BY <1>4 DEF RecordEvaluation
  <2>3. Knows(q, Entered, DOMAIN eval) /\ Treating(q, eval)
    <3> HIDE DEF rows
    <3> QED
      BY <2>1, <2>2 DEF Knows, Treating, Step
  <2>4. req' = [req EXCEPT ![w] = q] /\ UNCHANGED <<sub, competition, assigned, eval, results, swaps, recomputed, settled>>
    BY <1>4 DEF RecordEvaluation, Begin, Judging
  <2> HIDE DEF q
  <2> QED
    BY <2>3, <2>4, ReadsOn
<1>5. CASE RunNormalization(w)
  <2> DEFINE q == [Idle EXCEPT !.at = "fetch"]
  <2>1. Knows(q, Entered, DOMAIN eval) /\ Treating(q, eval)
    BY DEF Idle, Knows, Treating, Step
  <2>2. req' = [req EXCEPT ![w] = q] /\ UNCHANGED <<sub, competition, assigned, eval, results, swaps, recomputed, settled>>
    BY <1>5 DEF RunNormalization, Begin, Judging
  <2> HIDE DEF q
  <2> QED
    BY <2>1, <2>2, ReadsOn
<1>6. ASSUME NEW list \in Publications, PublishResults(w, list) PROVE IInv'
  <2> DEFINE q == [Idle EXCEPT !.at = "publish", !.list = list]
  <2>1. list \in Seq(Submissions) /\ list # <<>>
    BY PartnerAssumption DEF PartnerAssumption
  <2>2. q \in [at : {"publish"}, list : {list}, rows : {<<>>}, clean : {FALSE}]
    BY DEF Idle
  <2>3. Knows(q, Entered, DOMAIN eval) /\ Treating(q, eval)
    <3>1. q.at = "publish" /\ q.list = list /\ q.rows = <<>> /\ q.clean = FALSE
      BY <2>2
    <3>3. DOMAIN q.rows = {}
      BY <3>1
    <3>2. q \in [at : Step, list : {q.list}, rows : {q.rows}, clean : BOOLEAN]
      BY <2>2 DEF Step
    <3> HIDE DEF q
    <3> QED
      BY <2>1, <3>1, <3>2, <3>3 DEF Knows, Treating
  <2>4. req' = [req EXCEPT ![w] = q] /\ UNCHANGED <<sub, competition, assigned, eval, results, swaps, recomputed, settled>>
    BY <1>6 DEF PublishResults, Begin, Organizing
  <2> HIDE DEF q
  <2> QED
    BY <2>3, <2>4, ReadsOn
<1>7. ASSUME NEW s \in Submissions, NEW script \in Scripts, ProcessDraftSwap(w, s, script) PROVE IInv'
  <2> DEFINE rows == [t \in {s} |-> [script |-> script, created |-> requests + 1]]
             q == [Idle EXCEPT !.at = "swap", !.rows = rows]
  <2>1. q \in [at : {"swap"}, list : {<<>>}, rows : {rows}, clean : {FALSE}]
    BY DEF Idle
  <2>2. \A t \in DOMAIN rows : t \in Entered /\ rows[t] \in [script : Scripts, created : Nat]
    BY <1>7 DEF ProcessDraftSwap, TimesOK
  <2>3. Knows(q, Entered, DOMAIN eval) /\ Treating(q, eval)
    <3>1. q.at = "swap" /\ q.rows = rows /\ q.clean = FALSE
      BY <2>1
    <3>2. q \in [at : Step, list : {q.list}, rows : {q.rows}, clean : BOOLEAN]
      BY <2>1 DEF Step
    <3> HIDE DEF rows, q
    <3> QED
      BY <2>2, <3>1, <3>2 DEF Knows, Treating
  <2>4. req' = [req EXCEPT ![w] = q] /\ UNCHANGED <<sub, competition, assigned, eval, results, swaps, recomputed, settled>>
    BY <1>7 DEF ProcessDraftSwap, Begin, Organizing
  <2> HIDE DEF q
  <2> QED
    BY <2>3, <2>4, ReadsOn
<1> QED
  BY <1>2, <1>3, <1>4, <1>5, <1>6, <1>7 DEF Arrival

-----------------------------------------------------------------------------
(* Judging.                                                                 *)

\* Lemma: the first of a list, and what is left of it.
LEMMA HeadAndRest ==
  ASSUME NEW S, NEW list \in Seq(S), list # <<>>
  PROVE  Head(list) \in S /\ (Len(list) # 1 => Tail(list) \in Seq(S) /\ Tail(list) # <<>>)
<1> DEFINE rest == Tail(list)
<1>1. /\ Head(list) \in S /\ rest \in Seq(S) /\ Len(rest) = Len(list) - 1
      /\ Len(list) \in Nat
  BY HeadTailProperties
<1> HIDE DEF rest
<1>2. rest = <<>> => Len(rest) = 0
  BY <1>1, EmptySeq
<1>3. Len(list) # 1 => rest # <<>>
  BY <1>1, <1>2
<1> QED
  BY <1>1, <1>3 DEF rest

\* Lemma: an assignment is inserted.
LEMMA AssignmentKeeps ==
  ASSUME IInv, NEW w \in Workers, InsertAssignment(w)
  PROVE  IInv'
<1> DEFINE list == req[w].list
           q == IF Len(list) = 1 THEN Idle ELSE [req[w] EXCEPT !.list = Tail(list)]
<1>1. /\ req[w].at = "assign" /\ req' = [req EXCEPT ![w] = q]
      /\ UNCHANGED <<sub, competition, eval, results, swaps, recomputed, settled>>
      /\ assigned' = assigned \cup {Head(list)}
  BY DEF InsertAssignment, At, Done, Resume, Judging
<1>2. Knows(req[w], Entered, DOMAIN eval)
  BY DEF IInv
<1>3. list \in Seq(Entered \X Judges) /\ list # <<>>
  BY <1>1, <1>2 DEF Knows
<1>4. Head(list) \in Entered \X Judges /\ (Len(list) # 1 => Tail(list) \in Seq(Entered \X Judges) /\ Tail(list) # <<>>)
  BY <1>3, HeadAndRest
<1>5. Knows(q, Entered, DOMAIN eval) /\ Treating(q, eval)
  <2>1. CASE Len(list) = 1
    BY <2>1, IdleKnows
  <2>2. CASE Len(list) # 1
    <3> DEFINE rest == Tail(list)
    <3>1. rest \in Seq(Entered \X Judges) /\ rest # <<>>
      BY <1>4, <2>2
    <3>2. q = [req[w] EXCEPT !.list = rest]
      BY <2>2
    <3> HIDE DEF rest, q, list
    <3>3. q \in [at : {"assign"}, list : {rest}, rows : {req[w].rows}, clean : BOOLEAN]
      BY <1>1, <1>2, <3>2 DEF Knows
    <3>4. q.at = "assign" /\ q.list = rest
      BY <3>3
    <3>5. q \in [at : Step, list : {q.list}, rows : {q.rows}, clean : BOOLEAN]
      BY <3>3 DEF Step
    <3> QED
      BY <3>1, <3>4, <3>5 DEF Knows, Treating
  <2> QED
    BY <2>1, <2>2
<1> HIDE DEF q, list
<1>6. Entered' = Entered /\ TablesOK'
  BY <1>1, <1>4 DEF IInv, TablesOK, Entered
<1>7. ScriptIsRecorded'
  BY <1>1, <1>6 DEF IInv, ScriptIsRecorded
<1> QED
  BY <1>1, <1>5, <1>6, <1>7, GoesOn

\* Lemma: while one request writes evaluations, no other has them to itself.
LEMMA EvaluationsChange ==
  ASSUME IInv, NEW w \in Workers, NEW q, req' = Stale(w, q), settled' = FALSE,
         UNCHANGED <<sub, competition, assigned, results, swaps, recomputed>>,
         DOMAIN eval \subseteq DOMAIN eval', DOMAIN eval' \subseteq Entered \X Judges,
         eval' \in [DOMAIN eval' -> Evaluation],
         Knows(q, Entered, DOMAIN eval'), Treating(q, eval')
  PROVE  IInv'
<1>1. Entered' = Entered
  BY DEF Entered
<1>2. TablesOK'
  BY <1>1 DEF IInv, TablesOK
<1>3. ScriptIsRecorded'
  BY <1>1 DEF IInv, ScriptIsRecorded
<1>4. ASSUME NEW v \in Workers PROVE Knows(req'[v], Entered, DOMAIN eval') /\ Treating(req'[v], eval')
  <2>1. req'[v] = IF v = w THEN q ELSE [req[v] EXCEPT !.clean = FALSE]
    BY DEF Stale
  <2>2. CASE v = w
    BY <2>1, <2>2
  <2>3. CASE v # w
    <3> DEFINE r == [req[v] EXCEPT !.clean = FALSE]
    <3>1. Knows(req[v], Entered, DOMAIN eval')
      BY KnowsLasts DEF IInv
    <3>2. /\ r.at = req[v].at /\ r.list = req[v].list /\ r.rows = req[v].rows /\ r.clean = FALSE
          /\ r \in [at : Step, list : {r.list}, rows : {r.rows}, clean : BOOLEAN]
      BY <3>1 DEF Knows
    <3> HIDE DEF r
    <3>3. Knows(r, Entered, DOMAIN eval') /\ Treating(r, eval')
      BY <3>1, <3>2 DEF Knows, Treating
    <3>4. req'[v] = r
      BY <2>1, <2>3 DEF r
    <3> QED
      BY <3>3, <3>4
  <2> QED
    BY <2>2, <2>3
<1>5. req' = [v \in Workers |-> req'[v]]
  BY DEF Stale
<1> QED
  BY <1>1, <1>2, <1>3, <1>4, <1>5 DEF IInv

\* Lemma: an evaluation is stored.
LEMMA UpsertKeeps ==
  ASSUME IInv, NEW w \in Workers, UpsertEvaluation(w)
  PROVE  IInv'
<1>1. PICK key \in DOMAIN req[w].rows :
        /\ eval' = [k \in DOMAIN eval \cup {key} |->
                      IF k # key THEN eval[k]
                      ELSE [raw |-> req[w].rows[k], norm |-> IF k \in DOMAIN eval THEN eval[k].norm ELSE -1]]
        /\ req' = Stale(w, [Idle EXCEPT !.at = "status", !.list = <<key[1]>>])
  BY DEF UpsertEvaluation
<1>2. /\ req[w].at = "evaluation" /\ settled' = FALSE
      /\ UNCHANGED <<sub, competition, assigned, results, swaps, recomputed>>
  BY DEF UpsertEvaluation, At, Judging
<1>3. key \in Entered \X Judges /\ req[w].rows[key] \in Scores
  <2>1. Knows(req[w], Entered, DOMAIN eval)
    BY DEF IInv
  <2> QED
    BY <1>1, <1>2, <2>1 DEF Knows
<1>4. DOMAIN eval \subseteq Entered \X Judges /\ \A k \in DOMAIN eval : eval[k] \in Evaluation
  BY DEF IInv, TablesOK
<1>5. /\ DOMAIN eval' = DOMAIN eval \cup {key}
      /\ \A k \in DOMAIN eval' : eval'[k] \in Evaluation
      /\ eval' = [k \in DOMAIN eval' |-> eval'[k]]
  <2> DEFINE norm == IF key \in DOMAIN eval THEN eval[key].norm ELSE -1
  <2>1. norm \in -1..(100 * Scale)
    BY <1>4, PartnerAssumption DEF Evaluation, PartnerAssumption
  <2> HIDE DEF norm
  <2>2. [raw |-> req[w].rows[key], norm |-> norm] \in Evaluation
    BY <1>3, <2>1 DEF Evaluation
  <2>3. eval' = [k \in DOMAIN eval \cup {key} |->
                   IF k # key THEN eval[k] ELSE [raw |-> req[w].rows[key], norm |-> norm]]
    BY <1>1 DEF norm
  <2> QED
    BY <1>4, <2>2, <2>3
<1>6. DOMAIN eval \subseteq DOMAIN eval' /\ DOMAIN eval' \subseteq Entered \X Judges /\ eval' \in [DOMAIN eval' -> Evaluation]
  BY <1>3, <1>4, <1>5
<1> DEFINE q == [Idle EXCEPT !.at = "status", !.list = <<key[1]>>]
<1>7. q \in [at : {"status"}, list : {<<key[1]>>}, rows : {<<>>}, clean : {FALSE}]
  BY DEF Idle
<1>8. Knows(q, Entered, DOMAIN eval') /\ Treating(q, eval')
  <2>1. key[1] \in Entered
    BY <1>3
  <2>2. q.at = "status" /\ q.list = <<key[1]>> /\ q.clean = FALSE
    BY <1>7
  <2>3. q \in [at : Step, list : {q.list}, rows : {q.rows}, clean : BOOLEAN]
    BY <1>7 DEF Step
  <2> HIDE DEF q
  <2> QED
    BY <2>1, <2>2, <2>3 DEF Knows, Treating
<1> HIDE DEF q
<1>9. req' = Stale(w, q)
  BY <1>1 DEF q
<1> QED
  BY <1>2, <1>6, <1>8, <1>9, EvaluationsChange

\* Lemma: the submission evaluated is under review.
LEMMA MarkKeeps ==
  ASSUME IInv, NEW w \in Workers, MarkInReview(w)
  PROVE  IInv'
<1> DEFINE s == req[w].list[1]
<1>1. /\ req[w].at = "status" /\ req' = [req EXCEPT ![w] = Idle]
      /\ sub' = [sub EXCEPT ![s].status = "in_review"]
      /\ UNCHANGED <<competition, assigned, eval, results, swaps, recomputed, settled>>
  BY DEF MarkInReview, At, Done, Resume, Judging
<1>2. s \in Entered /\ sub \in [Entered -> Submission]
  BY <1>1 DEF IInv, Knows, TablesOK
<1> HIDE DEF s
<1>3. [sub[s] EXCEPT !.status = "in_review"] \in Submission /\ [sub[s] EXCEPT !.status = "in_review"].script = sub[s].script
  BY <1>2 DEF Submission, Status
<1>4. Entered' = Entered /\ sub' \in [Entered -> Submission] /\ \A t \in Entered : sub'[t].script = sub[t].script
  BY <1>1, <1>2, <1>3 DEF Entered
<1>5. TablesOK'
  BY <1>1, <1>4 DEF IInv, TablesOK
<1>6. ScriptIsRecorded'
  BY <1>1, <1>4, ScriptsStay
<1> QED
  BY <1>1, <1>4, <1>5, <1>6, IdleKnows, GoesOn

-----------------------------------------------------------------------------
(* Normalization.                                                           *)

\* Lemma: the evaluations are read and the scores computed.
LEMMA FetchKeeps ==
  ASSUME IInv, NEW w \in Workers, FetchEvaluations(w)
  PROVE  IInv'
<1>1. UNCHANGED <<sub, competition, assigned, eval, results, swaps, recomputed, settled>>
  BY DEF FetchEvaluations, Judging
<1>2. CASE eval = <<>>
  <2> DEFINE q == [Idle EXCEPT !.at = "run"]
  <2>1. Knows(q, Entered, DOMAIN eval) /\ Treating(q, eval)
    BY DEF Idle, Knows, Treating, Step
  <2>2. req' = [req EXCEPT ![w] = q]
    BY <1>2 DEF FetchEvaluations, Resume
  <2> HIDE DEF q
  <2> QED
    BY <1>1, <2>1, <2>2, ReadsOn
<1>3. CASE eval # <<>>
  <2> DEFINE rows == [key \in DOMAIN eval |-> Normalized(RawScores(eval), key)]
             q == [at |-> "normalize", list |-> <<>>, clean |-> TRUE, rows |-> rows]
  <2>1. req' = [req EXCEPT ![w] = q]
    BY <1>3 DEF FetchEvaluations, Resume, RawScores
  <2>2. ASSUME NEW key \in DOMAIN eval PROVE rows[key] \in 0..(100 * Scale)
    <3> DEFINE raw == RawScores(eval)
    <3>1. DOMAIN raw = DOMAIN eval /\ DOMAIN eval \subseteq Submissions \X Judges /\ \A k \in DOMAIN eval : raw[k] \in Int
      BY Evaluations DEF IInv
    <3> HIDE DEF raw
    <3>2. Normalized(raw, key) \in 0..(100 * Scale)
      BY <3>1, NormalizedIs
    <3> QED
      BY <3>2 DEF raw
  <2>3. DOMAIN rows = DOMAIN eval /\ \A key \in DOMAIN eval : rows[key] = Normalized(RawScores(eval), key)
    OBVIOUS
  <2> HIDE DEF rows
  <2>4. Knows(q, Entered, DOMAIN eval)
    BY <2>2, <2>3 DEF Knows, Step
  <2>5. Treating(q, eval)
    BY <2>3 DEF Treating, Treated
  <2> HIDE DEF q
  <2> QED
    BY <1>1, <2>1, <2>4, <2>5, ReadsOn
<1> QED
  BY <1>2, <1>3

\* Lemma: one normalized score is written.
LEMMA UpdateKeeps ==
  ASSUME IInv, NEW w \in Workers, UpdateNormalized(w)
  PROVE  IInv'
<1> DEFINE rows == req[w].rows
<1>1. PICK key \in DOMAIN rows :
        LET left == DOMAIN rows \ {key} IN
        /\ eval' = [eval EXCEPT ![key].norm = rows[key]]
        /\ req' = Stale(w, [req[w] EXCEPT !.at = IF left = {} THEN "run" ELSE "normalize",
                                          !.rows = [k \in left |-> rows[k]]])
  BY DEF UpdateNormalized
<1>2. /\ req[w].at = "normalize" /\ settled' = FALSE
      /\ UNCHANGED <<sub, competition, assigned, results, swaps, recomputed>>
  BY DEF UpdateNormalized, At, Judging
<1>3. Knows(req[w], Entered, DOMAIN eval) /\ Treating(req[w], eval)
  BY DEF IInv
<1>4. \A k \in DOMAIN rows : k \in DOMAIN eval /\ rows[k] \in 0..(100 * Scale)
  BY <1>2, <1>3 DEF Knows
<1>5. DOMAIN eval \subseteq Entered \X Judges /\ \A k \in DOMAIN eval : eval[k] \in Evaluation
  BY DEF IInv, TablesOK
<1> DEFINE left == DOMAIN rows \ {key}
           kept == [k \in left |-> rows[k]]
           q == [req[w] EXCEPT !.at = IF left = {} THEN "run" ELSE "normalize", !.rows = kept]
<1>6. q \in [at : {IF left = {} THEN "run" ELSE "normalize"}, list : {req[w].list}, rows : {kept}, clean : {req[w].clean}]
  <2> HIDE DEF left, kept
  <2> QED
    BY <1>3 DEF Knows
<1>7. req' = Stale(w, q)
  BY <1>1
<1>8. DOMAIN kept = left /\ \A k \in left : kept[k] = rows[k]
  OBVIOUS
<1> HIDE DEF kept, q
<1>9. /\ DOMAIN eval' = DOMAIN eval
      /\ eval' \in [DOMAIN eval -> Evaluation]
      /\ \A k \in DOMAIN eval : eval'[k].raw = eval[k].raw
      /\ \A k \in DOMAIN eval : eval'[k].norm = IF k = key THEN rows[key] ELSE eval[k].norm
  <2> DEFINE new == [eval[key] EXCEPT !.norm = rows[key]]
  <2>1. rows[key] \in -1..(100 * Scale) /\ key \in DOMAIN eval
    BY <1>1, <1>4, PartnerAssumption DEF PartnerAssumption
  <2>2. new \in Evaluation /\ new.raw = eval[key].raw /\ new.norm = rows[key]
    BY <1>5, <2>1 DEF Evaluation
  <2>3. eval \in [DOMAIN eval -> Evaluation] /\ eval' = [eval EXCEPT ![key] = new]
    BY <1>1 DEF IInv, TablesOK
  <2> HIDE DEF new, rows
  <2> QED
    BY <2>1, <2>2, <2>3
<1>10. RawScores(eval') = RawScores(eval)
  BY <1>9 DEF RawScores
<1>11. Knows(q, Entered, DOMAIN eval')
  <2>1. q.at \in {"run", "normalize"} /\ q.rows = kept /\ q \in [at : Step, list : {q.list}, rows : {q.rows}, clean : BOOLEAN]
    BY <1>3, <1>6 DEF Step, Knows
  <2>2. \A k \in DOMAIN kept : k \in DOMAIN eval /\ kept[k] \in 0..(100 * Scale)
    BY <1>4, <1>8
  <2> HIDE DEF left, rows
  <2> QED
    BY <1>9, <2>1, <2>2 DEF Knows
<1>12. Treating(q, eval')
  <2> SUFFICES ASSUME req[w].clean PROVE Treating(q, eval')
    BY <1>6 DEF Treating
  <2> DEFINE Right(k) == Normalized(RawScores(eval), k)
  <2>1. /\ \A k \in DOMAIN eval \ DOMAIN rows : eval[k].norm = Right(k)
        /\ \A k \in DOMAIN rows : rows[k] = Right(k)
    BY <1>2, <1>3 DEF Treating, Treated
  <2> HIDE DEF Right
  <2>2. /\ \A k \in DOMAIN eval \ left : eval'[k].norm = Right(k)
        /\ \A k \in left : kept[k] = Right(k)
    BY <1>1, <1>8, <1>9, <2>1
  <2>3. /\ Treated(eval', DOMAIN eval' \ left)
        /\ \A k \in left : kept[k] = Normalized(RawScores(eval'), k)
    BY <1>9, <1>10, <2>2 DEF Treated, Right
  <2>4. q.at = (IF left = {} THEN "run" ELSE "normalize") /\ q.rows = kept
    BY <1>6
  <2> HIDE DEF left
  <2> QED
    BY <1>8, <2>3, <2>4 DEF Treating, Treated
<1> QED
  BY <1>2, <1>5, <1>7, <1>9, <1>11, <1>12, EvaluationsChange

\* Lemma: a normalization ends.
LEMMA RunKeeps ==
  ASSUME IInv, NEW w \in Workers, InsertRun(w)
  PROVE  IInv'
<1>1. /\ req[w].at = "run" /\ req' = [req EXCEPT ![w] = Idle]
      /\ settled' = (settled \/ req[w].clean)
      /\ UNCHANGED <<sub, competition, assigned, eval, results, swaps, recomputed>>
  BY DEF InsertRun, At, Done, Resume, Judging
<1>2. Knows(req[w], Entered, DOMAIN eval) /\ Treating(req[w], eval)
  BY DEF IInv
<1>3. settled' \in BOOLEAN /\ (settled' => Treated(eval, DOMAIN eval))
  <2>1. req[w].clean \in BOOLEAN
    BY <1>2 DEF Knows
  <2>2. req[w].clean => Treated(eval, DOMAIN eval)
    BY <1>1, <1>2 DEF Treating
  <2>3. settled \in BOOLEAN /\ (settled => Treated(eval, DOMAIN eval))
    BY DEF IInv
  <2> QED
    BY <1>1, <2>1, <2>2, <2>3
<1>4. /\ req' = [v \in Workers |-> req'[v]]
      /\ \A v \in Workers : req'[v] = IF v = w THEN Idle ELSE req[v]
  BY <1>1 DEF IInv
<1>5. Entered' = Entered /\ TablesOK' /\ ScriptIsRecorded'
  BY <1>1, ScriptsStay DEF IInv, TablesOK, Entered
<1> QED
  BY <1>1, <1>3, <1>4, <1>5, IdleKnows DEF IInv

-----------------------------------------------------------------------------
(* Publication and draft swaps.                                             *)

\* Lemma: a request at another step, and with other rows or another list of submissions.
LEMMA Continues ==
  ASSUME NEW r, NEW S, NEW K, Knows(r, S, K),
         NEW at \in {"publish", "competition", "commit", "announce", "swap", "record"}, NEW list, NEW rows,
         NEW q, q \in [at : {at}, list : {list}, rows : {rows}, clean : {r.clean}],
         at = "publish" => list \in Seq(Submissions) /\ list # <<>>,
         at \in {"publish", "competition", "commit", "announce"} => DOMAIN rows \subseteq S,
         at \in {"swap", "record"} => 
           \A s \in DOMAIN rows : s \in S /\ rows[s] \in [script : Scripts, created : Nat]
  PROVE  Knows(q, S, K) /\ \A evals : Treating(q, evals)
<1>1. q.at = at /\ q.list = list /\ q.rows = rows
  OBVIOUS
<1>2. q \in [at : Step, list : {q.list}, rows : {q.rows}, clean : BOOLEAN]
  BY DEF Knows, Step
<1> QED
  BY <1>1, <1>2 DEF Knows, Treating

\* Lemma: one result of a publication.
LEMMA PublishNextKeeps ==
  ASSUME IInv, NEW w \in Workers, PublishNext(w)
  PROVE  IInv'
<1> DEFINE list == req[w].list
           s == Head(list)
           at == IF Len(list) = 1 THEN "competition" ELSE "publish"
           rest == Tail(list)
           more == [t \in DOMAIN req[w].rows \cup {s} |-> "published"]
<1>1. req[w].at = "publish" /\ UNCHANGED <<sub, competition, assigned, eval, results, swaps, recomputed, settled>>
  BY DEF PublishNext, At, Organizing
<1>2. Knows(req[w], Entered, DOMAIN eval)
  BY DEF IInv
<1>3. list \in Seq(Submissions) /\ list # <<>> /\ DOMAIN req[w].rows \subseteq Entered
  BY <1>1, <1>2 DEF Knows
<1>4. at = "publish" => rest \in Seq(Submissions) /\ rest # <<>>
  BY <1>3, HeadAndRest
<1> DEFINE r == [req[w] EXCEPT !.list = rest, !.at = IF Len(list) = 1 THEN "competition" ELSE @]
<1>5. r \in [at : {at}, list : {rest}, rows : {req[w].rows}, clean : {req[w].clean}]
  <2> HIDE DEF rest, list
  <2> QED
    BY <1>1, <1>2 DEF Knows
<1>6. \/ Resume(w, r)
      \/ s \in Entered /\ Resume(w, [r EXCEPT !.rows = more])
  <2>1. r.rows = req[w].rows
    BY <1>5
  <2> QED
    BY <2>1 DEF PublishNext
<1> HIDE DEF r
<1>7. CASE Resume(w, r)
  <2> HIDE DEF rest
  <2>1. Knows(r, Entered, DOMAIN eval) /\ Treating(r, eval)
    BY <1>2, <1>3, <1>4, <1>5, Continues
  <2> QED
    BY <1>1, <1>7, <2>1, ReadsOn DEF Resume
<1>8. CASE s \in Entered /\ Resume(w, [r EXCEPT !.rows = more])
  <2> DEFINE q == [r EXCEPT !.rows = more]
  <2>1. DOMAIN more \subseteq Entered
    BY <1>3, <1>8
  <2> HIDE DEF rest, more, list
  <2>2. q \in [at : {at}, list : {rest}, rows : {more}, clean : {req[w].clean}]
    BY <1>5
  <2> HIDE DEF q
  <2>3. Knows(q, Entered, DOMAIN eval) /\ Treating(q, eval)
    BY <1>2, <1>4, <2>1, <2>2, Continues
  <2>4. req' = [req EXCEPT ![w] = q]
    BY <1>8 DEF Resume, q
  <2> QED
    BY <1>1, <2>3, <2>4, ReadsOn
<1> QED
  BY <1>6, <1>7, <1>8

\* Lemma: a request only goes to another step of its transaction.
LEMMA GotoKeeps ==
  ASSUME IInv, NEW w \in Workers, NEW at, Goto(w, at),
         UNCHANGED <<sub, competition, assigned, eval, results, swaps, recomputed, settled>>,
         \/ req[w].at = "competition" /\ at = "commit"
         \/ req[w].at = "swap" /\ at = "record"
  PROVE  IInv'
<1> DEFINE q == [req[w] EXCEPT !.at = at]
<1>1. Knows(req[w], Entered, DOMAIN eval)
  BY DEF IInv
<1>2. q \in [at : {at}, list : {req[w].list}, rows : {req[w].rows}, clean : {req[w].clean}]
  BY <1>1 DEF Knows
<1>3. req' = [req EXCEPT ![w] = q]
  BY DEF Goto, Resume
<1> HIDE DEF q
<1>4. /\ at \in {"commit", "record"}
      /\ at = "commit" => DOMAIN req[w].rows \subseteq Entered
      /\ at = "record" => \A s \in DOMAIN req[w].rows :
           s \in Entered /\ req[w].rows[s] \in [script : Scripts, created : Nat]
  BY <1>1 DEF Knows
<1>5. Knows(q, Entered, DOMAIN eval) /\ Treating(q, eval)
  BY <1>1, <1>2, <1>4, Continues
<1> QED
  BY <1>3, <1>5, ReadsOn

\* Lemma: a publication commits.
LEMMA CommitKeeps ==
  ASSUME IInv, NEW w \in Workers, CommitResults(w)
  PROVE  IInv'
<1> DEFINE published == DOMAIN req[w].rows
           q == [Idle EXCEPT !.at = "announce", !.rows = req[w].rows]
<1>1. /\ req[w].at = "commit" /\ competition' = "published"
      /\ sub' = [s \in Entered |-> IF s \in published THEN [sub[s] EXCEPT !.status = "published"] ELSE sub[s]]
      /\ results' = results \cup published
      /\ req' = [req EXCEPT ![w] = IF published = {} THEN Idle ELSE q]
      /\ UNCHANGED <<assigned, eval, swaps, recomputed, settled>>
  BY DEF CommitResults, At, Done, Resume, Organizing
<1>2. published \subseteq Entered /\ Knows(req[w], Entered, DOMAIN eval)
  BY <1>1 DEF IInv, Knows
<1>3. q \in [at : {"announce"}, list : {<<>>}, rows : {req[w].rows}, clean : {FALSE}]
  BY DEF Idle
<1>4. Knows(q, Entered, DOMAIN eval) /\ Treating(q, eval)
  <2>1. q.at = "announce" /\ q.rows = req[w].rows /\ q.clean = FALSE
    BY <1>3
  <2>2. q \in [at : Step, list : {q.list}, rows : {q.rows}, clean : BOOLEAN]
    BY <1>3 DEF Step
  <2> HIDE DEF q
  <2> QED
    BY <1>2, <2>1, <2>2 DEF Knows, Treating
<1> HIDE DEF q, published
<1>5. sub \in [Entered -> Submission]
  BY DEF IInv, TablesOK
<1>6. ASSUME NEW s \in Entered
      PROVE  [sub[s] EXCEPT !.status = "published"] \in Submission /\ [sub[s] EXCEPT !.status = "published"].script = sub[s].script
  BY <1>5 DEF Submission, Status
<1>7. Entered' = Entered /\ sub' \in [Entered -> Submission] /\ \A s \in Entered : sub'[s].script = sub[s].script
  BY <1>1, <1>5, <1>6 DEF Entered
<1>8. TablesOK'
  BY <1>1, <1>2, <1>7 DEF IInv, TablesOK
<1>9. ScriptIsRecorded'
  BY <1>1, <1>7, ScriptsStay
<1>10. \/ req' = [req EXCEPT ![w] = Idle]
       \/ req' = [req EXCEPT ![w] = q]
  BY <1>1
<1> QED
  BY <1>1, <1>4, <1>7, <1>8, <1>9, <1>10, IdleKnows, GoesOn

\* Lemma: one writer is told, and the recomputation of the writer's scores is asked for.
LEMMA AnnounceKeeps ==
  ASSUME IInv, NEW w \in Workers, Announce(w)
  PROVE  IInv'
<1> DEFINE rows == req[w].rows
<1>1. PICK s \in DOMAIN rows :
        LET left == DOMAIN rows \ {s} IN
        /\ recomputed' = recomputed \cup {s}
        /\ IF left = {} THEN Done(w) ELSE Resume(w, [req[w] EXCEPT !.rows = [t \in left |-> rows[t]]])
  BY DEF Announce
<1>2. /\ req[w].at = "announce"
      /\ UNCHANGED <<sub, competition, assigned, eval, results, swaps, settled>>
  BY DEF Announce, At, Organizing
<1>3. Knows(req[w], Entered, DOMAIN eval)
  BY DEF IInv
<1>4. DOMAIN rows \subseteq Entered
  BY <1>2, <1>3 DEF Knows
<1> DEFINE kept == [t \in DOMAIN rows \ {s} |-> rows[t]]
           q == [req[w] EXCEPT !.rows = kept]
<1>5. DOMAIN kept \subseteq Entered
  BY <1>4
<1>6. req' = [req EXCEPT ![w] = Idle] \/ req' = [req EXCEPT ![w] = q]
  BY <1>1 DEF Done, Resume
<1> HIDE DEF kept
<1>7. q \in [at : {"announce"}, list : {req[w].list}, rows : {kept}, clean : {req[w].clean}]
  BY <1>2, <1>3 DEF Knows
<1> HIDE DEF q
<1>8. Knows(q, Entered, DOMAIN eval) /\ Treating(q, eval)
  BY <1>3, <1>5, <1>7, Continues
<1>9. Entered' = Entered
  BY <1>2 DEF Entered
<1>10. TablesOK'
  BY <1>1, <1>2, <1>4, <1>9 DEF IInv, TablesOK
<1>11. ScriptIsRecorded'
  BY <1>2, <1>9, ScriptsStay
<1> QED
  BY <1>2, <1>6, <1>8, <1>9, <1>10, <1>11, IdleKnows, GoesOn

\* Lemma: a swap is recorded together with the script.
LEMMA SwapKeeps ==
  ASSUME IInv, TimesOK, NEW w \in Workers, RecordSwap(w)
  PROVE  IInv'
<1>1. PICK s \in DOMAIN req[w].rows :
        /\ sub' = [sub EXCEPT ![s].script = req[w].rows[s].script]
        /\ swaps' = swaps \cup {[submission |-> s, script |-> req[w].rows[s].script,
                                 created |-> req[w].rows[s].created, recorded |-> requests]}
  BY DEF RecordSwap
<1> DEFINE script == req[w].rows[s].script
           created == req[w].rows[s].created
           row == [submission |-> s, script |-> script, created |-> created, recorded |-> requests]
<1>2. /\ req[w].at = "record" /\ req' = [req EXCEPT ![w] = Idle]
      /\ UNCHANGED <<competition, assigned, eval, results, recomputed, settled>>
  BY DEF RecordSwap, At, Done, Resume, Organizing
<1>3. s \in Entered /\ script \in Scripts /\ created \in Nat
  BY <1>1, <1>2 DEF IInv, Knows
<1>4. requests \in Nat /\ created <= requests /\ \A swap \in swaps : swap.created <= requests
  BY <1>1, <1>2 DEF TimesOK
<1>5. sub' = [sub EXCEPT ![s].script = script] /\ swaps' = swaps \cup {row}
  BY <1>1
<1> HIDE DEF script, created
<1>6. sub \in [Entered -> Submission]
  BY DEF IInv, TablesOK
<1>7. [sub[s] EXCEPT !.script = script] \in Submission /\ [sub[s] EXCEPT !.script = script].script = script
  BY <1>3, <1>6 DEF Submission
<1>8. /\ Entered' = Entered /\ sub' \in [Entered -> Submission]
      /\ \A t \in Entered : sub'[t].script = IF t = s THEN script ELSE sub[t].script
  BY <1>3, <1>5, <1>6, <1>7 DEF Entered
<1>9. TablesOK'
  <2>1. row \in [submission : Entered, script : Scripts, created : Nat, recorded : Nat]
    BY <1>3, <1>4
  <2> HIDE DEF row
  <2> QED
    BY <1>2, <1>5, <1>8, <2>1 DEF IInv, TablesOK
<1>10. ScriptIsRecorded'
  <2>1. row.submission = s /\ row.script = script /\ row.created = created /\ row.recorded = requests
    OBVIOUS
  <2> HIDE DEF row
  <2>2. \A swap \in swaps' : swap.created <= row.recorded
    BY <1>4, <1>5, <2>1
  <2>3. row \in {swap \in swaps' : swap.submission = s} /\ sub'[s].script = row.script
    BY <1>3, <1>5, <1>8, <2>1
  <2>4. ASSUME NEW t \in Entered, t # s
        PROVE  /\ {swap \in swaps' : swap.submission = t} = {swap \in swaps : swap.submission = t}
               /\ sub'[t].script = sub[t].script
    BY <1>5, <1>8, <2>1, <2>4
  <2>5. ASSUME NEW t \in Entered
        PROVE  LET own == {swap \in swaps' : swap.submission = t} IN
               \/ own = {} /\ sub'[t].script = "original"
               \/ \E swap \in own :
                    sub'[t].script = swap.script /\ \A other \in own : other.created <= swap.recorded
    <3>1. CASE t = s
      BY <2>2, <2>3, <3>1
    <3>2. CASE t # s
      BY <2>4, <3>2 DEF IInv, ScriptIsRecorded
    <3> QED
      BY <3>1, <3>2
  <2> QED
    BY <1>8, <2>5 DEF ScriptIsRecorded
<1> QED
  BY <1>2, <1>8, <1>9, <1>10, IdleKnows, GoesOn

\* Lemma: time goes on for a request that writes no swap.
LEMMA TimePasses ==
  ASSUME TimesOK, swaps' = swaps, requests' = requests \/ requests' = requests + 1,
         \A v \in Workers :
           \/ req'[v].at \notin {"swap", "record"}
           \/ req'[v].rows = req[v].rows /\ req[v].at \in {"swap", "record"}
  PROVE  TimesOK'
BY DEF TimesOK

\* Lemma: every step gives a swap the time it happens at.
LEMMA TimesKeep == IInv /\ TimesOK /\ [Next]_vars => TimesOK'
<1> SUFFICES ASSUME IInv, TimesOK, [Next]_vars PROVE TimesOK'
  OBVIOUS
<1>1. ASSUME UNCHANGED <<req, requests, swaps>> PROVE TimesOK'
  BY <1>1 DEF TimesOK
<1>2. ASSUME NEW w \in Workers, NEW q, req' = [req EXCEPT ![w] = q], swaps' = swaps,
             requests' = requests \/ requests' = requests + 1,
             \/ q.at \notin {"swap", "record"}
             \/ q.rows = req[w].rows /\ req[w].at \in {"swap", "record"}
      PROVE  TimesOK'
  <2>1. \A v \in Workers : req'[v] = IF v = w THEN q ELSE req[v]
    BY <1>2 DEF IInv
  <2> QED
    BY <1>2, <2>1, TimePasses
<1>3. ASSUME NEW w \in Workers, NEW q, req' = Stale(w, q), UNCHANGED <<swaps, requests>>,
             q.at \notin {"swap", "record"}
      PROVE  TimesOK'
  <2>1. ASSUME NEW v \in Workers, v # w PROVE req'[v].at = req[v].at /\ req'[v].rows = req[v].rows
    <3>1. Knows(req[v], Entered, DOMAIN eval) /\ req'[v] = [req[v] EXCEPT !.clean = FALSE]
      BY <1>3, <2>1 DEF IInv, Stale
    <3> QED
      BY <3>1 DEF Knows
  <2>2. req'[w] = q
    BY <1>3 DEF Stale
  <2> QED
    BY <1>3, <2>1, <2>2, TimePasses
<1>4. CASE UNCHANGED vars
  BY <1>1, <1>4 DEF vars, tables
<1>5. ASSUME NEW s \in Submissions, CreateCompetitionSubmission(s) PROVE TimesOK'
  BY <1>1, <1>5 DEF CreateCompetitionSubmission, Judging
<1>6. ASSUME NEW w \in Workers, Arrival(w) PROVE TimesOK'
  <2>1. ASSUME NEW s \in Submissions, NEW script \in Scripts, ProcessDraftSwap(w, s, script) PROVE TimesOK'
    <3> DEFINE rows == [t \in {s} |-> [script |-> script, created |-> requests + 1]]
               q == [Idle EXCEPT !.at = "swap", !.rows = rows]
    <3>1. req' = [req EXCEPT ![w] = q] /\ swaps' = swaps /\ requests' = requests + 1
      BY <2>1 DEF ProcessDraftSwap, Begin
    <3>2. q.rows = rows /\ requests + 1 \in 1..(requests + 1) /\ \A t \in DOMAIN rows : rows[t].created = requests + 1
      BY DEF Idle, TimesOK
    <3> HIDE DEF q, rows
    <3>3. \A v \in Workers : req'[v] = IF v = w THEN q ELSE req[v]
      BY <3>1 DEF IInv
    <3> QED
      BY <3>1, <3>2, <3>3 DEF TimesOK
  <2>2. CASE AutoAssign(w)
    <3>1. PICK order \in SetToAllKPermutations(Entered) :
            Begin(w, [Idle EXCEPT !.at = "assign", !.list = Fill(order)])
      BY <2>2 DEF AutoAssign
    <3>2. [Idle EXCEPT !.at = "assign", !.list = Fill(order)].at = "assign"
      BY DEF Idle
    <3> QED
      BY <1>2, <2>2, <3>1, <3>2 DEF AutoAssign, Begin, Judging
  <2>3. ASSUME NEW s \in Submissions, NEW j \in Judges, AssignJudges(w, s, j) PROVE TimesOK'
    BY <1>2, <2>3 DEF AssignJudges, Begin, Idle, Judging
  <2>4. ASSUME NEW s \in Submissions, NEW j \in Judges, NEW score \in Scores, RecordEvaluation(w, s, j, score)
        PROVE  TimesOK'
    BY <1>2, <2>4 DEF RecordEvaluation, Begin, Idle, Judging
  <2>5. CASE RunNormalization(w)
    BY <1>2, <2>5 DEF RunNormalization, Begin, Idle, Judging
  <2>6. ASSUME NEW list \in Publications, PublishResults(w, list) PROVE TimesOK'
    BY <1>2, <2>6 DEF PublishResults, Begin, Idle
  <2> QED
    BY <1>6, <2>1, <2>2, <2>3, <2>4, <2>5, <2>6 DEF Arrival
<1>7. ASSUME NEW w \in Workers, NEW q, Resume(w, q), swaps' = swaps, q.at \notin {"swap", "record"}
      PROVE  TimesOK'
  BY <1>2, <1>7 DEF Resume
<1>8. ASSUME NEW w \in Workers, Done(w), swaps' = swaps PROVE TimesOK'
  BY <1>7, <1>8 DEF Done, Idle
<1>9. ASSUME NEW w \in Workers, Proceed(w) PROVE TimesOK'
  <2> DEFINE r == req[w]
  <2>1. r \in [at : Step, list : {r.list}, rows : {r.rows}, clean : BOOLEAN]
    BY DEF IInv, Knows
  <2>2. CASE InsertAssignment(w)
    <3>1. Done(w) \/ Resume(w, [r EXCEPT !.list = Tail(@)])
      BY <2>2 DEF InsertAssignment
    <3>2. r.at = "assign" /\ swaps' = swaps
      BY <2>2 DEF InsertAssignment, At, Judging
    <3>3. [r EXCEPT !.list = Tail(@)].at = r.at
      BY <2>1
    <3> QED
      BY <1>7, <1>8, <3>1, <3>2, <3>3
  <2>3. CASE UpsertEvaluation(w)
    <3>1. PICK key \in DOMAIN r.rows : req' = Stale(w, [Idle EXCEPT !.at = "status", !.list = <<key[1]>>])
      BY <2>3 DEF UpsertEvaluation
    <3>2. [Idle EXCEPT !.at = "status", !.list = <<key[1]>>].at = "status"
      BY DEF Idle
    <3> QED
      BY <1>3, <2>3, <3>1, <3>2 DEF UpsertEvaluation, Judging
  <2>4. CASE UpdateNormalized(w)
    <3>1. PICK key \in DOMAIN r.rows :
            LET left == DOMAIN r.rows \ {key} IN
            req' = Stale(w, [r EXCEPT !.at = IF left = {} THEN "run" ELSE "normalize",
                                      !.rows = [k \in left |-> r.rows[k]]])
      BY <2>4 DEF UpdateNormalized
    <3>2. PICK at \in {"run", "normalize"} :
            \E rows : req' = Stale(w, [r EXCEPT !.at = at, !.rows = rows])
      BY <3>1
    <3>3. PICK rows : req' = Stale(w, [r EXCEPT !.at = at, !.rows = rows])
      BY <3>2
    <3>4. [r EXCEPT !.at = at, !.rows = rows].at = at
      BY <2>1
    <3> QED
      BY <1>3, <2>4, <3>3, <3>4 DEF UpdateNormalized, Judging
  <2>5. CASE FetchEvaluations(w)
    <3>1. PICK q : Resume(w, q) /\ q.at \in {"run", "normalize"}
      BY <2>5 DEF FetchEvaluations, Idle
    <3> QED
      BY <1>7, <2>5, <3>1 DEF FetchEvaluations, Judging
  <2>6. CASE PublishNext(w)
    <3> DEFINE at == IF Len(r.list) = 1 THEN "competition" ELSE "publish"
               more == [t \in DOMAIN r.rows \cup {Head(r.list)} |-> "published"]
               q == [r EXCEPT !.list = Tail(@), !.at = IF Len(r.list) = 1 THEN "competition" ELSE @]
    <3>1. r.at = "publish" /\ swaps' = swaps
      BY <2>6 DEF PublishNext, At, Organizing
    <3>2. q \in [at : {at}, list : {Tail(r.list)}, rows : {r.rows}, clean : {r.clean}]
      BY <2>1, <3>1
    <3>3. Resume(w, q) \/ Resume(w, [q EXCEPT !.rows = more])
      <4>1. q.rows = r.rows
        BY <3>2
      <4> QED
        BY <2>6, <4>1 DEF PublishNext
    <3> HIDE DEF q, more
    <3>4. q.at \notin {"swap", "record"} /\ [q EXCEPT !.rows = more].at = q.at
      BY <3>2
    <3> QED
      BY <1>7, <3>1, <3>3, <3>4
  <2>7. CASE CommitResults(w)
    <3>1. PICK rows : Done(w) \/ Resume(w, [Idle EXCEPT !.at = "announce", !.rows = rows])
      BY <2>7 DEF CommitResults
    <3>2. [Idle EXCEPT !.at = "announce", !.rows = rows].at = "announce"
      BY DEF Idle
    <3> QED
      BY <1>7, <1>8, <2>7, <3>1, <3>2 DEF CommitResults
  <2>8. CASE Announce(w)
    <3>1. PICK rows : Done(w) \/ Resume(w, [r EXCEPT !.rows = rows])
      BY <2>8 DEF Announce
    <3>2. r.at = "announce" /\ [r EXCEPT !.rows = rows].at = r.at
      BY <2>1, <2>8 DEF Announce, At
    <3> QED
      BY <1>7, <1>8, <2>8, <3>1, <3>2 DEF Announce
  <2>9. CASE PublishCompetition(w) \/ SwapScript(w)
    <3>1. PICK at \in {"commit", "record"} :
            Goto(w, at) /\ (at = "record" => r.at = "swap") /\ swaps' = swaps
      BY <2>9 DEF PublishCompetition, SwapScript, At, Organizing
    <3>2. [r EXCEPT !.at = at].at = at /\ [r EXCEPT !.at = at].rows = r.rows
      BY <2>1
    <3> QED
      BY <1>2, <3>1, <3>2 DEF Goto, Resume
  <2>10. CASE RecordSwap(w)
    <3>1. PICK s \in DOMAIN r.rows :
            swaps' = swaps \cup {[submission |-> s, script |-> r.rows[s].script,
                                  created |-> r.rows[s].created, recorded |-> requests]}
      BY <2>10 DEF RecordSwap
    <3>2. r.rows[s].created \in 1..requests /\ requests \in Nat
      BY <2>10, <3>1 DEF RecordSwap, At, TimesOK
    <3>3. requests' = requests /\ \A v \in Workers : req'[v] = IF v = w THEN Idle ELSE req[v]
      BY <2>10 DEF RecordSwap, Done, Resume, IInv
    <3>4. \A swap \in swaps' : swap.created \in 1..requests /\ swap.recorded \in 1..requests
      BY <3>1, <3>2 DEF TimesOK
    <3> QED
      BY <3>3, <3>4 DEF TimesOK, Idle
  <2>11. CASE MarkInReview(w) \/ InsertRun(w) \/ BreakDeadlock(w)
    BY <1>8, <2>11 DEF MarkInReview, InsertRun, BreakDeadlock, Judging, tables
  <2> QED
    BY <1>9, <2>2, <2>3, <2>4, <2>5, <2>6, <2>7, <2>8, <2>9, <2>10, <2>11 DEF Proceed
<1>10. ASSUME NEW w \in Workers, Throw(w) PROVE TimesOK'
  BY <1>8, <1>10 DEF Throw, tables
<1>11. CASE SyncNext /\ UNCHANGED <<tables, req, requests, settled>>
  BY <1>1, <1>11 DEF tables
<1>12. CASE Crash
  <2>1. \A v \in Workers : req'[v] = Idle
    BY <1>12 DEF Crash
  <2> QED
    BY <1>12, <2>1, TimePasses DEF Crash, Idle, tables
<1> QED
  BY <1>4, <1>5, <1>6, <1>9, <1>10, <1>11, <1>12 DEF Next

-----------------------------------------------------------------------------
(* The theorems about the competition.                                      *)

\* Lemma: every step keeps the invariant.
LEMMA NextKeeps == IInv /\ TimesOK /\ [Next]_vars => IInv'
<1> SUFFICES ASSUME IInv, TimesOK, [Next]_vars PROVE IInv'
  OBVIOUS
<1>1. ASSUME UNCHANGED <<tables, req, settled>> PROVE IInv'
  BY <1>1 DEF IInv, TablesOK, ScriptIsRecorded, Entered, tables
<1>2. CASE UNCHANGED vars
  BY <1>1, <1>2 DEF vars
<1>3. ASSUME NEW s \in Submissions, CreateCompetitionSubmission(s) PROVE IInv'
  BY <1>3, CreateKeeps
<1>4. ASSUME NEW w \in Workers, Arrival(w) PROVE IInv'
  BY <1>4, ArrivalKeeps
<1>5. ASSUME NEW w \in Workers, Proceed(w) PROVE IInv'
  <2>1. CASE InsertAssignment(w) \/ UpsertEvaluation(w) \/ MarkInReview(w)
    BY <2>1, AssignmentKeeps, UpsertKeeps, MarkKeeps
  <2>2. CASE FetchEvaluations(w) \/ UpdateNormalized(w) \/ InsertRun(w)
    BY <2>2, FetchKeeps, UpdateKeeps, RunKeeps
  <2>3. CASE PublishNext(w) \/ CommitResults(w) \/ Announce(w) \/ RecordSwap(w)
    BY <2>3, PublishNextKeeps, CommitKeeps, AnnounceKeeps, SwapKeeps
  <2>4. CASE PublishCompetition(w)
    BY <2>4, GotoKeeps DEF PublishCompetition, At, Organizing
  <2>5. CASE SwapScript(w)
    BY <2>5, GotoKeeps DEF SwapScript, At, Organizing
  <2>6. CASE BreakDeadlock(w)
    BY <2>6, Ends DEF BreakDeadlock
  <2> QED
    BY <1>5, <2>1, <2>2, <2>3, <2>4, <2>5, <2>6 DEF Proceed
<1>6. ASSUME NEW w \in Workers, Throw(w) PROVE IInv'
  BY <1>6, Ends DEF Throw
<1>7. CASE SyncNext /\ UNCHANGED <<tables, req, requests, settled>>
  BY <1>1, <1>7
<1>8. CASE Crash
  <2>1. UNCHANGED <<sub, competition, assigned, eval, results, swaps, recomputed, settled>>
    BY <1>8 DEF Crash, tables
  <2>2. req' = [w \in Workers |-> Idle]
    BY <1>8 DEF Crash
  <2>3. Entered' = Entered /\ TablesOK' /\ ScriptIsRecorded'
    BY <2>1, ScriptsStay DEF IInv, TablesOK, Entered
  <2>4. req' = [w \in Workers |-> req'[w]] /\ \A w \in Workers : req'[w] = Idle
    BY <2>2
  <2> QED
    BY <2>1, <2>3, <2>4, IdleKnows DEF IInv
<1> QED
  BY <1>2, <1>3, <1>4, <1>5, <1>6, <1>7, <1>8 DEF Next

\* Theorem: the invariant of the competition, and the times of swaps.
THEOREM Invariance == Spec => [](IInv /\ TimesOK)
<1>1. Init => TimesOK
  BY DEF Init, Idle, TimesOK
<1> QED
  BY <1>1, InitHolds, NextKeeps, TimesKeep, PTL DEF Spec

\* Theorem: the tables and requests keep their types.
THEOREM TypeCorrect == Spec => []TypeOK
<1>1. SyncInv => SyncTypeOK
  BY DEF SyncInv
<1>2. IInv /\ TimesOK /\ SyncTypeOK => TypeOK
  <2> SUFFICES ASSUME IInv, TimesOK, SyncTypeOK PROVE TypeOK
    OBVIOUS
  <2>1. \A s \in Entered : sub[s].status \in Status /\ sub[s].script \in Scripts \cup {"original"}
    BY DEF IInv, TablesOK, Submission
  <2>2. \A key \in DOMAIN eval : eval[key].raw \in Scores /\ eval[key].norm \in -1..(100 * Scale)
    BY DEF IInv, TablesOK, Evaluation
  <2>3. \A w \in Workers : req[w].at \in Step
    BY DEF IInv, Knows
  <2>4. swaps \subseteq [submission : Entered, script : Scripts, created : 1..requests, recorded : 1..requests]
    <3> SUFFICES ASSUME NEW swap \in swaps
                 PROVE  swap \in [submission : Entered, script : Scripts, created : 1..requests, recorded : 1..requests]
      OBVIOUS
    <3>1. swap \in [submission : Entered, script : Scripts, created : Nat, recorded : Nat]
      BY DEF IInv, TablesOK
    <3>2. swap.created \in 1..requests /\ swap.recorded \in 1..requests
      BY DEF TimesOK
    <3> QED
      BY <3>1, <3>2
  <2> QED
    BY <2>1, <2>2, <2>3, <2>4 DEF TypeOK, IInv, TablesOK
<1>3. Spec => []SyncInv
  BY SyncInvariance
<1> QED
  BY <1>1, <1>2, <1>3, Invariance, PTL

\* Theorem: however swaps overlap and fail, no script changes without a record, and a swap
\* that began after another one was recorded is not lost to it.
THEOREM ScriptsAreRecorded == Spec => []ScriptIsRecorded
<1>1. IInv => ScriptIsRecorded
  BY DEF IInv
<1> QED
  BY <1>1, Invariance, PTL

\* Theorem: for any number of judges and scores, a normalization that had the evaluations
\* to itself leaves no judge an advantage.
THEOREM NoJudgeIsFavoured == Spec => []NormalizedFairly
<1>1. IInv => NormalizedFairly
  <2> SUFFICES ASSUME IInv, settled PROVE NormalizedFairly
    BY DEF NormalizedFairly
  <2> DEFINE raw == RawScores(eval)
             norm == [key \in DOMAIN eval |-> eval[key].norm]
  <2>1. DOMAIN raw = DOMAIN eval /\ DOMAIN eval \subseteq Submissions \X Judges /\ \A key \in DOMAIN eval : raw[key] \in Int
    BY Evaluations DEF IInv
  <2>2. \A key \in DOMAIN eval : raw[key] = eval[key].raw
    BY DEF RawScores
  <2>3. DOMAIN norm = DOMAIN eval /\ \A key \in DOMAIN eval : norm[key] = Normalized(raw, key)
    BY DEF IInv, Treated
  <2> HIDE DEF raw, norm
  <2>4. /\ \A key \in DOMAIN raw : norm[key] \in 0..(100 * Scale)
        /\ \A k, l \in DOMAIN raw : k[2] = l[2] /\ raw[k] < raw[l] => norm[k] <= norm[l]
        /\ (\A key \in DOMAIN raw : norm[key] \notin {0, 100 * Scale}) =>
             \A k, l \in DOMAIN raw :
               SumOver(norm, ByJudge(norm, k[2])) * Cardinality(ByJudge(norm, l[2]))
                 = SumOver(norm, ByJudge(norm, l[2])) * Cardinality(ByJudge(norm, k[2]))
    BY <2>1, <2>3, FairlyNormalized
  <2>5. /\ \A key \in DOMAIN eval : norm[key] \in 0..(100 * Scale)
        /\ \A k, l \in DOMAIN eval : k[2] = l[2] /\ eval[k].raw < eval[l].raw => norm[k] <= norm[l]
        /\ ~ (\E key \in DOMAIN eval : norm[key] \in {0, 100 * Scale}) =>
             \A k, l \in DOMAIN eval :
               SumOver(norm, ByJudge(norm, k[2])) * Cardinality(ByJudge(norm, l[2]))
                 = SumOver(norm, ByJudge(norm, l[2])) * Cardinality(ByJudge(norm, k[2]))
    BY <2>1, <2>2, <2>4
  <2> QED
    BY <2>5 DEF NormalizedFairly, norm
<1> QED
  BY <1>1, Invariance, PTL

===============================================================================
