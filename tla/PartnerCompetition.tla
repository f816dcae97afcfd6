-------------------------- MODULE PartnerCompetition --------------------------
(***************************************************************************)
(* partner-dashboard-service: one partner competition, from the intake of  *)
(* its submissions over judges, evaluations and normalization to draft     *)
(* swaps and publication.  A worker is one request of an authorised        *)
(* organizer or judge.                                                     *)
(*                                                                         *)
(* Publication and draft swaps are transactions on clients of their own:   *)
(* what they write is applied by their COMMIT, and the rows they have      *)
(* updated stay locked until then.  Everything else is single statements.  *)
(* Rows are never deleted, so lookups of rows that exist are left out.     *)
(***************************************************************************)
EXTENDS PartnerSync, Sums, SequencesExt

CONSTANTS
  Submissions,  \* submissions that may be entered
  JudgeList,    \* judgeUserIds of an automatic assignment, in order
  MaxPerJudge,  \* its maxAssignmentsPerJudge
  Scores,       \* raw scores in use, in 0..100
  Scale,        \* fractions of a point are counted in 1 / Scale
  Publications, \* lists of submissions to publish
  Scripts,      \* replacement scripts
  Workers,      \* requests under way at the same time
  MaxRequests   \* bound: requests

Judges == Range(JudgeList)

ASSUME PartnerAssumption ==
  /\ IsFiniteSet(Submissions)
  /\ JudgeList \in Seq(Judges) /\ JudgeList # <<>> /\ MaxPerJudge \in Nat \ {0}
  /\ Scores \subseteq 0..100 /\ Scale \in Nat \ {0}
  /\ \A n \in 1..(Cardinality(Submissions) * Cardinality(Judges)) : Scale % n = 0
  /\ \A list \in Publications : list \in Seq(Submissions) /\ list # <<>>
  /\ MaxRequests \in Nat

VARIABLES
  sub,         \* partner_submissions: partial function, Submissions -> [status, script]
  competition, \* partner_competitions.status
  assigned,    \* partner_judge_assignments: <<submission, judge>>
  eval,        \* partner_evaluations of a round: <<submission, judge>> -> [raw, norm]
  results,     \* submissions with a row in partner_published_results
  swaps,       \* partner_draft_swaps: rows [submission, script, created, recorded]; created
               \* stands for created_at, and recorded (history) for the time of the COMMIT:
               \* both say how many requests had begun
  recomputed,  \* submissions whose writer's rank was asked to be recomputed
  req,         \* [Workers -> local variables]
  requests,    \* requests so far, the clock of swaps
  settled      \* history: the last normalization had the evaluations to itself, and they stand

tables == <<sub, competition, assigned, eval, results, swaps, recomputed>>
vars == <<syncVars, tables, req, requests, settled>>

Status == {"received", "in_review", "published"}
Step == {"idle", "assign", "evaluation", "status", "fetch", "normalize", "run",
         "publish", "competition", "commit", "announce", "swap", "record"}

\* list: submissions or pairs still to be treated; rows: what was read or is to be written;
\* clean: nobody else has touched the evaluations since they were read.
Idle == [at |-> "idle", list |-> <<>>, rows |-> <<>>, clean |-> FALSE]

Init ==
  /\ SyncInit
  /\ sub = <<>> /\ competition = "open" /\ assigned = {} /\ eval = <<>>
  /\ results = {} /\ swaps = {} /\ recomputed = {}
  /\ req = [w \in Workers |-> Idle]
  /\ requests = 0 /\ settled = FALSE

Entered == DOMAIN sub
At(w, step) == req[w].at = step
Begin(w, r) ==
  /\ At(w, "idle") /\ requests < MaxRequests
  /\ requests' = requests + 1
  /\ req' = [req EXCEPT ![w] = r]
Resume(w, r) == req' = [req EXCEPT ![w] = r] /\ UNCHANGED requests
Goto(w, step) == Resume(w, [req[w] EXCEPT !.at = step])
Done(w) == Resume(w, Idle)
Judging == UNCHANGED <<syncVars, competition, results, swaps, recomputed>>
Organizing == UNCHANGED <<syncVars, assigned, eval, settled>>

-----------------------------------------------------------------------------
(* Intake and judging.                                                      *)

\* POST submissions: one INSERT; the notification's failure is caught.
CreateCompetitionSubmission(s) ==
  /\ s \notin Entered
  /\ sub' = [t \in Entered \cup {s} |-> IF t = s THEN [status |-> "received", script |-> "original"] ELSE sub[t]]
  /\ Judging /\ UNCHANGED <<assigned, eval, req, requests, settled>>

\* The first judge below the maximum gets the next submission.
Fill(order) ==
  [k \in 1..Min({Len(order), MaxPerJudge * Len(JudgeList)})
     |-> <<order[k], JudgeList[(k - 1) \div MaxPerJudge + 1]>>]

\* POST judges/auto-assign, and the job judge_assignment_balancing: all submissions or some,
\* by updated_at, which evaluations, swaps and publications change at any time.
AutoAssign(w) ==
  /\ \E order \in SetToAllKPermutations(Entered) :
       order # <<>> /\ Begin(w, [Idle EXCEPT !.at = "assign", !.list = Fill(order)])
  /\ Judging /\ UNCHANGED <<sub, assigned, eval, settled>>

\* POST judges/assign.
AssignJudges(w, s, j) ==
  /\ s \in Entered
  /\ Begin(w, [Idle EXCEPT !.at = "assign", !.list = <<<<s, j>>>>])
  /\ Judging /\ UNCHANGED <<sub, assigned, eval, settled>>

\* INSERT .. ON CONFLICT DO NOTHING, one submission at a time.
InsertAssignment(w) ==
  /\ At(w, "assign")
  /\ assigned' = assigned \cup {Head(req[w].list)}
  /\ IF Len(req[w].list) = 1 THEN Done(w) ELSE Resume(w, [req[w] EXCEPT !.list = Tail(@)])
  /\ Judging /\ UNCHANGED <<sub, eval, settled>>

\* POST evaluations.
RecordEvaluation(w, s, j, score) ==
  /\ s \in Entered
  /\ Begin(w, [Idle EXCEPT !.at = "evaluation", !.rows = [key \in {<<s, j>>} |-> score]])
  /\ Judging /\ UNCHANGED <<sub, assigned, eval, settled>>

\* Everyone else's reading of the evaluations is out of date.
Stale(w, r) == [v \in Workers |-> IF v = w THEN r ELSE [req[v] EXCEPT !.clean = FALSE]]

\* INSERT .. ON CONFLICT DO UPDATE raw_score: a normalized score stays as it was.
UpsertEvaluation(w) ==
  /\ At(w, "evaluation")
  /\ \E key \in DOMAIN req[w].rows :
       /\ eval' = [k \in DOMAIN eval \cup {key} |->
                     IF k # key THEN eval[k]
                     ELSE [raw |-> req[w].rows[k], norm |-> IF k \in DOMAIN eval THEN eval[k].norm ELSE -1]]
       /\ req' = Stale(w, [Idle EXCEPT !.at = "status", !.list = <<key[1]>>])
  /\ settled' = FALSE
  /\ Judging /\ UNCHANGED <<sub, assigned, requests>>

\* Rows that an open publication or swap has updated.
LockedBy(v) ==
  CASE At(v, "publish") \/ At(v, "competition") -> DOMAIN req[v].rows
    [] At(v, "commit") -> DOMAIN req[v].rows \cup {"competition"}
    [] At(v, "record") -> DOMAIN req[v].rows
    [] OTHER -> {}
Free(w, row) == \A v \in Workers \ {w} : row \notin LockedBy(v)

\* Mutant: a status the table's CHECK does not know.
MarkEvaluated(w) ==
  /\ At(w, "status") /\ Free(w, req[w].list[1])
  /\ sub' = [sub EXCEPT ![req[w].list[1]].status = "evaluated"]
  /\ Done(w)
  /\ Judging /\ UNCHANGED <<assigned, eval, settled>>

\* UPDATE status = 'in_review', whatever it was.
MarkInReview(w) ==
  /\ At(w, "status") /\ Free(w, req[w].list[1])
  /\ sub' = [sub EXCEPT ![req[w].list[1]].status = "in_review"]
  /\ Done(w)
  /\ Judging /\ UNCHANGED <<assigned, eval, settled>>

-----------------------------------------------------------------------------
(* Normalization of the scores of a round.                                  *)

\* All in 1 / Scale of a point.
Mean(rows, keys) == (Scale * SumOver(rows, keys)) \div Cardinality(keys)
Clamped(score) == Max({0, Min({100 * Scale, score})})
ByJudge(rows, j) == {key \in DOMAIN rows : key[2] = j}

\* Mutant: towards the judge's mean.
Reversed(rows, key) ==
  LET own == ByJudge(rows, key[2]) IN
  Clamped(Scale * rows[key] + Mean(rows, own) - Mean(rows, DOMAIN rows))

\* A score is shifted by what its judge's mean is off the mean of all, within 0..100.
Normalized(rows, key) ==
  LET own == ByJudge(rows, key[2]) IN
  Clamped(Scale * rows[key] + Mean(rows, DOMAIN rows) - Mean(rows, own))

RunNormalization(w) ==
  /\ Begin(w, [Idle EXCEPT !.at = "fetch"])
  /\ Judging /\ UNCHANGED <<sub, assigned, eval, settled>>

FetchEvaluations(w) ==
  /\ At(w, "fetch")
  /\ Resume(w, IF eval = <<>> THEN [Idle EXCEPT !.at = "run"]
               ELSE LET raw == [key \in DOMAIN eval |-> eval[key].raw] IN
                    [at |-> "normalize", list |-> <<>>, clean |-> TRUE,
                     rows |-> [key \in DOMAIN eval |-> Normalized(raw, key)]])
  /\ Judging /\ UNCHANGED <<sub, assigned, eval, settled>>

\* UPDATE normalized_score, one evaluation after the other, in no particular order.
UpdateNormalized(w) ==
  /\ At(w, "normalize")
  /\ \E key \in DOMAIN req[w].rows :
       LET left == DOMAIN req[w].rows \ {key} IN
       /\ eval' = [eval EXCEPT ![key].norm = req[w].rows[key]]
       /\ req' = Stale(w, [req[w] EXCEPT !.at = IF left = {} THEN "run" ELSE "normalize",
                                         !.rows = [k \in left |-> req[w].rows[k]]])
  /\ settled' = FALSE
  /\ Judging /\ UNCHANGED <<sub, assigned, requests>>

InsertRun(w) ==
  /\ At(w, "run")
  /\ settled' = (settled \/ req[w].clean)
  /\ Done(w)
  /\ Judging /\ UNCHANGED <<sub, assigned, eval>>

-----------------------------------------------------------------------------
(* Publication and draft swaps.                                             *)

PublishResults(w, list) ==
  /\ Begin(w, [Idle EXCEPT !.at = "publish", !.list = list])
  /\ Organizing /\ UNCHANGED <<sub, competition, results, swaps, recomputed>>

\* Mutant: each result is committed on its own.
PublishAtOnce(w) ==
  /\ At(w, "publish")
  /\ LET s == Head(req[w].list)
         r == [req[w] EXCEPT !.list = Tail(@), !.at = IF Len(req[w].list) = 1 THEN "competition" ELSE @]
     IN \/ s \notin Entered /\ Resume(w, r) /\ UNCHANGED <<sub, results>>
        \/ /\ s \in Entered /\ Free(w, s) /\ Resume(w, r)
           /\ sub' = [sub EXCEPT ![s].status = "published"] /\ results' = results \cup {s}
  /\ Organizing /\ UNCHANGED <<competition, swaps, recomputed>>

\* SELECT, INSERT and UPDATE of one result; a submission that is not there is skipped.
PublishNext(w) ==
  /\ At(w, "publish")
  /\ LET s == Head(req[w].list)
         r == [req[w] EXCEPT !.list = Tail(@), !.at = IF Len(req[w].list) = 1 THEN "competition" ELSE @]
     IN \/ s \notin Entered /\ Resume(w, r)
        \/ s \in Entered /\ Free(w, s) /\ Resume(w, [r EXCEPT !.rows = [t \in DOMAIN @ \cup {s} |-> "published"]])
  /\ Organizing /\ UNCHANGED <<sub, competition, results, swaps, recomputed>>

PublishCompetition(w) ==
  /\ At(w, "competition") /\ Free(w, "competition")
  /\ Goto(w, "commit")
  /\ Organizing /\ UNCHANGED <<sub, competition, results, swaps, recomputed>>

CommitResults(w) ==
  /\ At(w, "commit")
  /\ LET published == DOMAIN req[w].rows IN
     /\ sub' = [s \in Entered |-> IF s \in published THEN [sub[s] EXCEPT !.status = "published"] ELSE sub[s]]
     /\ results' = results \cup published
     /\ IF published = {} THEN Done(w)
        ELSE Resume(w, [Idle EXCEPT !.at = "announce", !.rows = req[w].rows])
  /\ competition' = "published"
  /\ Organizing /\ UNCHANGED <<swaps, recomputed>>

\* One writer after the other is notified, and ranking-service is asked to recompute the
\* writer's scores; the failures of both are caught.
Announce(w) ==
  /\ At(w, "announce")
  /\ \E s \in DOMAIN req[w].rows :
       LET left == DOMAIN req[w].rows \ {s} IN
       /\ recomputed' = recomputed \cup {s}
       /\ IF left = {} THEN Done(w)
          ELSE Resume(w, [req[w] EXCEPT !.rows = [t \in left |-> req[w].rows[t]]])
  /\ Organizing /\ UNCHANGED <<sub, competition, results, swaps>>

\* The row's time is taken before the transaction begins, and waits.
ProcessDraftSwap(w, s, script) ==
  /\ s \in Entered
  /\ Begin(w, [Idle EXCEPT !.at = "swap",
                          !.rows = [t \in {s} |-> [script |-> script, created |-> requests + 1]]])
  /\ Organizing /\ UNCHANGED <<sub, competition, results, swaps, recomputed>>

\* Mutant: the UPDATE is not part of the transaction.
SwapAtOnce(w) ==
  /\ At(w, "swap") /\ \A s \in DOMAIN req[w].rows : Free(w, s)
  /\ sub' = [s \in Entered |-> IF s \in DOMAIN req[w].rows
                                 THEN [sub[s] EXCEPT !.script = req[w].rows[s].script] ELSE sub[s]]
  /\ Goto(w, "record")
  /\ Organizing /\ UNCHANGED <<competition, results, swaps, recomputed>>

SwapScript(w) ==
  /\ At(w, "swap") /\ \A s \in DOMAIN req[w].rows : Free(w, s)
  /\ Goto(w, "record")
  /\ Organizing /\ UNCHANGED <<sub, competition, results, swaps, recomputed>>

\* INSERT and COMMIT.
RecordSwap(w) ==
  /\ At(w, "record")
  /\ \E s \in DOMAIN req[w].rows :
       LET swap == req[w].rows[s] IN
       /\ sub' = [sub EXCEPT ![s].script = swap.script]
       /\ swaps' = swaps \cup {[submission |-> s, script |-> swap.script,
                                created |-> swap.created, recorded |-> requests]}
  /\ Done(w)
  /\ Organizing /\ UNCHANGED <<competition, results, recomputed>>

-----------------------------------------------------------------------------
(* Failures.                                                                *)

\* The row a request needs next.
Wants(w) ==
  CASE At(w, "publish") -> {Head(req[w].list)}
    [] At(w, "competition") -> {"competition"}
    [] At(w, "swap") -> DOMAIN req[w].rows
    [] At(w, "status") -> {req[w].list[1]}
    [] OTHER -> {}

\* PostgreSQL aborts one of several transactions that wait for each other.
BreakDeadlock(w) ==
  /\ \E circle \in SUBSET Workers :
       /\ w \in circle
       /\ \A v \in circle : \E u \in circle \ {v} : Wants(v) \cap LockedBy(u) # {}
  /\ Done(w)
  /\ UNCHANGED <<syncVars, tables, settled>>

\* A statement fails: the request does, and its transaction is rolled back.
Throw(w) ==
  /\ "database" \in Breaks /\ req[w].at \notin {"idle", "announce"}
  /\ Done(w)
  /\ UNCHANGED <<syncVars, tables, settled>>

Crash ==
  /\ "crash" \in Breaks
  /\ req' = [w \in Workers |-> Idle] /\ SyncCrash
  /\ UNCHANGED <<tables, requests, settled>>

Proceed(w) ==
  \/ InsertAssignment(w) \/ UpsertEvaluation(w) \/ MarkInReview(w)
  \/ FetchEvaluations(w) \/ UpdateNormalized(w) \/ InsertRun(w)
  \/ PublishNext(w) \/ PublishCompetition(w) \/ CommitResults(w) \/ Announce(w)
  \/ SwapScript(w) \/ RecordSwap(w)
  \/ BreakDeadlock(w)

Arrival(w) ==
  \/ AutoAssign(w)
  \/ \E s \in Submissions, j \in Judges : AssignJudges(w, s, j)
  \/ \E s \in Submissions, j \in Judges, score \in Scores : RecordEvaluation(w, s, j, score)
  \/ RunNormalization(w)
  \/ \E list \in Publications : PublishResults(w, list)
  \/ \E s \in Submissions, script \in Scripts : ProcessDraftSwap(w, s, script)

Next ==
  \/ \E s \in Submissions : CreateCompetitionSubmission(s)
  \/ \E w \in Workers : Arrival(w) \/ Proceed(w) \/ Throw(w)
  \/ SyncNext /\ UNCHANGED <<tables, req, requests, settled>>
  \/ Crash

Spec == Init /\ [][Next]_vars

-----------------------------------------------------------------------------

TypeOK ==
  /\ SyncTypeOK
  /\ Entered \subseteq Submissions
  /\ \A s \in Entered : sub[s].status \in Status /\ sub[s].script \in Scripts \cup {"original"}
  /\ competition \in {"open", "published"}
  /\ assigned \cup DOMAIN eval \subseteq Entered \X Judges
  /\ \A key \in DOMAIN eval : eval[key].raw \in Scores /\ eval[key].norm \in -1..(100 * Scale)
  /\ results \cup recomputed \subseteq Entered
  /\ swaps \subseteq [submission : Entered, script : Scripts,
                        created : 1..requests, recorded : 1..requests]
  /\ \A w \in Workers : req[w].at \in Step

\* What says that results are out is written together with them: a submission is only
\* published with its result, and any result with the competition's own status.
PublishedWhole ==
  /\ \A s \in Entered : sub[s].status = "published" => s \in results
  /\ results # {} => competition = "published"

\* However swaps overlap and fail, no script changes without a record, and no later swap is
\* lost: a submission has its original script until a swap of it is recorded, then that
\* of a recorded swap, and no recorded swap of it began only after that one was recorded.
\* Which of several overlapping swaps it is, the table does not say: the one that was
\* created last may have been the first to take the submission's row lock.
ScriptIsRecorded ==
  \A s \in Entered :
    LET own == {swap \in swaps : swap.submission = s} IN
    \/ own = {} /\ sub[s].script = "original"
    \/ \E swap \in own :
         sub[s].script = swap.script /\ \A other \in own : other.created <= swap.recorded

\* A normalization that has the evaluations to itself leaves no judge an advantage: it
\* keeps each judge's order of the scripts, stays within 0..100, and the means of all
\* judges are equal unless a score has been cut off.
NormalizedFairly ==
  settled =>
    LET norm == [key \in DOMAIN eval |-> eval[key].norm]
        cut == \E key \in DOMAIN eval : norm[key] \in {0, 100 * Scale}
    IN /\ \A key \in DOMAIN eval : norm[key] \in 0..(100 * Scale)
       /\ \A k, l \in DOMAIN eval :
            k[2] = l[2] /\ eval[k].raw < eval[l].raw => norm[k] <= norm[l]
       /\ ~ cut => \A k, l \in DOMAIN eval :
            LET a == ByJudge(norm, k[2])
                b == ByJudge(norm, l[2])
            IN SumOver(norm, a) * Cardinality(b) = SumOver(norm, b) * Cardinality(a)

=============================================================================
