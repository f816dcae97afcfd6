------------------------------- MODULE Ranking -------------------------------
(***************************************************************************)
(* ranking-service: a recomputation reads submissions and placements from  *)
(* submission-tracking-service and the prestige of the competitions, one   *)
(* after the other, and writes scores, badges, ranks and flags, one after  *)
(* the other.  Nothing keeps two recomputations apart, or the inputs still.*)
(*                                                                         *)
(* A recomputation is a worker.  Only the scores are written in a          *)
(* transaction, on a client of its own and under READ COMMITTED: DELETE    *)
(* and INSERT .. ON CONFLICT DO UPDATE wait for rows that another one has  *)
(* touched.  Placements are of one age: the decay of scores is left out,   *)
(* and with it tiers and snapshots, which follow from ranks and totals.    *)
(***************************************************************************)
EXTENDS SubmissionTracking, Sums

CONSTANTS
  Workers,     \* recomputations under way at the same time
  Multipliers, \* prestige multipliers, in halves: 2 is 1.0
  MaxChanges,  \* bound: verifications and prestige changes
  MaxRuns,     \* bound: recomputations
  Faults       \* what may go wrong: "database" (a call fails, or the process ends),
               \* "upstream" (submission-tracking-service answers with an error)

ASSUME RankingAssumption ==
  /\ Multipliers \subseteq Nat /\ MaxChanges \in Nat /\ MaxRuns \in Nat
  /\ Faults \subseteq {"database", "upstream"}

VARIABLES
  prestige,  \* [Competitions -> multiplier]
  scores,    \* placement_scores: partial function, Placements -> raw score
  badges,    \* bag of badges: [placement, status] -> how many
  board,     \* writer_scores: partial function, Writers -> [total, placements, rank]
  flags,     \* <<writer, competition>> with an open flag
  req,       \* [Workers -> Request]
  changes,   \* verifications and prestige changes so far
  runs,      \* recomputations so far
  verified,  \* history: placements that have ever been verified
  alone,     \* history: the recomputation that has had the tables and inputs to itself,
             \* and was told what the inputs are
  settled    \* history: the last recomputation did, and the inputs are as it saw them

tableVars == <<prestige, scores, badges, board, flags>>
vars == <<trackingVars, tableVars, req, changes, runs, verified, alone, settled>>

Step == {"idle", "placements", "prestige", "delete", "deleting", "insert", "commit",
         "badges", "award", "board", "flags"}

\* The local variables of a recomputation: how many submissions it fetched, the placements
\* it fetched, what it is to write; the rows its DELETE saw and those it deleted.
Idle == [at |-> "idle", subs |-> 0, found |-> <<>>, rows |-> <<>>, board |-> <<>>,
         award |-> {}, dupes |-> {}, seen |-> {}, gone |-> {}]

Init ==
  /\ TrackingInit
  /\ prestige = [c \in Competitions |-> 2]
  /\ scores = <<>> /\ badges = <<>> /\ board = <<>> /\ flags = {}
  /\ req = [w \in Workers |-> Idle]
  /\ changes = 0 /\ runs = 0 /\ verified = {} /\ alone = {} /\ settled = FALSE

-----------------------------------------------------------------------------
(* The score formulas, over what a recomputation fetched.                   *)

Weight == [pending |-> 0, quarterfinalist |-> 2, semifinalist |-> 4, finalist |-> 7, winner |-> 10]
Trust  == [pending |-> 1, verified |-> 2, rejected |-> 0]  \* in halves

\* In tenths; n counts the writer's placements up to this one.
Confidence(n) == IF n >= 5 THEN 10 ELSE 5 + n

WriterOf(p, found) == submission[found[p].submission].writer

\* Placements of submissions that were fetched; the newest comes first.
Scored(n, found) == {p \in DOMAIN found : found[p].submission <= n}
Before(p, n, found) ==
  {q \in Scored(n, found) : q >= p /\ WriterOf(q, found) = WriterOf(p, found)}

Raw(p, n, found) ==
  Weight[found[p].status] * prestige[submission[found[p].submission].competition]
    * Trust[found[p].verification] * Confidence(Cardinality(Before(p, n, found)))

TotalOf(w, rows, found) == SumOver(rows, {p \in DOMAIN rows : WriterOf(p, found) = w})

\* Writers by total; among equals, who entered the newest submission comes first.
Rank(w, totals, last) ==
  Cardinality({v \in DOMAIN totals :
    totals[v] > totals[w] \/ (totals[v] = totals[w] /\ last[v] >= last[w])})

Board(n, rows, found) ==
  LET ranked == {submission[s].writer : s \in 1..n}
      totals == [w \in ranked |-> TotalOf(w, rows, found)]
      last == [w \in ranked |-> Max({s \in 1..n : submission[s].writer = w})]
  IN  [w \in ranked |->
         [total |-> totals[w], rank |-> Rank(w, totals, last),
          placements |-> Cardinality({p \in DOMAIN rows : WriterOf(p, found) = w})]]

Duplicates(n) ==
  {<<submission[s].writer, submission[s].competition>> : s \in
     {t \in 1..n : \E u \in 1..n \ {t} :
        /\ submission[t].writer = submission[u].writer
        /\ submission[t].competition = submission[u].competition}}

-----------------------------------------------------------------------------
(* What recomputations are computed from.                                   *)

\* An input changes: whatever is being computed may be out of date.
Disturb == alone' = {} /\ settled' = FALSE

EnterCompetition ==
  /\ \E w \in Writers, c \in Competitions, status \in EntryStatuses : CreateSubmission(w, c, status)
  /\ Disturb
  /\ UNCHANGED <<tableVars, req, changes, runs, verified>>

ReportPlacement ==
  /\ \E s \in Submissions, status \in Statuses : CreatePlacement(s, status)
  /\ Disturb
  /\ UNCHANGED <<tableVars, req, changes, runs, verified>>

UpdateStatus ==
  /\ \E p \in Placements : UpdateSubmissionStatus(p)
  /\ UNCHANGED <<tableVars, req, changes, runs, verified, alone, settled>>

VerifyPlacement(p, state) ==
  /\ changes < MaxChanges /\ changes' = changes + 1
  /\ UpdatePlacementVerification(p, state)
  /\ verified' = verified \cup (IF state = "verified" THEN {p} ELSE {})
  /\ Disturb
  /\ UNCHANGED <<tableVars, req, runs>>

UpsertPrestige(c, multiplier) ==
  /\ changes < MaxChanges /\ changes' = changes + 1
  /\ multiplier # prestige[c]
  /\ prestige' = [prestige EXCEPT ![c] = multiplier]
  /\ Disturb
  /\ UNCHANGED <<trackingVars, scores, badges, board, flags, req, runs, verified>>

\* A flag that was resolved is raised again by the next recomputation.
ResolveFlag(flag) ==
  /\ flag \in flags
  /\ flags' = flags \ {flag}
  /\ Disturb
  /\ UNCHANGED <<trackingVars, prestige, scores, badges, board, req, changes, runs, verified>>

-----------------------------------------------------------------------------
(* A recomputation, step by step.                                           *)

\* INSERT .. ON CONFLICT DO UPDATE of some rows of a table.
Upsert(rows, table) ==
  [x \in DOMAIN rows \cup DOMAIN table |-> IF x \in DOMAIN rows THEN rows[x] ELSE table[x]]

At(w, step)  == req[w].at = step
Resume(w, q) == req' = [req EXCEPT ![w] = q]
Goto(w, step) == Resume(w, [req[w] EXCEPT !.at = step])
Inputs == <<trackingVars, prestige, changes, verified>>
Going == UNCHANGED <<Inputs, runs, alone, settled>>

\* The status of an answer is not looked at: an error answer has no list in it, and is
\* taken for an empty one.  "answered": the answer is the list.
FetchSubmissions(w, answered) ==
  /\ At(w, "idle") /\ runs < MaxRuns /\ runs' = runs + 1
  /\ answered \/ "upstream" \in Faults
  /\ Resume(w, [Idle EXCEPT !.at = "placements",
                           !.subs = IF answered THEN Cardinality(Entered) ELSE 0])
  /\ alone' = IF answered /\ req = [v \in Workers |-> Idle] THEN {w} ELSE {}
  /\ settled' = FALSE
  /\ UNCHANGED <<Inputs, scores, badges, board, flags>>

FetchPlacements(w, answered) ==
  /\ At(w, "placements")
  /\ answered \/ "upstream" \in Faults
  /\ Resume(w, [req[w] EXCEPT !.at = "prestige",
                             !.found = IF answered THEN [p \in Placed |-> placement[p]] ELSE <<>>])
  /\ alone' = IF answered THEN alone ELSE alone \ {w}
  /\ UNCHANGED <<Inputs, runs, settled, scores, badges, board, flags>>

\* listPrestige, and the computation that follows it without a pause.  The titles of the
\* competitions, fetched before, only word the badges.
ComputeScores(w) ==
  LET n == req[w].subs  found == req[w].found
      rows == [p \in Scored(n, found) |-> Raw(p, n, found)] IN
  /\ At(w, "prestige")
  /\ Resume(w, [Idle EXCEPT
       !.at = "delete", !.rows = rows, !.board = Board(n, rows, found),
       !.award = {[placement |-> p, status |-> found[p].status] : p \in
         {q \in DOMAIN rows : found[q].verification = "verified" /\ found[q].status # "pending"}},
       !.dupes = Duplicates(n)])
  /\ Going /\ UNCHANGED <<scores, badges, board, flags>>

\* Rows that another recomputation has deleted, inserted or updated and not committed.
LockedBy(v) == req[v].gone \cup IF At(v, "commit") THEN DOMAIN req[v].rows ELSE {}
Free(w, rows) == \A v \in Workers \ {w} : rows \cap LockedBy(v) = {}

\* BEGIN and DELETE FROM placement_scores: the statement is about the rows it sees.
BeginDelete(w) ==
  /\ At(w, "delete")
  /\ Resume(w, [req[w] EXCEPT !.at = "deleting", !.seen = DOMAIN scores])
  /\ Going /\ UNCHANGED <<scores, badges, board, flags>>

\* Mutant: DELETE and INSERT are not one transaction.
DeleteAtOnce(w) ==
  /\ At(w, "deleting") /\ Free(w, req[w].seen)
  /\ scores' = [p \in DOMAIN scores \ req[w].seen |-> scores[p]]
  /\ Resume(w, [req[w] EXCEPT !.at = "insert", !.seen = {}])
  /\ Going /\ UNCHANGED <<badges, board, flags>>

DeleteScores(w) ==
  /\ At(w, "deleting") /\ Free(w, req[w].seen)
  /\ Resume(w, [req[w] EXCEPT !.at = "insert", !.gone = req[w].seen, !.seen = {}])
  /\ Going /\ UNCHANGED <<scores, badges, board, flags>>

InsertScores(w) ==
  /\ At(w, "insert") /\ Free(w, DOMAIN req[w].rows)
  /\ Goto(w, "commit")
  /\ Going /\ UNCHANGED <<scores, badges, board, flags>>

\* Mutant: ON CONFLICT DO NOTHING, and no DELETE.
CommitNewScores(w) ==
  /\ At(w, "commit")
  /\ scores' = Upsert(scores, req[w].rows)
  /\ Resume(w, [req[w] EXCEPT !.at = "badges", !.rows = <<>>, !.gone = {}])
  /\ Going /\ UNCHANGED <<badges, board, flags>>

\* A DELETE that waited finds the rows this one deleted gone: what was inserted in their
\* place is not among the rows it saw.
CommitScores(w) ==
  /\ At(w, "commit")
  /\ scores' = Upsert(req[w].rows, [p \in DOMAIN scores \ req[w].gone |-> scores[p]])
  /\ req' = [v \in Workers |-> IF v = w THEN [req[w] EXCEPT !.at = "badges", !.rows = <<>>, !.gone = {}]
                               ELSE [req[v] EXCEPT !.seen = @ \ req[w].gone]]
  /\ Going /\ UNCHANGED <<badges, board, flags>>

Badged == {badge.placement : badge \in DOMAIN badges}

HasBadges(w) ==
  /\ At(w, "badges")
  /\ Resume(w, [req[w] EXCEPT !.at = "award",
       !.award = {badge \in @ : badge.placement \notin Badged}])
  /\ Going /\ UNCHANGED <<scores, badges, board, flags>>

\* Mutant: without ON CONFLICT DO NOTHING and its index.
AwardAgain(w, badge) ==
  /\ At(w, "award") /\ badge \in req[w].award
  /\ badges' = Upsert([b \in {badge} |-> IF b \in DOMAIN badges THEN 2 ELSE 1], badges)
  /\ Resume(w, [req[w] EXCEPT !.award = @ \ {badge}])
  /\ Going /\ UNCHANGED <<scores, board, flags>>

AwardBadge(w, badge) ==
  /\ At(w, "award") /\ badge \in req[w].award
  /\ badges' = IF badge.placement \in Badged THEN badges ELSE Upsert([b \in {badge} |-> 1], badges)
  /\ Resume(w, [req[w] EXCEPT !.award = @ \ {badge}])
  /\ Going /\ UNCHANGED <<scores, board, flags>>

\* One statement for all writers; the rows of other writers stay.
UpsertWriterScores(w) ==
  /\ At(w, "award") /\ req[w].award = {}
  /\ board' = Upsert(req[w].board, board)
  /\ Resume(w, [req[w] EXCEPT !.at = "flags", !.board = <<>>])
  /\ Going /\ UNCHANGED <<scores, badges, flags>>

CreateFlag(w, dupe) ==
  /\ At(w, "flags") /\ dupe \in req[w].dupes
  /\ flags' = flags \cup {dupe}
  /\ Resume(w, [req[w] EXCEPT !.dupes = @ \ {dupe}])
  /\ Going /\ UNCHANGED <<scores, badges, board>>

Finish(w) ==
  /\ At(w, "flags") /\ req[w].dupes = {}
  /\ Resume(w, Idle)
  /\ settled' = (w \in alone)
  /\ alone' = alone \ {w}
  /\ UNCHANGED <<Inputs, runs, scores, badges, board, flags>>

\* A call fails or the process ends; an open transaction is rolled back.
Throw(w) ==
  /\ "database" \in Faults /\ ~At(w, "idle")
  /\ Resume(w, Idle)
  /\ alone' = alone \ {w}
  /\ UNCHANGED <<Inputs, runs, scores, badges, board, flags, settled>>

-----------------------------------------------------------------------------
Proceed(w) ==
  \/ \E answered \in BOOLEAN : FetchPlacements(w, answered)
  \/ ComputeScores(w)
  \/ BeginDelete(w) \/ DeleteScores(w) \/ InsertScores(w) \/ CommitScores(w)
  \/ HasBadges(w) \/ UpsertWriterScores(w) \/ Finish(w)
  \/ \E badge \in req[w].award : AwardBadge(w, badge)
  \/ \E dupe \in req[w].dupes : CreateFlag(w, dupe)

Next ==
  \/ EnterCompetition \/ ReportPlacement \/ UpdateStatus
  \/ \E p \in Placements, state \in Verification : VerifyPlacement(p, state)
  \/ \E c \in Competitions, multiplier \in Multipliers : UpsertPrestige(c, multiplier)
  \/ \E flag \in flags : ResolveFlag(flag)
  \/ \E w \in Workers, answered \in BOOLEAN : FetchSubmissions(w, answered)
  \/ \E w \in Workers : Proceed(w) \/ Throw(w)

Spec == Init /\ [][Next]_vars

-----------------------------------------------------------------------------
(* Properties.                                                              *)

TypeOK ==
  /\ TrackingTypeOK
  /\ DOMAIN scores \subseteq Placed /\ DOMAIN board \subseteq Writers
  /\ flags \subseteq Writers \X Competitions
  /\ \A w \in Workers :
       /\ req[w].at \in Step /\ req[w].subs \in 0..Cardinality(Entered)
       /\ req[w].seen \cup req[w].gone \cup DOMAIN req[w].rows \subseteq Placed
       /\ DOMAIN req[w].board \subseteq {submission[s].writer : s \in Entered}

\* A submission only ever gets the status of one of its placements, although the two
\* are written by two statements and requests overlap or fail between them.
StatusHasPlacement ==
  [][\A s \in Entered : submission'[s].status # submission[s].status =>
       \E p \in Placed : placement[p].submission = s /\ placement[p].status = submission'[s].status]_vars

\* Readers never see scores being replaced: when they change, all that some
\* recomputation computed appears at once, whatever the others are doing.
ScoresChangeWhole ==
  [][scores' # scores =>
       \E w \in Workers : At(w, "commit") /\ \A p \in DOMAIN req[w].rows :
         p \in DOMAIN scores' /\ scores'[p] = req[w].rows[p]]_vars

\* A placement earns at most one badge, and only once it has been verified, although
\* several recomputations look for missing badges at once.
BadgeIsEarned ==
  \A badge \in DOMAIN badges :
    /\ badge.placement \in verified
    /\ badge.status = placement[badge.placement].status /\ badge.status # "pending"
    /\ badges[badge] = 1
    /\ \A other \in DOMAIN badges : other.placement = badge.placement => other = badge

SettledTotals ==
  /\ DOMAIN scores = Placed
  /\ DOMAIN board = {submission[s].writer : s \in Entered}
  /\ \A w \in DOMAIN board :
       LET own == {p \in Placed : submission[placement[p].submission].writer = w} IN
       /\ board[w].total = SumOver(scores, own)
       /\ board[w].placements = Cardinality(own)

SettledRanks ==
  /\ {board[w].rank : w \in DOMAIN board} = 1..Cardinality(DOMAIN board)
  /\ \A v, w \in DOMAIN board : board[v].total > board[w].total => board[v].rank < board[w].rank

SettledAwards ==
  /\ \A p \in Placed : placement[p].verification = "verified" /\ placement[p].status # "pending"
                         => p \in Badged
  /\ \A s, t \in Entered : s # t /\ submission[s].writer = submission[t].writer
                            /\ submission[s].competition = submission[t].competition
                            => <<submission[s].writer, submission[s].competition>> \in flags

\* When a recomputation has had inputs and tables to itself, and neither of its fetches was
\* answered with an error, its results agree with each other and the inputs, whatever
\* overlapping, failed or misinformed ones had left behind (after an error answer there are
\* no scores at all): every placement has a score and every writer a total that is the sum
\* of them; the ranks are 1, 2, .. without gaps or ties, and a higher total ranks higher;
\* no verified placement is without its badge, no duplicate entry without its flag.
SettledAgrees ==
  settled => SettledTotals /\ SettledRanks /\ SettledAwards

=============================================================================
