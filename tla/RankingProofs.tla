----------------------------- MODULE RankingProofs -----------------------------
(***************************************************************************)
(* For any number of submissions, placements and overlapping, failing      *)
(* recomputations: types, BadgeIsEarned, StatusHasPlacement,               *)
(* ScoresChangeWhole and SettledAgrees.                                    *)
(*                                                                         *)
(* The invariant has two halves.  What a recomputation holds may be old or *)
(* incomplete (an error answer is taken for an empty list), but what there *)
(* is of it is not wrong (Knows), whoever else runs.  A recomputation that *)
(* has had inputs and tables to itself and got both lists holds, at each   *)
(* of its steps, what the results should be (Current).  Underneath are two *)
(* facts about data: a sum of integers is an integer, and counting who is  *)
(* above makes the ranks of a strict order 1, 2, .. without a gap.         *)
(***************************************************************************)
EXTENDS Ranking, SumProofs

-----------------------------------------------------------------------------
(* Ranks.                                                                   *)

\* Counting who is above: the ranks are 1, 2, .. without gaps or ties.
LEMMA RanksCount ==
  ASSUME NEW D, IsFiniteSet(D), NEW totals \in [D -> Int], NEW last \in [D -> Int],
         \A v, w \in D : last[v] = last[w] => v = w
  PROVE  /\ {Rank(w, totals, last) : w \in D} = 1..Cardinality(D)
         /\ \A v, w \in D : totals[v] > totals[w] => Rank(v, totals, last) < Rank(w, totals, last)
<1> DEFINE Above(w) == {v \in D : totals[v] > totals[w] \/ (totals[v] = totals[w] /\ last[v] >= last[w])}
           R == [w \in D |-> Rank(w, totals, last)]
           n == Cardinality(D)
<1>1. \A w \in D : R[w] = Cardinality(Above(w)) /\ Above(w) \subseteq D /\ w \in Above(w)
  BY DEF Rank
<1>2. \A w \in D : IsFiniteSet(Above(w)) /\ Cardinality(Above(w)) \in Nat
  BY <1>1, FS_Subset, FS_CardinalityType
<1>3. n \in Nat
  BY FS_CardinalityType
<1>4. ASSUME NEW w \in D PROVE R[w] \in 1..n
  <2>1. Cardinality(Above(w)) <= n
    BY <1>1, FS_Subset
  <2>2. Cardinality(Above(w)) # 0
    BY <1>1, <1>2, FS_EmptySet
  <2> HIDE DEF R, n, Above
  <2> QED BY <1>1, <1>2, <1>3, <2>1, <2>2
<1>5. ASSUME NEW v \in D, NEW w \in D, Above(v) \subseteq Above(w), w \notin Above(v)
      PROVE  R[v] < R[w]
  <2>1. Above(v) # Above(w)
    BY <1>1, <1>5
  <2>2. /\ Cardinality(Above(v)) <= Cardinality(Above(w))
        /\ Cardinality(Above(w)) # Cardinality(Above(v))
    <3> HIDE DEF Above
    <3> QED BY <1>2, <1>5, <2>1, FS_Subset
  <2> HIDE DEF R, Above
  <2> QED BY <1>1, <1>2, <2>2
<1>6. ASSUME NEW v \in D, NEW w \in D, totals[v] > totals[w] PROVE R[v] < R[w]
  <2>1. Above(v) \subseteq Above(w) /\ w \notin Above(v)
    BY <1>6
  <2> QED BY <1>5, <2>1
<1>7. ASSUME NEW v \in D, NEW w \in D, v # w PROVE R[v] # R[w]
  <2>1. \/ Above(v) \subseteq Above(w) /\ w \notin Above(v)
        \/ Above(w) \subseteq Above(v) /\ v \notin Above(w)
    <3>1. last[v] # last[w]
      BY <1>7
    <3>2. CASE totals[v] > totals[w]
      BY <3>2
    <3>3. CASE totals[w] > totals[v]
      BY <3>3
    <3>4. CASE totals[v] = totals[w] /\ last[v] > last[w]
      BY <3>4
    <3>5. CASE totals[v] = totals[w] /\ last[w] > last[v]
      BY <3>5
    <3> QED BY <3>1, <3>2, <3>3, <3>4, <3>5
  <2>2. R[v] < R[w] \/ R[w] < R[v]
    BY <1>5, <2>1
  <2> HIDE DEF R
  <2>3. R[v] \in Int /\ R[w] \in Int
    BY <1>3, <1>4
  <2> QED BY <2>2, <2>3
<1>8. R \in Injection(D, 1..n)
  <2> HIDE DEF n
  <2> QED BY <1>4, <1>7 DEF Injection, IsInjective
<1>9. IsFiniteSet(1..n) /\ Cardinality(1..n) = n
  BY <1>3, FS_Interval
<1>10. R \in Surjection(D, 1..n)
  BY <1>8, <1>9, FS_Injection
<1>11. {R[w] : w \in D} = 1..n
  <2>1. \A k \in 1..n : \E w \in D : R[w] = k
    <3> HIDE DEF R, n
    <3> QED BY <1>10 DEF Surjection
  <2> HIDE DEF R, n
  <2> QED BY <1>4, <2>1
<1> QED BY <1>6, <1>11

-----------------------------------------------------------------------------
(* The invariant.                                                           *)

SubmissionRow == [writer : Writers \cup {"none"}, competition : Competitions \cup {"none"},
                  status : Status \cup {"none"}]
PlacementRow  == [submission : Submissions \cup {0}, status : Status \cup {"none"},
                  verification : Verification \cup {"none"}]
Badge == [placement : Placements, status : Status]
Score == Int
Line  == [total : Int, rank : Nat, placements : Nat]

\* Partial functions.
Table(K, V) == UNION {[D -> V] : D \in SUBSET K}

Request == [at : Step, subs : Nat, found : Table(Placements, PlacementRow),
            rows : Table(Placements, Score), board : Table(Writers, Line), award : SUBSET Badge,
            dupes : SUBSET (Writers \X Competitions),
            seen : SUBSET Placements, gone : SUBSET Placements]

Ranked == {submission[s].writer : s \in Entered}

\* Rows are numbered in the order of creation; who is verified was verified.
InputsOK ==
  /\ submission \in [Submissions -> SubmissionRow]
  /\ placement \in [Placements -> PlacementRow]
  /\ TrackingTypeOK
  /\ Entered = 1..Cardinality(Entered) /\ Placed = 1..Cardinality(Placed)
  /\ prestige \in [Competitions -> Nat]
  /\ \A p \in Placed : placement[p].verification = "verified" => p \in verified

\* A badge names a placement that has been verified, and the status it was reported with.
Earned(badge) ==
  /\ badge \in Badge /\ badge.placement \in Placed \cap verified
  /\ badge.status = placement[badge.placement].status /\ badge.status # "pending"

ResultsOK ==
  /\ scores \in Table(Placements, Score) /\ DOMAIN scores \subseteq Placed
  /\ board \in Table(Writers, Line) /\ DOMAIN board \subseteq Ranked
  /\ flags \subseteq Writers \X Competitions
  /\ \A badge \in DOMAIN badges :
       /\ Earned(badge) /\ badges[badge] = 1
       /\ \A other \in DOMAIN badges : other.placement = badge.placement => other = badge

\* What a recomputation fetched may be old, but not wrong.
Knows(q) ==
  /\ 1..q.subs \subseteq Entered
  /\ \A p \in DOMAIN q.found :
       /\ p \in Placed
       /\ q.found[p].submission = placement[p].submission
       /\ q.found[p].status = placement[p].status
       /\ q.found[p].verification \in Verification
       /\ q.found[p].verification = "verified" => p \in verified
  /\ \A badge \in q.award : Earned(badge)
  /\ DOMAIN q.rows \cup q.seen \cup q.gone \subseteq Placed
  /\ DOMAIN q.board \subseteq Ranked

-----------------------------------------------------------------------------
(* What the results of a recomputation should be.                           *)

Own(w) == {p \in Placed : submission[placement[p].submission].writer = w}

TotalsAgree(rows, lines) ==
  /\ DOMAIN rows = Placed /\ DOMAIN lines = Ranked
  /\ \A w \in Ranked : /\ lines[w].total = SumOver(rows, Own(w))
                       /\ lines[w].placements = Cardinality(Own(w))

RanksAgree(lines) ==
  /\ {lines[w].rank : w \in DOMAIN lines} = 1..Cardinality(DOMAIN lines)
  /\ \A v, w \in DOMAIN lines : lines[v].total > lines[w].total => lines[v].rank < lines[w].rank

\* Every placement that deserves a badge is among these.
AwardsAgree(rewarded) ==
  \A p \in Placed : placement[p].verification = "verified" /\ placement[p].status # "pending"
                      => p \in rewarded

FlagsAgree(pairs) ==
  \A s, t \in Entered : s # t /\ submission[s].writer = submission[t].writer
                          /\ submission[s].competition = submission[t].competition
                          => <<submission[s].writer, submission[s].competition>> \in pairs

Awarded(q) == {badge.placement : badge \in q.award}

\* What a recomputation that has had inputs and tables to itself holds.
Current(q) ==
  /\ q.at # "idle"
  /\ q.at \in {"placements", "prestige"} => Entered = 1..q.subs
  /\ q.at = "prestige" => q.found = [p \in Placed |-> placement[p]]
  /\ q.at \in {"delete", "deleting", "insert", "commit"} => TotalsAgree(q.rows, q.board)
  /\ q.at = "deleting" => q.seen = DOMAIN scores
  /\ q.at \in {"insert", "commit"} => q.gone = DOMAIN scores
  /\ q.at \in {"badges", "award"} => TotalsAgree(scores, q.board)
  /\ q.at \in {"delete", "deleting", "insert", "commit", "badges", "award"} =>
       RanksAgree(q.board) /\ FlagsAgree(q.dupes)
  /\ q.at \in {"delete", "deleting", "insert", "commit", "badges"} => AwardsAgree(Awarded(q))
  /\ q.at = "award" => AwardsAgree(Awarded(q) \cup Badged)
  /\ q.at = "flags" => /\ TotalsAgree(scores, board) /\ RanksAgree(board)
                       /\ AwardsAgree(Badged) /\ FlagsAgree(q.dupes \cup flags)

AloneOK ==
  /\ alone = {} \/ \E w \in Workers : alone = {w}
  /\ \A w \in alone : Current(req[w]) /\ \A v \in Workers \ {w} : req[v] = Idle
  /\ settled => \A v \in Workers : req[v] = Idle
  /\ settled => /\ TotalsAgree(scores, board) /\ RanksAgree(board)
                /\ AwardsAgree(Badged) /\ FlagsAgree(flags)

IInv ==
  /\ InputsOK /\ ResultsOK /\ AloneOK
  /\ req \in [Workers -> Request] /\ \A w \in Workers : Knows(req[w])

-----------------------------------------------------------------------------
(* Tables and rows.                                                         *)

\* Lemma: What it takes to be a table with keys in K and rows in V.
LEMMA TableMember ==
  ASSUME NEW K, NEW V, NEW f
  PROVE  f \in Table(K, V) <=> /\ DOMAIN f \subseteq K /\ f = [x \in DOMAIN f |-> f[x]]
                               /\ \A x \in DOMAIN f : f[x] \in V
<1>1. ASSUME f \in Table(K, V)
      PROVE  /\ DOMAIN f \subseteq K /\ f = [x \in DOMAIN f |-> f[x]]
             /\ \A x \in DOMAIN f : f[x] \in V
  <2>1. PICK D \in SUBSET K : f \in [D -> V]
    BY <1>1 DEF Table
  <2> QED BY <2>1
<1>2. ASSUME DOMAIN f \subseteq K, f = [x \in DOMAIN f |-> f[x]], \A x \in DOMAIN f : f[x] \in V
      PROVE  f \in Table(K, V)
  <2>1. f \in [DOMAIN f -> V]
    BY <1>2
  <2> QED BY <1>2, <2>1 DEF Table
<1> QED BY <1>1, <1>2

\* Lemma: The empty table is a table of every kind.
LEMMA EmptyTable == \A K, V : <<>> \in Table(K, V) /\ DOMAIN <<>> = {}
<1>1. \A V : <<>> \in [{} -> V] /\ DOMAIN <<>> = {}
  OBVIOUS
<1> QED BY <1>1 DEF Table

\* Lemma: An upsert keeps the other rows of the table and replaces those it brings.
LEMMA UpsertRows ==
  ASSUME NEW rows, NEW table
  PROVE  /\ DOMAIN Upsert(rows, table) = DOMAIN rows \cup DOMAIN table
         /\ \A x \in DOMAIN rows : Upsert(rows, table)[x] = rows[x]
         /\ \A x \in DOMAIN table \ DOMAIN rows : Upsert(rows, table)[x] = table[x]
BY DEF Upsert

\* Rows for all that a table holds replace it.
LEMMA UpsertReplaces ==
  ASSUME NEW rows, NEW table, rows = [x \in DOMAIN rows |-> rows[x]],
         DOMAIN table \subseteq DOMAIN rows
  PROVE  Upsert(rows, table) = rows
<1> DEFINE D == DOMAIN rows \cup DOMAIN table
<1>1. D = DOMAIN rows
  OBVIOUS
<1>2. Upsert(rows, table) = [x \in D |-> IF x \in DOMAIN rows THEN rows[x] ELSE table[x]]
  BY DEF Upsert
<1> HIDE DEF D
<1> QED BY <1>1, <1>2

\* Lemma: An upsert of rows of a kind into a table of that kind gives such a table.
LEMMA UpsertTable ==
  ASSUME NEW K, NEW V, NEW rows \in Table(K, V), NEW table \in Table(K, V)
  PROVE  Upsert(rows, table) \in Table(K, V)
<1>1. /\ DOMAIN rows \subseteq K /\ \A x \in DOMAIN rows : rows[x] \in V
      /\ DOMAIN table \subseteq K /\ \A x \in DOMAIN table : table[x] \in V
  BY TableMember
<1> DEFINE new == [x \in DOMAIN rows \cup DOMAIN table |->
                     IF x \in DOMAIN rows THEN rows[x] ELSE table[x]]
<1>2. new = [x \in DOMAIN new |-> new[x]] /\ DOMAIN new = DOMAIN rows \cup DOMAIN table
  OBVIOUS
<1>3. \A x \in DOMAIN new : new[x] \in V
  BY <1>1
<1>4. new = Upsert(rows, table)
  BY DEF Upsert
<1> HIDE DEF new
<1> QED BY <1>1, <1>2, <1>3, <1>4, TableMember

\* Lemma: Some of the rows of a table make a table.
LEMMA SubTable ==
  ASSUME NEW K, NEW V, NEW table \in Table(K, V), NEW D, D \subseteq DOMAIN table
  PROVE  /\ [x \in D |-> table[x]] \in Table(K, V) /\ DOMAIN [x \in D |-> table[x]] = D
<1> DEFINE f == [x \in D |-> table[x]]
<1>1. DOMAIN table \subseteq K /\ \A x \in DOMAIN table : table[x] \in V
  BY TableMember
<1>2. DOMAIN f = D /\ f = [x \in DOMAIN f |-> f[x]] /\ \A x \in DOMAIN f : f[x] \in V
  BY <1>1
<1> HIDE DEF f
<1>3. f \in Table(K, V)
  BY <1>1, <1>2, TableMember
<1> QED BY <1>2, <1>3 DEF f

\* Rows with something in them.
LEMMA NewRows ==
  /\ \A w \in Writers, c \in Competitions, st \in Status :
       LET row == [writer |-> w, competition |-> c, status |-> st] IN
       row \in SubmissionRow /\ row # NoSubmission
  /\ \A s \in Submissions, st \in Status, v \in Verification :
       LET row == [submission |-> s, status |-> st, verification |-> v] IN
       row \in PlacementRow /\ row # NoPlacement
BY DEF SubmissionRow, PlacementRow, NoSubmission, NoPlacement, Status, Verification

\* Lemma: There are finitely many submissions and placements.
LEMMA FiniteInputs ==
  ASSUME TrackingAssumption
  PROVE  /\ IsFiniteSet(Entered) /\ Cardinality(Entered) \in Nat
         /\ IsFiniteSet(Placed) /\ Cardinality(Placed) \in Nat
         /\ \A S \in SUBSET Placed : IsFiniteSet(S) /\ Cardinality(S) \in Nat
<1>1. IsFiniteSet(Submissions) /\ IsFiniteSet(Placements)
  BY FS_Interval DEF TrackingAssumption, Submissions, Placements
<1>2. Entered \subseteq Submissions /\ Placed \subseteq Placements
  BY DEF Entered, Placed
<1>3. IsFiniteSet(Entered) /\ IsFiniteSet(Placed)
  BY <1>1, <1>2, FS_Subset
<1>4. \A S \in SUBSET Placed : IsFiniteSet(S)
  BY <1>3, FS_Subset
<1> QED BY <1>3, <1>4, FS_CardinalityType

-----------------------------------------------------------------------------
(* What no step takes back.                                                 *)

\* Rows keep their keys, placements their status, and who was verified stays so.
Lasting ==
  /\ Entered \subseteq Entered' /\ Placed \subseteq Placed' /\ verified \subseteq verified'
  /\ \A s \in Entered : submission'[s].writer = submission[s].writer
  /\ \A p \in Placed : /\ placement'[p].submission = placement[p].submission
                       /\ placement'[p].status = placement[p].status

\* Lemma: What has earned a badge is not taken back by a later input.
LEMMA EarnedLasts ==
  ASSUME Lasting, NEW badge, Earned(badge)
  PROVE  Earned(badge)'
BY DEF Lasting, Earned

\* Lemma: A writer with a submission keeps having one.
LEMMA RankedLasts ==
  ASSUME Lasting
  PROVE  Ranked \subseteq Ranked'
BY DEF Lasting, Ranked

\* What a recomputation fetched stays true while inputs change.
LEMMA KnowsLasts ==
  ASSUME Lasting, NEW q, Knows(q)
  PROVE  Knows(q)'
<1>1. \A badge \in q.award : Earned(badge)'
  BY EarnedLasts DEF Knows
<1>2. 1..q.subs \subseteq Entered'
  BY DEF Lasting, Knows
<1>3. \A p \in DOMAIN q.found :
       /\ p \in Placed'
       /\ q.found[p].submission = placement'[p].submission
       /\ q.found[p].status = placement'[p].status
       /\ q.found[p].verification \in Verification
       /\ q.found[p].verification = "verified" => p \in verified'
  BY DEF Lasting, Knows
<1>4. DOMAIN q.rows \cup q.seen \cup q.gone \subseteq Placed'
  BY DEF Lasting, Knows
<1>5. DOMAIN q.board \subseteq Ranked'
  BY RankedLasts DEF Knows
<1> QED BY <1>1, <1>2, <1>3, <1>4, <1>5 DEF Knows

\* Lemma: An input leaves the stored results well-formed: they speak of rows that stay.
LEMMA ResultsLast ==
  ASSUME Lasting, ResultsOK, UNCHANGED <<scores, badges, board>>,
         flags' \subseteq Writers \X Competitions
  PROVE  ResultsOK'
<1>1. scores' \in Table(Placements, Score) /\ DOMAIN scores' \subseteq Placed'
  BY DEF Lasting, ResultsOK
<1>2. board' \in Table(Writers, Line) /\ DOMAIN board' \subseteq Ranked'
  BY RankedLasts DEF ResultsOK
<1>3. \A badge \in DOMAIN badges' :
        /\ Earned(badge)' /\ badges'[badge] = 1
        /\ \A other \in DOMAIN badges' : other.placement = badge.placement => other = badge
  BY EarnedLasts DEF ResultsOK
<1> QED BY <1>1, <1>2, <1>3 DEF ResultsOK

\* Lemma: An input leaves every running recomputation with what it read still true.
LEMMA AllKnow ==
  ASSUME Lasting, UNCHANGED req, req \in [Workers -> Request], \A w \in Workers : Knows(req[w])
  PROVE  req' \in [Workers -> Request] /\ \A w \in Workers : Knows(req[w])'
<1>1. ASSUME NEW w \in Workers PROVE Knows(req[w])'
  <2>1. PICK q : q = req[w]
    OBVIOUS
  <2>2. Knows(q)'
    BY <2>1, KnowsLasts
  <2>3. req'[w] = q
    BY <2>1
  <2> QED BY <2>2, <2>3
<1> QED BY <1>1

-----------------------------------------------------------------------------
(* Inputs change.                                                           *)

\* Lemma: An input keeps the invariant whenever the input rows stay well-formed.
LEMMA InputKeeps ==
  ASSUME IInv, Lasting, InputsOK', Disturb, UNCHANGED <<scores, badges, board, req>>,
         flags' \subseteq Writers \X Competitions
  PROVE  IInv'
<1>1. ResultsOK'
  BY ResultsLast DEF IInv
<1>2. req' \in [Workers -> Request] /\ \A w \in Workers : Knows(req[w])'
  BY AllKnow DEF IInv
<1>3. AloneOK'
  BY DEF AloneOK, Disturb
<1> QED BY <1>1, <1>2, <1>3 DEF IInv

\* Lemma: Entering a competition keeps the invariant.
LEMMA EnterKeeps ==
  ASSUME IInv, TrackingAssumption, EnterCompetition
  PROVE  IInv'
<1>1. PICK w \in Writers, c \in Competitions, st \in EntryStatuses : CreateSubmission(w, c, st)
  BY DEF EnterCompetition
<1> DEFINE n == Cardinality(Entered) + 1
           row == [writer |-> w, competition |-> c, status |-> st]
<1>2. /\ n \in Submissions /\ UNCHANGED <<placement, updating>>
      /\ submission' = [submission EXCEPT ![n] = row]
  BY <1>1 DEF CreateSubmission
<1>3. row \in SubmissionRow /\ row # NoSubmission /\ st \in Status
  BY NewRows DEF TrackingAssumption
<1>4. n \in Nat \ {0} /\ Entered = 1..(n - 1) /\ submission \in [Submissions -> SubmissionRow]
  BY FiniteInputs DEF IInv, InputsOK
<1>5. row.writer = w /\ row.competition = c /\ row.status = st
  OBVIOUS
<1> HIDE DEF n, row
<1>6. /\ submission' \in [Submissions -> SubmissionRow] /\ submission'[n] = row
      /\ \A s \in Submissions : s # n => submission'[s] = submission[s]
  BY <1>2, <1>3, <1>4
<1>7. n \notin Entered /\ Entered' = Entered \cup {n}
  BY <1>2, <1>3, <1>4, <1>6 DEF Entered
<1>8. Entered' = 1..n /\ Cardinality(1..n) = n
  BY <1>4, <1>7, FS_Interval
<1>9. Placed' = Placed /\ placement' = placement /\ UNCHANGED <<prestige, verified>>
  BY <1>2 DEF Placed, EnterCompetition, tableVars
<1>10. Entered \subseteq Submissions
  BY DEF Entered
<1>11. Lasting
  BY <1>6, <1>7, <1>9, <1>10 DEF Lasting
<1>12. TrackingTypeOK'
  BY <1>2, <1>3, <1>5, <1>6, <1>7, <1>9, <1>10 DEF TrackingTypeOK, IInv, InputsOK
<1>13. InputsOK'
  BY <1>6, <1>8, <1>9, <1>12 DEF IInv, InputsOK
<1> QED BY <1>11, <1>13, InputKeeps DEF EnterCompetition, tableVars, IInv, ResultsOK

\* Lemma: Reporting a placement keeps the invariant.
LEMMA ReportKeeps ==
  ASSUME IInv, TrackingAssumption, ReportPlacement
  PROVE  IInv'
<1>1. PICK s \in Submissions, st \in Statuses : CreatePlacement(s, st)
  BY DEF ReportPlacement
<1> DEFINE n == Cardinality(Placed) + 1
           row == [submission |-> s, status |-> st, verification |-> "pending"]
<1>2. /\ n \in Placements /\ s \in Entered /\ submission' = submission
      /\ updating' = updating \cup {n} /\ placement' = [placement EXCEPT ![n] = row]
  BY <1>1 DEF CreatePlacement
<1>3. row \in PlacementRow /\ row # NoPlacement /\ st \in Status
  <2>1. st \in Status /\ "pending" \in Verification
    BY DEF TrackingAssumption, Verification
  <2> QED BY <2>1, NewRows
<1>4. n \in Nat \ {0} /\ Placed = 1..(n - 1) /\ placement \in [Placements -> PlacementRow]
  BY FiniteInputs DEF IInv, InputsOK
<1>5. row.submission = s /\ row.status = st /\ row.verification = "pending"
  OBVIOUS
<1> HIDE DEF n, row
<1>6. /\ placement' \in [Placements -> PlacementRow] /\ placement'[n] = row
      /\ \A p \in Placements : p # n => placement'[p] = placement[p]
  BY <1>2, <1>3, <1>4
<1>7. n \notin Placed /\ Placed' = Placed \cup {n}
  BY <1>2, <1>3, <1>4, <1>6 DEF Placed
<1>8. Placed' = 1..n /\ Cardinality(1..n) = n
  BY <1>4, <1>7, FS_Interval
<1>9. Entered' = Entered /\ UNCHANGED <<prestige, verified>>
  BY <1>2 DEF Entered, ReportPlacement, tableVars
<1>10. Placed \subseteq Placements
  BY DEF Placed
<1>11. Lasting
  BY <1>2, <1>6, <1>7, <1>9, <1>10 DEF Lasting
<1>12. TrackingTypeOK'
  BY <1>2, <1>3, <1>5, <1>6, <1>7, <1>9, <1>10 DEF TrackingTypeOK, IInv, InputsOK, Verification
<1>13. InputsOK'
  BY <1>2, <1>5, <1>6, <1>7, <1>8, <1>9, <1>10, <1>12 DEF IInv, InputsOK
<1> QED BY <1>11, <1>13, InputKeeps DEF ReportPlacement, tableVars, IInv, ResultsOK

\* Lemma: Verifying or rejecting a placement keeps the invariant.
LEMMA VerifyKeeps ==
  ASSUME IInv, NEW p \in Placements, NEW state \in Verification, VerifyPlacement(p, state)
  PROVE  IInv'
<1>1. /\ p \in Placed /\ UNCHANGED <<submission, updating, prestige>>
      /\ placement' = [placement EXCEPT ![p].verification = state]
      /\ verified' = verified \cup (IF state = "verified" THEN {p} ELSE {})
  BY DEF VerifyPlacement, UpdatePlacementVerification, tableVars
<1>2. placement \in [Placements -> PlacementRow]
  BY DEF IInv, InputsOK
<1>3. /\ placement' \in [Placements -> PlacementRow]
      /\ \A r \in Placements : /\ placement'[r].submission = placement[r].submission
                               /\ placement'[r].status = placement[r].status
      /\ \A r \in Placements \ {p} : placement'[r] = placement[r]
      /\ placement'[p].verification = state
  BY <1>1, <1>2 DEF PlacementRow
<1>4. Entered' = Entered
  BY <1>1 DEF Entered
<1>5. placement[p].status # "none"
  BY <1>1 DEF IInv, InputsOK, TrackingTypeOK, Status
<1>6. Placed' = Placed
  BY <1>1, <1>3, <1>5 DEF Placed, NoPlacement
<1>7. Placed \subseteq Placements
  BY DEF Placed
<1>8. Lasting
  BY <1>1, <1>3, <1>4, <1>6, <1>7 DEF Lasting
<1>9. TrackingTypeOK'
  BY <1>1, <1>3, <1>4, <1>6, <1>7 DEF TrackingTypeOK, IInv, InputsOK
<1>10. InputsOK'
  BY <1>1, <1>3, <1>4, <1>6, <1>7, <1>9 DEF IInv, InputsOK
<1> QED BY <1>8, <1>10, InputKeeps DEF VerifyPlacement, tableVars, IInv, ResultsOK

\* Lemma: Changing a competition's prestige keeps the invariant.
LEMMA PrestigeKeeps ==
  ASSUME IInv, RankingAssumption, NEW c \in Competitions, NEW m \in Multipliers, UpsertPrestige(c, m)
  PROVE  IInv'
<1>1. prestige' \in [Competitions -> Nat] /\ UNCHANGED <<submission, placement, updating, verified>>
  BY DEF UpsertPrestige, IInv, InputsOK, RankingAssumption, trackingVars
<1>2. Entered' = Entered /\ Placed' = Placed
  BY <1>1 DEF Entered, Placed
<1>3. Lasting
  BY <1>1, <1>2 DEF Lasting
<1>4. TrackingTypeOK'
  BY <1>1, <1>2 DEF TrackingTypeOK, IInv, InputsOK
<1>5. InputsOK'
  BY <1>1, <1>2, <1>4 DEF IInv, InputsOK
<1> QED BY <1>3, <1>5, InputKeeps DEF UpsertPrestige, IInv, ResultsOK

\* Lemma: A step that leaves the input rows alone leaves what is defined by them alone.
LEMMA SameInputs ==
  ASSUME InputsOK, UNCHANGED Inputs
  PROVE  /\ InputsOK' /\ Lasting /\ Entered' = Entered /\ Placed' = Placed /\ Ranked' = Ranked
         /\ \A w : Own(w)' = Own(w)
<1>1. UNCHANGED <<submission, placement, updating, prestige, verified>>
  BY DEF Inputs, trackingVars
<1>2. Entered' = Entered /\ Placed' = Placed
  BY <1>1 DEF Entered, Placed
<1>3. Lasting
  BY <1>1, <1>2 DEF Lasting
<1>4. TrackingTypeOK'
  BY <1>1, <1>2 DEF TrackingTypeOK, InputsOK
<1>5. InputsOK'
  BY <1>1, <1>2, <1>4 DEF InputsOK
<1>6. Ranked' = Ranked /\ \A w : Own(w)' = Own(w)
  BY <1>1, <1>2 DEF Ranked, Own
<1> QED BY <1>2, <1>3, <1>5, <1>6

\* Lemma: Resolving a flag keeps the invariant.
LEMMA ResolveKeeps ==
  ASSUME IInv, NEW flag \in flags, ResolveFlag(flag)
  PROVE  IInv'
<1>1. UNCHANGED Inputs /\ flags' \subseteq flags
  BY DEF ResolveFlag, Inputs
<1> QED BY <1>1, SameInputs, InputKeeps DEF ResolveFlag, IInv, ResultsOK

-----------------------------------------------------------------------------
(* Inputs do not change, apart from the status of a submission.             *)

SameRows ==
  /\ placement' = placement /\ Entered' = Entered /\ Placed' = Placed
  /\ \A s \in Entered : /\ submission'[s].writer = submission[s].writer
                        /\ submission'[s].competition = submission[s].competition

\* Lemma: A step that keeps every placement and every entry keeps what each writer owns.
LEMMA SameOwn ==
  ASSUME TrackingTypeOK, SameRows
  PROVE  Ranked' = Ranked /\ \A w : Own(w)' = Own(w)
<1>1. Ranked' = Ranked
  BY DEF SameRows, Ranked
<1>2. ASSUME NEW w PROVE Own(w)' = Own(w)
  BY DEF SameRows, Own, TrackingTypeOK
<1> QED BY <1>1, <1>2

\* Lemma: Under such a step the results that agreed with the inputs still do.
LEMMA AgreeStays ==
  ASSUME TrackingTypeOK, SameRows
  PROVE  /\ \A rows, lines : TotalsAgree(rows, lines) => TotalsAgree(rows, lines)'
         /\ \A rewarded : AwardsAgree(rewarded) => AwardsAgree(rewarded)'
         /\ \A pairs : FlagsAgree(pairs) => FlagsAgree(pairs)'
<1>1. ASSUME NEW rows, NEW lines, TotalsAgree(rows, lines) PROVE TotalsAgree(rows, lines)'
  BY <1>1, SameOwn DEF SameRows, TotalsAgree
<1>2. ASSUME NEW rewarded, AwardsAgree(rewarded) PROVE AwardsAgree(rewarded)'
  BY <1>2 DEF SameRows, AwardsAgree
<1>3. ASSUME NEW pairs, FlagsAgree(pairs) PROVE FlagsAgree(pairs)'
  BY <1>3 DEF SameRows, FlagsAgree
<1> QED BY <1>1, <1>2, <1>3

\* What results should be, of tables that have not changed.
LEMMA ResultsAgree ==
  ASSUME TrackingTypeOK, SameRows, UNCHANGED <<scores, badges, board, flags>>
  PROVE  /\ \A lines : TotalsAgree(scores, lines) => TotalsAgree(scores, lines)'
         /\ TotalsAgree(scores, board) => TotalsAgree(scores, board)'
         /\ RanksAgree(board) => RanksAgree(board)'
         /\ \A more : AwardsAgree(more \cup Badged) => AwardsAgree(more \cup Badged)'
         /\ AwardsAgree(Badged) => AwardsAgree(Badged)'
         /\ \A more : FlagsAgree(more \cup flags) => FlagsAgree(more \cup flags)'
         /\ FlagsAgree(flags) => FlagsAgree(flags)'
<1>1. PICK sc, bd, fl, ba : sc = scores /\ bd = board /\ fl = flags /\ ba = Badged
  OBVIOUS
<1>2. scores' = sc /\ board' = bd /\ flags' = fl /\ Badged' = ba
  BY <1>1 DEF Badged
<1>3. ASSUME NEW lines, TotalsAgree(scores, lines) PROVE TotalsAgree(scores, lines)'
  <2>1. TotalsAgree(sc, lines)'
    BY <1>1, <1>3, AgreeStays
  <2> QED BY <1>2, <2>1 DEF TotalsAgree
<1>4. ASSUME TotalsAgree(scores, board) PROVE TotalsAgree(scores, board)'
  <2>1. TotalsAgree(sc, bd)'
    BY <1>1, <1>4, AgreeStays
  <2> QED BY <1>2, <2>1 DEF TotalsAgree
<1>5. RanksAgree(board) => RanksAgree(board)'
  BY <1>1, <1>2 DEF RanksAgree
<1>6. ASSUME NEW more, AwardsAgree(more \cup Badged) PROVE AwardsAgree(more \cup Badged)'
  <2>1. AwardsAgree(more \cup ba)'
    BY <1>1, <1>6, AgreeStays
  <2> QED BY <1>2, <2>1 DEF AwardsAgree
<1>7. ASSUME AwardsAgree(Badged) PROVE AwardsAgree(Badged)'
  <2>1. AwardsAgree(ba)'
    BY <1>1, <1>7, AgreeStays
  <2> QED BY <1>2, <2>1 DEF AwardsAgree
<1>8. ASSUME NEW more, FlagsAgree(more \cup flags) PROVE FlagsAgree(more \cup flags)'
  <2>1. FlagsAgree(more \cup fl)'
    BY <1>1, <1>8, AgreeStays
  <2> QED BY <1>2, <2>1 DEF FlagsAgree
<1>9. ASSUME FlagsAgree(flags) PROVE FlagsAgree(flags)'
  <2>1. FlagsAgree(fl)'
    BY <1>1, <1>9, AgreeStays
  <2> QED BY <1>2, <2>1 DEF FlagsAgree
<1> QED BY <1>3, <1>4, <1>5, <1>6, <1>7, <1>8, <1>9

\* Lemma: Under such a step a current recomputation stays current.
LEMMA CurrentStays ==
  ASSUME TrackingTypeOK, SameRows, UNCHANGED <<scores, badges, board, flags>>, NEW q, Current(q)
  PROVE  Current(q)'
<1>1. /\ q.at # "idle"
      /\ q.at \in {"placements", "prestige"} => Entered' = 1..q.subs
      /\ q.at = "prestige" => q.found = [p \in Placed' |-> placement'[p]]
      /\ q.at = "deleting" => q.seen = DOMAIN scores'
      /\ q.at \in {"insert", "commit"} => q.gone = DOMAIN scores'
  BY DEF Current, SameRows
<1>2. /\ q.at \in {"delete", "deleting", "insert", "commit"} => TotalsAgree(q.rows, q.board)'
      /\ q.at \in {"badges", "award"} => TotalsAgree(scores, q.board)'
      /\ q.at \in {"delete", "deleting", "insert", "commit", "badges", "award"} =>
           RanksAgree(q.board) /\ FlagsAgree(q.dupes)'
      /\ q.at \in {"delete", "deleting", "insert", "commit", "badges"} => AwardsAgree(Awarded(q))'
  BY AgreeStays, ResultsAgree DEF Current
<1>3. /\ q.at = "award" => AwardsAgree(Awarded(q) \cup Badged)'
      /\ q.at = "flags" => /\ TotalsAgree(scores, board)' /\ RanksAgree(board)'
                           /\ AwardsAgree(Badged)' /\ FlagsAgree(q.dupes \cup flags)'
  BY ResultsAgree DEF Current
<1>4. RanksAgree(q.board) => RanksAgree(q.board)'
  BY DEF RanksAgree
<1> QED BY <1>1, <1>2, <1>3, <1>4 DEF Current

\* Lemma: A status update keeps the invariant.
LEMMA UpdateKeeps ==
  ASSUME IInv, UpdateStatus
  PROVE  IInv'
<1>1. PICK p \in Placements : UpdateSubmissionStatus(p)
  BY DEF UpdateStatus
<1>2. /\ p \in Placed /\ UNCHANGED <<placement, prestige, verified>>
      /\ submission' = [submission EXCEPT ![placement[p].submission].status = placement[p].status]
      /\ updating' \subseteq updating /\ UNCHANGED <<scores, badges, board, flags, req, alone, settled>>
  BY <1>1 DEF UpdateSubmissionStatus, UpdateStatus, tableVars, IInv, InputsOK, TrackingTypeOK
<1>3. PICK s \in Entered, st \in Status : s = placement[p].submission /\ st = placement[p].status
  BY <1>2 DEF IInv, InputsOK, TrackingTypeOK
<1>4. submission \in [Submissions -> SubmissionRow] /\ Entered \subseteq Submissions
  BY DEF IInv, InputsOK, Entered
<1>5. /\ submission' \in [Submissions -> SubmissionRow]
      /\ \A t \in Submissions : /\ submission'[t].writer = submission[t].writer
                                /\ submission'[t].competition = submission[t].competition
      /\ \A t \in Submissions \ {s} : submission'[t] = submission[t]
      /\ submission'[s].status = st
  BY <1>2, <1>3, <1>4 DEF SubmissionRow
<1>6. submission'[s] # NoSubmission
  <2>1. st # "none"
    BY <1>3 DEF Status
  <2> QED BY <1>5, <2>1 DEF NoSubmission
<1>7. Entered' = Entered /\ Placed' = Placed
  BY <1>2, <1>3, <1>5, <1>6 DEF Entered, Placed
<1>8. SameRows /\ Lasting /\ TrackingTypeOK
  BY <1>2, <1>4, <1>5, <1>7 DEF SameRows, Lasting, IInv, InputsOK
<1>9. TrackingTypeOK'
  BY <1>2, <1>3, <1>4, <1>5, <1>7 DEF TrackingTypeOK, IInv, InputsOK
<1>10. InputsOK'
  BY <1>2, <1>5, <1>7, <1>9 DEF IInv, InputsOK
<1>11. ResultsOK'
  BY <1>2, <1>8, ResultsLast DEF IInv, ResultsOK
<1>12. req' \in [Workers -> Request] /\ \A w \in Workers : Knows(req[w])'
  BY <1>2, <1>8, AllKnow DEF IInv
<1>13. \A w \in alone : w \in Workers => Current(req[w])'
  <2> SUFFICES ASSUME NEW w \in alone, w \in Workers PROVE Current(req[w])'
    OBVIOUS
  <2>1. PICK q : q = req[w]
    OBVIOUS
  <2>2. Current(q)'
    BY <1>2, <1>8, <2>1, CurrentStays DEF IInv, AloneOK
  <2>3. req'[w] = q
    BY <1>2, <2>1
  <2> QED BY <2>2, <2>3
<1>14. AloneOK'
  BY <1>2, <1>8, <1>13, ResultsAgree DEF AloneOK, IInv
<1> QED BY <1>10, <1>11, <1>12, <1>14 DEF IInv

-----------------------------------------------------------------------------
(* A recomputation takes a step.                                            *)

\* Lemma: The idle request is a request and relies on nothing.
LEMMA IdleKnows == Idle \in Request /\ Knows(Idle)
<1>1. <<>> \in Table(Placements, PlacementRow) /\ <<>> \in Table(Placements, Score)
      /\ <<>> \in Table(Writers, Line) /\ DOMAIN <<>> = {}
  BY EmptyTable
<1>2. Idle \in Request
  BY <1>1 DEF Idle, Request, Step
<1>3. 1..0 = {}
  OBVIOUS
<1> QED BY <1>1, <1>2, <1>3 DEF Idle, Knows

\* Lemma: Initially the invariant holds.
LEMMA InitHolds ==
  ASSUME Init, TrackingAssumption
  PROVE  IInv
<1>1. Entered = {} /\ Placed = {} /\ 1..0 = {} /\ Cardinality({}) = 0
  BY FS_EmptySet DEF Init, TrackingInit, Entered, Placed
<1>2. TrackingTypeOK
  BY <1>1 DEF Init, TrackingInit, TrackingTypeOK
<1>3. InputsOK
  BY <1>1, <1>2 DEF Init, TrackingInit, InputsOK, SubmissionRow, PlacementRow, NoSubmission, NoPlacement
<1>4. ResultsOK
  BY EmptyTable DEF Init, ResultsOK
<1>5. req \in [Workers -> Request] /\ \A w \in Workers : Knows(req[w])
  BY IdleKnows DEF Init
<1>6. AloneOK
  BY DEF Init, AloneOK
<1> QED BY <1>3, <1>4, <1>5, <1>6 DEF IInv

\* A recomputation, and what it may rely on.
LEMMA Running ==
  ASSUME IInv, NEW w \in Workers
  PROVE  /\ req[w] \in Request /\ Knows(req[w]) /\ (w \in alone => Current(req[w]))
         /\ TrackingTypeOK
BY DEF IInv, InputsOK, AloneOK

\* Lemma: What a step of one recomputation has to show to keep the invariant.
LEMMA StepKeeps ==
  ASSUME IInv, NEW w \in Workers, ~At(w, "idle"), UNCHANGED <<Inputs, alone, settled>>, ResultsOK',
         req' \in [Workers -> Request], \A v \in Workers : Knows(req[v])',
         \A v \in Workers \ {w} : req[v] = Idle => req'[v] = Idle,
         w \in alone => Current(req[w])'
  PROVE  IInv'
<1>1. InputsOK'
  BY SameInputs DEF IInv
<1>2. req[w] # Idle
  BY DEF At, Idle
<1>3. ~settled /\ (alone = {} \/ alone = {w})
  BY <1>2 DEF IInv, AloneOK
<1>4. AloneOK'
  BY <1>2, <1>3 DEF IInv, AloneOK
<1> QED BY <1>1, <1>4 DEF IInv

\* Lemma: A step of one recomputation leaves the others with what they read.
LEMMA OthersKnow ==
  ASSUME IInv, NEW w \in Workers, Lasting, NEW q \in Request, Resume(w, q), Knows(q)'
  PROVE  /\ req' \in [Workers -> Request] /\ req'[w] = q
         /\ \A v \in Workers : Knows(req[v])'
         /\ \A v \in Workers \ {w} : req'[v] = req[v]
<1>1. /\ req' \in [Workers -> Request] /\ req'[w] = q
      /\ \A v \in Workers \ {w} : req'[v] = req[v]
  BY DEF IInv, Resume
<1>2. ASSUME NEW v \in Workers PROVE Knows(req[v])'
  <2>1. CASE v = w
    <3>1. req'[v] = q
      BY <1>1, <2>1
    <3> QED BY <3>1
  <2>2. CASE v # w
    <3>1. PICK r : r = req[v] /\ Knows(r)
      BY DEF IInv
    <3>2. Knows(r)' /\ req'[v] = r
      BY <1>1, <2>2, <3>1, KnowsLasts
    <3> QED BY <3>2
  <2> QED BY <2>1, <2>2
<1> QED BY <1>1, <1>2

\* A step after which a recomputation holds q.
LEMMA GoesOn ==
  ASSUME IInv, NEW w \in Workers, ~At(w, "idle"), Going, ResultsOK',
         NEW q \in Request, Resume(w, q), Knows(q)', w \in alone => Current(q)'
  PROVE  IInv'
<1>1. UNCHANGED <<Inputs, alone, settled>> /\ Lasting
  BY SameInputs DEF Going, IInv
<1>2. /\ req' \in [Workers -> Request] /\ req'[w] = q
      /\ \A v \in Workers : Knows(req[v])'
      /\ \A v \in Workers \ {w} : req'[v] = req[v]
  BY <1>1, OthersKnow
<1>3. w \in alone => Current(req[w])'
  <2>1. Current(q)' => Current(req[w])'
    BY <1>2
  <2> QED BY <2>1
<1> QED BY <1>1, <1>2, <1>3, StepKeeps

\* A step that writes no table.
LEMMA OnlyGoesOn ==
  ASSUME IInv, NEW w \in Workers, ~At(w, "idle"), Going, UNCHANGED <<scores, badges, board, flags>>,
         NEW q \in Request, Resume(w, q), Knows(q), w \in alone => Current(q)
  PROVE  IInv'
<1>1. Lasting /\ TrackingTypeOK
  BY SameInputs DEF Going, IInv, InputsOK
<1>2. SameRows
  BY SameInputs DEF Going, IInv, SameRows, Inputs, trackingVars
<1>3. ResultsOK'
  BY <1>1, ResultsLast DEF IInv, ResultsOK
<1>4. Knows(q)' /\ (w \in alone => Current(q)')
  BY <1>1, <1>2, KnowsLasts, CurrentStays
<1> QED BY <1>3, <1>4, GoesOn

\* Lemma: Fetching the submissions keeps the invariant, also when none are in the answer.
LEMMA FetchSubmissionsKeeps ==
  ASSUME IInv, TrackingAssumption, NEW w \in Workers, NEW answered \in BOOLEAN,
         FetchSubmissions(w, answered)
  PROVE  IInv'
<1> DEFINE n == IF answered THEN Cardinality(Entered) ELSE 0
           q == [Idle EXCEPT !.at = "placements", !.subs = n]
<1>1. n \in Nat /\ 1..n \subseteq Entered /\ (answered => n = Cardinality(Entered))
  <2>1. 1..0 = {}
    OBVIOUS
  <2> QED BY <2>1, FiniteInputs DEF IInv, InputsOK
<1>2. q \in Request /\ q.at = "placements" /\ q.subs = n
  <2> HIDE DEF n
  <2> QED BY <1>1, IdleKnows DEF Request, Step
<1>3. Knows(q)
  <2> HIDE DEF n
  <2> QED BY <1>1, IdleKnows DEF Knows, Idle
<1>4. PICK r \in Request : r = q
  BY <1>2
<1>5. Resume(w, r) /\ UNCHANGED Inputs /\ UNCHANGED <<scores, badges, board, flags>>
  BY <1>4 DEF FetchSubmissions
<1>6. InputsOK' /\ Lasting /\ Entered' = Entered
  BY <1>5, SameInputs DEF IInv
<1>7. ResultsOK'
  BY <1>5, <1>6, ResultsLast DEF IInv, ResultsOK
<1> HIDE DEF q, n
<1>8. /\ req' \in [Workers -> Request] /\ req'[w] = r
      /\ \A v \in Workers : Knows(req[v])'
      /\ \A v \in Workers \ {w} : req'[v] = req[v]
  BY <1>3, <1>4, <1>5, <1>6, KnowsLasts, OthersKnow
<1>9. answered => Current(r)'
  BY <1>1, <1>2, <1>4, <1>6 DEF Current, IInv, InputsOK
<1>10. answered => Current(req[w])'
  <2>1. Current(r)' => Current(req[w])'
    BY <1>8
  <2> QED BY <1>9, <2>1
<1>11. AloneOK'
  <2>1. settled' = FALSE /\ alone' = IF answered /\ req = [v \in Workers |-> Idle] THEN {w} ELSE {}
    BY DEF FetchSubmissions
  <2>2. alone' = {w} => \A v \in Workers \ {w} : req'[v] = Idle
    BY <1>8, <2>1
  <2> QED BY <1>10, <2>1, <2>2 DEF AloneOK
<1> QED BY <1>6, <1>7, <1>8, <1>11 DEF IInv

\* A recomputation ends, by itself or with the process.
LEMMA EndKeeps ==
  ASSUME IInv, NEW w \in Workers, Finish(w) \/ Throw(w)
  PROVE  IInv'
<1>1. /\ ~At(w, "idle") /\ Resume(w, Idle) /\ UNCHANGED Inputs /\ alone' = alone \ {w}
      /\ UNCHANGED <<scores, badges, board, flags>>
  BY DEF Finish, Throw, At
<1>2. InputsOK' /\ Lasting
  BY <1>1, SameInputs DEF IInv
<1>3. SameRows /\ TrackingTypeOK
  BY <1>1, SameInputs DEF IInv, InputsOK, SameRows, Inputs, trackingVars
<1>4. ResultsOK'
  BY <1>1, <1>2, ResultsLast DEF IInv, ResultsOK
<1>5. /\ req' \in [Workers -> Request] /\ req'[w] = Idle
      /\ \A v \in Workers : Knows(req[v])'
      /\ \A v \in Workers \ {w} : req'[v] = req[v]
  BY <1>1, <1>2, IdleKnows, KnowsLasts, OthersKnow
<1>6. ~settled /\ (alone = {} \/ alone = {w})
  BY <1>1 DEF IInv, AloneOK, At, Idle
<1>7. ASSUME settled'
      PROVE  /\ \A v \in Workers : req'[v] = Idle
             /\ TotalsAgree(scores, board)' /\ RanksAgree(board)'
             /\ AwardsAgree(Badged)' /\ FlagsAgree(flags)'
  <2>1. w \in alone /\ req[w].at = "flags" /\ req[w].dupes = {}
    BY <1>6, <1>7 DEF Finish, Throw, At
  <2>2. Current(req[w]) /\ \A v \in Workers \ {w} : req[v] = Idle
    BY <2>1 DEF IInv, AloneOK
  <2>3. {} \cup flags = flags
    OBVIOUS
  <2>4. /\ TotalsAgree(scores, board) /\ RanksAgree(board)
        /\ AwardsAgree(Badged) /\ FlagsAgree(flags)
    BY <2>1, <2>2, <2>3 DEF Current
  <2> QED BY <1>1, <1>3, <1>5, <2>2, <2>4, ResultsAgree
<1>8. AloneOK'
  BY <1>1, <1>6, <1>7 DEF AloneOK
<1> QED BY <1>2, <1>4, <1>5, <1>8 DEF IInv

-----------------------------------------------------------------------------
(* Its steps, one by one.                                                   *)

\* Lemma: Fetching the placements keeps the invariant.
LEMMA FetchPlacementsKeeps ==
  ASSUME IInv, NEW w \in Workers, FetchPlacements(w, TRUE)
  PROVE  IInv'
<1>1. PICK q \in Request : q = req[w] /\ Knows(q) /\ (w \in alone => Current(q))
  BY Running
<1> DEFINE f == [p \in Placed |-> placement[p]]
<1>2. /\ DOMAIN f = Placed /\ \A p \in Placed : f[p] = placement[p]
      /\ f \in Table(Placements, PlacementRow)
  <2>1. Placed \subseteq Placements /\ placement \in [Placements -> PlacementRow]
    BY DEF IInv, InputsOK, Placed
  <2>2. f \in [Placed -> PlacementRow]
    BY <2>1
  <2> QED BY <2>1, <2>2 DEF Table
<1>3. PICK r : r = [q EXCEPT !.at = "prestige", !.found = f]
  OBVIOUS
<1>4. q.at = "placements" /\ Resume(w, r) /\ Going /\ UNCHANGED <<scores, badges, board, flags>>
  BY <1>1, <1>3 DEF FetchPlacements, At, Going
<1>5. r \in Request
  <2> HIDE DEF f
  <2> QED BY <1>2, <1>3 DEF Request, Step
<1>6. /\ r.at = "prestige" /\ r.found = f /\ r.subs = q.subs /\ r.rows = q.rows /\ r.board = q.board
      /\ r.award = q.award /\ r.seen = q.seen /\ r.gone = q.gone
  BY <1>1, <1>3 DEF Request
<1>7. \A p \in Placed : /\ placement[p].verification \in Verification
                        /\ placement[p].verification = "verified" => p \in verified
  BY DEF IInv, InputsOK, TrackingTypeOK
<1>8. Knows(r)
  <2> HIDE DEF f
  <2> QED BY <1>1, <1>2, <1>6, <1>7 DEF Knows
<1>9. w \in alone => Current(r)
  BY <1>1, <1>4, <1>6 DEF Current
<1> QED BY <1>1, <1>4, <1>5, <1>8, <1>9, OnlyGoesOn DEF At

\* Lemma: So does an error answer: what is computed from it is not from the inputs any more.
LEMMA ErrorAnswerKeeps ==
  ASSUME IInv, NEW w \in Workers, FetchPlacements(w, FALSE)
  PROVE  IInv'
<1>1. PICK q \in Request : q = req[w] /\ Knows(q)
  BY Running
<1>2. PICK r : r = [q EXCEPT !.at = "prestige", !.found = <<>>]
  OBVIOUS
<1>3. /\ ~At(w, "idle") /\ Resume(w, r) /\ UNCHANGED Inputs /\ alone' = alone \ {w}
      /\ UNCHANGED <<scores, badges, board, flags>> /\ settled' = settled
  BY <1>1, <1>2 DEF FetchPlacements, At
<1>4. r \in Request
  BY <1>2, EmptyTable DEF Request, Step
<1>5. /\ r.found = <<>> /\ r.subs = q.subs /\ r.rows = q.rows /\ r.board = q.board
      /\ r.award = q.award /\ r.seen = q.seen /\ r.gone = q.gone
  BY <1>1, <1>2 DEF Request
<1>6. Knows(r)
  BY <1>1, <1>5, EmptyTable DEF Knows
<1>7. InputsOK' /\ Lasting
  BY <1>3, SameInputs DEF IInv
<1>8. ResultsOK'
  BY <1>3, <1>7, ResultsLast DEF IInv, ResultsOK
<1>9. /\ req' \in [Workers -> Request] /\ \A v \in Workers : Knows(req[v])'
  BY <1>3, <1>4, <1>6, <1>7, KnowsLasts, OthersKnow
<1>10. ~settled /\ (alone = {} \/ alone = {w})
  BY <1>3 DEF IInv, AloneOK, At, Idle
<1>11. AloneOK'
  BY <1>3, <1>10 DEF AloneOK
<1> QED BY <1>7, <1>8, <1>9, <1>11 DEF IInv

\* Lemma: Deleting and inserting the score rows inside the transaction keeps the invariant.
LEMMA DeleteKeeps ==
  ASSUME IInv, NEW w \in Workers, BeginDelete(w) \/ DeleteScores(w) \/ InsertScores(w)
  PROVE  IInv'
<1>1. PICK q \in Request : q = req[w] /\ Knows(q) /\ (w \in alone => Current(q))
  BY Running
<1>2. DOMAIN scores \subseteq Placed /\ Placed \subseteq Placements
  BY DEF IInv, ResultsOK, Placed
<1>3. PICK r : \/ r = [q EXCEPT !.at = "deleting", !.seen = DOMAIN scores] /\ BeginDelete(w)
               \/ r = [q EXCEPT !.at = "insert", !.gone = q.seen, !.seen = {}] /\ DeleteScores(w)
               \/ r = [q EXCEPT !.at = "commit"] /\ InsertScores(w)
  OBVIOUS
<1>4. /\ Resume(w, r) /\ Going /\ UNCHANGED <<scores, badges, board, flags>> /\ ~At(w, "idle")
      /\ q.at \in {"delete", "deleting", "insert"}
      /\ \/ q.at = "delete" /\ r.at = "deleting" /\ r.seen = DOMAIN scores /\ r.gone = q.gone
         \/ q.at = "deleting" /\ r.at = "insert" /\ r.gone = q.seen /\ r.seen = {}
         \/ q.at = "insert" /\ r.at = "commit" /\ r.gone = q.gone /\ r.seen = q.seen
  BY <1>1, <1>3 DEF BeginDelete, DeleteScores, InsertScores, At, Goto, Request
<1>5. r \in Request
  BY <1>2, <1>3 DEF Request, Step
<1>6. /\ r.found = q.found /\ r.subs = q.subs /\ r.rows = q.rows /\ r.board = q.board
      /\ r.award = q.award /\ r.dupes = q.dupes
  BY <1>1, <1>3 DEF Request
<1>7. Knows(r)
  BY <1>1, <1>2, <1>4, <1>6 DEF Knows
<1>8. Awarded(r) = Awarded(q)
  BY <1>6 DEF Awarded
<1>9. w \in alone => Current(r)
  BY <1>1, <1>4, <1>6, <1>8 DEF Current
<1> QED BY <1>4, <1>5, <1>7, <1>9, OnlyGoesOn

\* Inputs stay as they are.
LEMMA InputsStay ==
  ASSUME IInv, Going
  PROVE  /\ Lasting /\ TrackingTypeOK /\ SameRows
         /\ Entered' = Entered /\ Placed' = Placed /\ Ranked' = Ranked
<1>1. UNCHANGED Inputs
  BY DEF Going
<1> QED BY <1>1, SameInputs DEF IInv, InputsOK, SameRows, Inputs, trackingVars

\* Lemma: Badges that do not change stay earned, single, and one for a placement.
LEMMA BadgesStay ==
  ASSUME IInv, Lasting, badges' = badges
  PROVE  \A badge \in DOMAIN badges' :
           /\ Earned(badge)' /\ badges'[badge] = 1
           /\ \A other \in DOMAIN badges' : other.placement = badge.placement => other = badge
BY EarnedLasts DEF IInv, ResultsOK

\* Lemma: Committing the score rows keeps the invariant.
LEMMA CommitKeeps ==
  ASSUME IInv, NEW w \in Workers, CommitScores(w)
  PROVE  IInv'
<1>1. PICK q \in Request : q = req[w] /\ Knows(q) /\ (w \in alone => Current(q))
  BY Running
<1>2. PICK r : r = [q EXCEPT !.at = "badges", !.rows = <<>>, !.gone = {}]
  OBVIOUS
<1> DEFINE rest == [p \in DOMAIN scores \ q.gone |-> scores[p]]
<1>3. /\ q.at = "commit" /\ Going /\ UNCHANGED <<badges, board, flags>>
      /\ scores' = Upsert(q.rows, rest)
      /\ req' = [v \in Workers |-> IF v = w THEN r ELSE [req[v] EXCEPT !.seen = @ \ q.gone]]
  BY <1>1, <1>2 DEF CommitScores, At
<1>4. Lasting /\ TrackingTypeOK /\ SameRows /\ Placed' = Placed /\ Ranked' = Ranked
  BY <1>3, InputsStay
<1>5. r \in Request
  BY <1>2, EmptyTable DEF Request, Step
<1>6. /\ r.at = "badges" /\ r.found = q.found /\ r.subs = q.subs /\ r.rows = <<>> /\ r.board = q.board
      /\ r.award = q.award /\ r.dupes = q.dupes /\ r.gone = {} /\ r.seen = q.seen
  BY <1>1, <1>2 DEF Request
<1>7. rest \in Table(Placements, Score) /\ DOMAIN rest = DOMAIN scores \ q.gone
  BY SubTable DEF IInv, ResultsOK
<1>8. q.rows \in Table(Placements, Score) /\ DOMAIN q.rows \subseteq Placed
  BY <1>1 DEF Knows, Request
<1> HIDE DEF rest
<1>9. /\ scores' \in Table(Placements, Score) /\ DOMAIN scores' \subseteq Placed
      /\ q.gone = DOMAIN scores => scores' = q.rows
  <2>1. Upsert(q.rows, rest) \in Table(Placements, Score)
    BY <1>7, <1>8, UpsertTable
  <2>2. DOMAIN Upsert(q.rows, rest) = DOMAIN q.rows \cup DOMAIN rest
    BY UpsertRows
  <2>3. ASSUME q.gone = DOMAIN scores PROVE Upsert(q.rows, rest) = q.rows
    <3>1. q.rows = [x \in DOMAIN q.rows |-> q.rows[x]]
      BY <1>8, TableMember
    <3>2. DOMAIN rest = {}
      BY <1>7, <2>3
    <3> QED BY <3>1, <3>2, UpsertReplaces
  <2>4. DOMAIN scores \subseteq Placed
    BY DEF IInv, ResultsOK
  <2> QED BY <1>3, <1>7, <1>8, <2>1, <2>2, <2>3, <2>4
<1>10. ResultsOK'
  BY <1>3, <1>4, <1>9, BadgesStay DEF IInv, ResultsOK
<1>11. Knows(r)
  BY <1>1, <1>6, EmptyTable DEF Knows
<1>12. ASSUME NEW v \in Workers
       PROVE  /\ req'[v] \in Request /\ Knows(req[v])'
              /\ v # w /\ req[v] = Idle => req'[v] = Idle
  <2>1. CASE v = w
    <3>1. req'[v] = r /\ Knows(r)'
      BY <1>3, <1>4, <1>11, <2>1, KnowsLasts
    <3> QED BY <1>5, <2>1, <3>1
  <2>2. CASE v # w
    <3>1. PICK x \in Request : x = req[v] /\ Knows(x)
      BY Running
    <3>2. PICK y : y = [x EXCEPT !.seen = x.seen \ q.gone]
      OBVIOUS
    <3>3. req'[v] = y
      BY <1>3, <2>2, <3>1, <3>2
    <3>4. y \in Request
      BY <3>2 DEF Request
    <3>5. /\ y.at = x.at /\ y.found = x.found /\ y.subs = x.subs /\ y.rows = x.rows
          /\ y.board = x.board /\ y.award = x.award /\ y.gone = x.gone /\ y.dupes = x.dupes
          /\ y.seen \subseteq x.seen
      BY <3>1, <3>2 DEF Request
    <3>6. Knows(y)
      BY <3>1, <3>5 DEF Knows
    <3>7. Knows(y)'
      BY <1>4, <3>6, KnowsLasts
    <3>8. x = Idle => y = Idle
      <4> HAVE x = Idle
      <4>1. y.seen = x.seen
        BY <3>5 DEF Idle
      <4>2. y = x
        BY <3>4, <3>5, <4>1 DEF Request
      <4> QED BY <4>2
    <3> QED BY <3>1, <3>3, <3>4, <3>7, <3>8
  <2> QED BY <2>1, <2>2
<1>13. w \in alone => Current(req[w])'
  <2> SUFFICES ASSUME w \in alone PROVE Current(req[w])'
    OBVIOUS
  <2>1. /\ TotalsAgree(q.rows, q.board) /\ RanksAgree(q.board) /\ FlagsAgree(q.dupes)
        /\ AwardsAgree(Awarded(q)) /\ q.gone = DOMAIN scores
    BY <1>1, <1>3 DEF Current
  <2>2. /\ TotalsAgree(q.rows, q.board)' /\ FlagsAgree(q.dupes)' /\ AwardsAgree(Awarded(q))'
    BY <1>4, <2>1, AgreeStays
  <2>3. TotalsAgree(scores, q.board)'
    <3>1. scores' = q.rows
      BY <1>9, <2>1
    <3> QED BY <2>2, <3>1 DEF TotalsAgree
  <2>4. req'[w] = r /\ Awarded(r) = Awarded(q)
    BY <1>3, <1>6 DEF Awarded
  <2>5. Current(r)'
    BY <1>6, <2>1, <2>2, <2>3, <2>4 DEF Current, RanksAgree
  <2>6. Current(r)' => Current(req[w])'
    BY <2>4
  <2> QED BY <2>5, <2>6
<1>14. req' \in [Workers -> Request] /\ ~At(w, "idle")
  BY <1>1, <1>3, <1>12 DEF At
<1> QED BY <1>3, <1>10, <1>12, <1>13, <1>14, StepKeeps DEF Going

\* Lemma: Dropping the badges already awarded from those to award keeps the invariant.
LEMMA HasBadgesKeeps ==
  ASSUME IInv, NEW w \in Workers, HasBadges(w)
  PROVE  IInv'
<1>1. PICK q \in Request : q = req[w] /\ Knows(q) /\ (w \in alone => Current(q))
  BY Running
<1> DEFINE missing == {badge \in q.award : badge.placement \notin Badged}
<1>2. PICK r : r = [q EXCEPT !.at = "award", !.award = missing]
  OBVIOUS
<1>3. q.at = "badges" /\ Resume(w, r) /\ Going /\ UNCHANGED <<scores, badges, board, flags>>
  BY <1>1, <1>2 DEF HasBadges, At
<1>4. missing \subseteq q.award
  OBVIOUS
<1>5. Awarded(q) \subseteq {badge.placement : badge \in missing} \cup Badged
  BY DEF Awarded
<1> HIDE DEF missing
<1>6. r \in Request
  BY <1>1, <1>2, <1>4 DEF Request, Step
<1>7. /\ r.at = "award" /\ r.award = missing /\ r.found = q.found /\ r.subs = q.subs /\ r.rows = q.rows
      /\ r.board = q.board /\ r.dupes = q.dupes /\ r.seen = q.seen /\ r.gone = q.gone
  BY <1>1, <1>2 DEF Request
<1>8. Knows(r)
  BY <1>1, <1>4, <1>7 DEF Knows
<1>9. ASSUME w \in alone PROVE Current(r)
  <2>1. /\ TotalsAgree(scores, q.board) /\ RanksAgree(q.board) /\ FlagsAgree(q.dupes)
        /\ AwardsAgree(Awarded(q))
    BY <1>1, <1>3, <1>9 DEF Current
  <2>2. Awarded(r) = {badge.placement : badge \in missing}
    BY <1>7 DEF Awarded
  <2>3. AwardsAgree(Awarded(r) \cup Badged)
    BY <1>5, <2>1, <2>2 DEF AwardsAgree
  <2> QED BY <1>7, <2>1, <2>3 DEF Current
<1> QED BY <1>1, <1>3, <1>6, <1>8, <1>9, OnlyGoesOn DEF At

\* Lemma: Awarding a badge keeps the invariant: it is earned, and the first of its placement.
LEMMA AwardKeeps ==
  ASSUME IInv, NEW w \in Workers, NEW badge \in req[w].award, AwardBadge(w, badge)
  PROVE  IInv'
<1>1. PICK q \in Request : q = req[w] /\ Knows(q) /\ (w \in alone => Current(q))
  BY Running
<1>2. PICK r : r = [q EXCEPT !.award = q.award \ {badge}]
  OBVIOUS
<1> DEFINE one == [b \in {badge} |-> 1]
<1>3. /\ q.at = "award" /\ Resume(w, r) /\ Going /\ UNCHANGED <<scores, board, flags>>
      /\ badges' = IF badge.placement \in Badged THEN badges ELSE Upsert(one, badges)
      /\ badge \in q.award /\ Earned(badge)
  BY <1>1, <1>2 DEF AwardBadge, At, Knows
<1>4. r \in Request
  BY <1>2 DEF Request
<1>5. /\ r.at = "award" /\ r.award = q.award \ {badge} /\ r.found = q.found /\ r.subs = q.subs
      /\ r.board = q.board /\ r.dupes = q.dupes /\ r.seen = q.seen /\ r.gone = q.gone
      /\ r.rows = q.rows
  BY <1>1, <1>2, <1>3 DEF Request
<1>6. Lasting /\ TrackingTypeOK /\ SameRows /\ Placed' = Placed /\ Ranked' = Ranked
  BY <1>3, InputsStay
<1>7. Knows(r)'
  <2>1. Knows(r)
    BY <1>1, <1>5 DEF Knows
  <2> QED BY <1>6, <2>1, KnowsLasts
<1>8. /\ DOMAIN badges' \subseteq DOMAIN badges \cup {badge} /\ DOMAIN badges \subseteq DOMAIN badges'
      /\ \A b \in DOMAIN badges' : /\ badges'[b] = 1
                                   /\ b = badge /\ badge \notin DOMAIN badges => badge.placement \notin Badged
      /\ badge.placement \in Badged \/ badge \in DOMAIN badges'
  <2>1. CASE badge.placement \in Badged
    BY <1>3, <2>1 DEF IInv, ResultsOK
  <2>2. CASE badge.placement \notin Badged
    <3>1. badges' = Upsert(one, badges) /\ DOMAIN one = {badge} /\ one[badge] = 1
      BY <1>3, <2>2
    <3>2. badge \notin DOMAIN badges
      BY <2>2 DEF Badged
    <3> HIDE DEF one
    <3>3. /\ DOMAIN badges' = {badge} \cup DOMAIN badges /\ badges'[badge] = 1
          /\ \A b \in DOMAIN badges : badges'[b] = badges[b]
      <4>1. DOMAIN Upsert(one, badges) = DOMAIN one \cup DOMAIN badges
        BY UpsertRows
      <4>2. \A b \in DOMAIN one : Upsert(one, badges)[b] = one[b]
        BY UpsertRows
      <4>3. \A b \in DOMAIN badges \ DOMAIN one : Upsert(one, badges)[b] = badges[b]
        BY UpsertRows
      <4> QED BY <3>1, <3>2, <4>1, <4>2, <4>3
    <3> QED BY <2>2, <3>2, <3>3 DEF IInv, ResultsOK
  <2> QED BY <2>1, <2>2
<1>9. Badged \cup {badge.placement} \subseteq Badged'
  BY <1>8 DEF Badged
<1>10. \A b \in DOMAIN badges' :
         /\ Earned(b)' /\ badges'[b] = 1
         /\ \A other \in DOMAIN badges' : other.placement = b.placement => other = b
  <2>1. \A b \in DOMAIN badges' : Earned(b)'
    BY <1>3, <1>6, <1>8, EarnedLasts DEF IInv, ResultsOK
  <2>2. ASSUME NEW b \in DOMAIN badges', NEW other \in DOMAIN badges', other.placement = b.placement
        PROVE  other = b
    <3>1. CASE b \in DOMAIN badges /\ other \in DOMAIN badges
      BY <2>2, <3>1 DEF IInv, ResultsOK
    <3>2. CASE b \notin DOMAIN badges
      <4>1. b = badge /\ b.placement \notin Badged
        BY <1>8, <3>2
      <4> QED BY <1>8, <2>2, <4>1 DEF Badged
    <3>3. CASE other \notin DOMAIN badges
      <4>1. other = badge /\ other.placement \notin Badged
        BY <1>8, <3>3
      <4> QED BY <1>8, <2>2, <4>1 DEF Badged
    <3> QED BY <3>1, <3>2, <3>3
  <2> QED BY <1>8, <2>1, <2>2
<1>11. ResultsOK'
  BY <1>3, <1>6, <1>10 DEF IInv, ResultsOK
<1>12. ASSUME w \in alone PROVE Current(r)'
  <2>1. /\ TotalsAgree(scores, q.board) /\ RanksAgree(q.board) /\ FlagsAgree(q.dupes)
        /\ AwardsAgree(Awarded(q) \cup Badged)
    BY <1>1, <1>3, <1>12 DEF Current
  <2>2. PICK sc : sc = scores
    OBVIOUS
  <2>3. TotalsAgree(sc, q.board)' /\ FlagsAgree(q.dupes)' /\ scores' = sc
    BY <1>3, <1>6, <2>1, <2>2, AgreeStays
  <2>4. TotalsAgree(scores, q.board)'
    BY <2>3 DEF TotalsAgree
  <2>5. Awarded(q) \cup Badged \subseteq Awarded(r) \cup Badged'
    BY <1>5, <1>9 DEF Awarded
  <2>6. AwardsAgree(Awarded(r) \cup Badged)'
    BY <1>6, <2>1, <2>5 DEF AwardsAgree, SameRows
  <2> QED BY <1>5, <2>1, <2>3, <2>4, <2>6 DEF Current, RanksAgree
<1> QED BY <1>1, <1>3, <1>4, <1>7, <1>11, <1>12, GoesOn DEF At

\* Lemma: Storing the leaderboard keeps the invariant.
LEMMA UpsertKeeps ==
  ASSUME IInv, NEW w \in Workers, UpsertWriterScores(w)
  PROVE  IInv'
<1>1. PICK q \in Request : q = req[w] /\ Knows(q) /\ (w \in alone => Current(q))
  BY Running
<1>2. PICK r : r = [q EXCEPT !.at = "flags", !.board = <<>>]
  OBVIOUS
<1>3. /\ q.at = "award" /\ q.award = {} /\ Resume(w, r) /\ Going /\ UNCHANGED <<scores, badges, flags>>
      /\ board' = Upsert(q.board, board)
  BY <1>1, <1>2 DEF UpsertWriterScores, At
<1>4. r \in Request
  BY <1>2, EmptyTable DEF Request, Step
<1>5. /\ r.at = "flags" /\ r.award = {} /\ r.found = q.found /\ r.subs = q.subs
      /\ r.board = <<>> /\ r.dupes = q.dupes /\ r.seen = q.seen /\ r.gone = q.gone
      /\ r.rows = q.rows
  BY <1>1, <1>2, <1>3 DEF Request
<1>6. Lasting /\ TrackingTypeOK /\ SameRows /\ Placed' = Placed /\ Ranked' = Ranked
  BY <1>3, InputsStay
<1>7. Knows(r)'
  <2>1. Knows(r)
    BY <1>1, <1>5, EmptyTable DEF Knows
  <2> QED BY <1>6, <2>1, KnowsLasts
<1>8. /\ q.board \in Table(Writers, Line) /\ DOMAIN q.board \subseteq Ranked
      /\ board \in Table(Writers, Line) /\ DOMAIN board \subseteq Ranked
  BY <1>1 DEF IInv, ResultsOK, Knows, Request
<1>9. board' \in Table(Writers, Line) /\ DOMAIN board' \subseteq Ranked
  <2>1. Upsert(q.board, board) \in Table(Writers, Line)
    BY <1>8, UpsertTable
  <2>2. DOMAIN Upsert(q.board, board) = DOMAIN q.board \cup DOMAIN board
    BY UpsertRows
  <2> QED BY <1>3, <1>8, <2>1, <2>2
<1>10. ResultsOK'
  BY <1>3, <1>6, <1>9, BadgesStay DEF IInv, ResultsOK
<1>11. ASSUME w \in alone PROVE Current(r)'
  <2>1. /\ TotalsAgree(scores, q.board) /\ RanksAgree(q.board) /\ FlagsAgree(q.dupes)
        /\ AwardsAgree(Awarded(q) \cup Badged)
    BY <1>1, <1>3, <1>11 DEF Current
  <2>2. board' = q.board
    <3>1. q.board = [x \in DOMAIN q.board |-> q.board[x]]
      BY <1>8, TableMember
    <3>2. DOMAIN board \subseteq DOMAIN q.board
      BY <1>8, <2>1 DEF TotalsAgree
    <3> QED BY <1>3, <3>1, <3>2, UpsertReplaces
  <2>3. PICK sc, ba, fl : sc = scores /\ ba = Badged /\ fl = flags
    OBVIOUS
  <2>4. scores' = sc /\ Badged' = ba /\ flags' = fl
    BY <1>3, <2>3 DEF Badged
  <2>5. AwardsAgree(ba) /\ FlagsAgree(q.dupes \cup fl)
    <3>1. Awarded(q) \cup Badged = ba
      BY <1>3, <2>3 DEF Awarded
    <3> QED BY <2>1, <3>1 DEF FlagsAgree
  <2>6. TotalsAgree(sc, q.board)' /\ AwardsAgree(ba)' /\ FlagsAgree(q.dupes \cup fl)'
    BY <1>6, <2>1, <2>3, <2>5, AgreeStays
  <2>7. TotalsAgree(scores, board)' /\ RanksAgree(board)'
    BY <2>1, <2>2, <2>4, <2>6 DEF TotalsAgree, RanksAgree
  <2>8. AwardsAgree(Badged)' /\ FlagsAgree(r.dupes \cup flags)'
    BY <1>5, <2>4, <2>6 DEF AwardsAgree, FlagsAgree
  <2> QED BY <1>5, <2>7, <2>8 DEF Current
<1> QED BY <1>1, <1>3, <1>4, <1>7, <1>10, <1>11, GoesOn DEF At

\* Lemma: Raising a flag keeps the invariant.
LEMMA FlagKeeps ==
  ASSUME IInv, NEW w \in Workers, NEW dupe \in req[w].dupes, CreateFlag(w, dupe)
  PROVE  IInv'
<1>1. PICK q \in Request : q = req[w] /\ Knows(q) /\ (w \in alone => Current(q))
  BY Running
<1>2. PICK r : r = [q EXCEPT !.dupes = q.dupes \ {dupe}]
  OBVIOUS
<1>3. /\ q.at = "flags" /\ dupe \in q.dupes /\ Resume(w, r) /\ Going
      /\ UNCHANGED <<scores, badges, board>> /\ flags' = flags \cup {dupe}
  BY <1>1, <1>2 DEF CreateFlag, At
<1>4. r \in Request /\ dupe \in Writers \X Competitions
  BY <1>2, <1>3 DEF Request
<1>5. /\ r.at = "flags" /\ r.award = q.award /\ r.found = q.found /\ r.subs = q.subs
      /\ r.board = q.board /\ r.dupes = q.dupes \ {dupe} /\ r.seen = q.seen /\ r.gone = q.gone
      /\ r.rows = q.rows
  BY <1>1, <1>2, <1>3 DEF Request
<1>6. Lasting /\ TrackingTypeOK /\ SameRows
  BY <1>3, InputsStay
<1>7. Knows(r)'
  <2>1. Knows(r)
    BY <1>1, <1>5 DEF Knows
  <2> QED BY <1>6, <2>1, KnowsLasts
<1>8. ResultsOK'
  BY <1>3, <1>4, <1>6, ResultsLast DEF IInv, ResultsOK
<1>9. ASSUME w \in alone PROVE Current(r)'
  <2>1. /\ TotalsAgree(scores, board) /\ RanksAgree(board)
        /\ AwardsAgree(Badged) /\ FlagsAgree(q.dupes \cup flags)
    BY <1>1, <1>3, <1>9 DEF Current
  <2>2. PICK sc, bd, ba, fl : sc = scores /\ bd = board /\ ba = Badged /\ fl = q.dupes \cup flags
    OBVIOUS
  <2>3. scores' = sc /\ board' = bd /\ Badged' = ba
    BY <1>3, <2>2 DEF Badged
  <2>4. r.dupes \cup flags' = fl
    BY <1>3, <1>5, <2>2
  <2>5. TotalsAgree(sc, bd)' /\ AwardsAgree(ba)' /\ FlagsAgree(fl)'
    BY <1>6, <2>1, <2>2, AgreeStays
  <2>6. TotalsAgree(scores, board)' /\ RanksAgree(board)'
    BY <2>1, <2>2, <2>3, <2>5 DEF TotalsAgree, RanksAgree
  <2>7. AwardsAgree(Badged)' /\ FlagsAgree(r.dupes \cup flags)'
    BY <2>3, <2>4, <2>5 DEF AwardsAgree, FlagsAgree
  <2> QED BY <1>5, <2>6, <2>7 DEF Current
<1> QED BY <1>1, <1>3, <1>4, <1>7, <1>8, <1>9, GoesOn DEF At

-----------------------------------------------------------------------------
(* The computation.                                                         *)

RowsOf(q)  == [p \in Scored(q.subs, q.found) |-> Raw(p, q.subs, q.found)]
BoardOf(q) == Board(q.subs, RowsOf(q), q.found)
AwardOf(q) == {[placement |-> p, status |-> q.found[p].status] : p \in
                 {p \in DOMAIN RowsOf(q) : /\ q.found[p].verification = "verified"
                                           /\ q.found[p].status # "pending"}}
OwnOf(w, q) == {p \in DOMAIN RowsOf(q) : WriterOf(p, q.found) = w}

\* Lemma: The score rows a recomputation has computed are one for each scored placement.
LEMMA RowsAreScores ==
  ASSUME IInv, TrackingAssumption, NEW q \in Request, Knows(q)
  PROVE  /\ RowsOf(q) \in Table(Placements, Score)
         /\ DOMAIN RowsOf(q) = Scored(q.subs, q.found)
         /\ DOMAIN RowsOf(q) \subseteq DOMAIN q.found /\ DOMAIN q.found \subseteq Placed
<1>1. DOMAIN q.found \subseteq Placed /\ Placed \subseteq Placements
  BY DEF Knows, Placed
<1>2. ASSUME NEW p \in Scored(q.subs, q.found)
      PROVE  Raw(p, q.subs, q.found) \in Int
  <2>1. p \in DOMAIN q.found /\ p \in Placed
    BY <1>1 DEF Scored
  <2>2. Weight[q.found[p].status] \in Int
    <3>1. q.found[p].status \in Status
      BY <2>1 DEF Knows, IInv, InputsOK, TrackingTypeOK
    <3> QED BY <3>1 DEF Weight, Status
  <2>3. prestige[submission[q.found[p].submission].competition] \in Int
    <3>1. submission[q.found[p].submission].competition \in Competitions
      BY <2>1 DEF Knows, IInv, InputsOK, TrackingTypeOK
    <3> QED BY <3>1 DEF IInv, InputsOK
  <2>4. Trust[q.found[p].verification] \in Int
    <3>1. q.found[p].verification \in Verification
      BY <2>1 DEF Knows
    <3> QED BY <3>1 DEF Trust, Verification
  <2>5. Confidence(Cardinality(Before(p, q.subs, q.found))) \in Int
    <3>1. Before(p, q.subs, q.found) \subseteq Placed
      BY <1>1 DEF Before, Scored
    <3>2. Cardinality(Before(p, q.subs, q.found)) \in Nat
      BY <3>1, FiniteInputs
    <3> QED BY <3>2 DEF Confidence
  <2>6. \A i, j \in Int : i * j \in Int
    OBVIOUS
  <2> QED BY <2>2, <2>3, <2>4, <2>5, <2>6 DEF Raw
<1>3. /\ DOMAIN RowsOf(q) = Scored(q.subs, q.found)
      /\ RowsOf(q) = [p \in DOMAIN RowsOf(q) |-> RowsOf(q)[p]]
      /\ \A p \in DOMAIN RowsOf(q) : RowsOf(q)[p] \in Score
  BY <1>2 DEF RowsOf, Score
<1>4. Scored(q.subs, q.found) \subseteq DOMAIN q.found
  BY DEF Scored
<1>5. RowsOf(q) \in Table(Placements, Score)
  BY <1>1, <1>3, <1>4, TableMember
<1> QED BY <1>1, <1>3, <1>4, <1>5

\* Lemma: The leaderboard a recomputation has computed sums its rows and ranks by the sums.
LEMMA BoardIsRanked ==
  ASSUME IInv, TrackingAssumption, NEW q \in Request, Knows(q)
  PROVE  /\ BoardOf(q) \in Table(Writers, Line)
         /\ DOMAIN BoardOf(q) = {submission[s].writer : s \in 1..q.subs}
         /\ DOMAIN BoardOf(q) \subseteq Ranked
         /\ \A w \in DOMAIN BoardOf(q) :
              /\ BoardOf(q)[w].total = SumOver(RowsOf(q), OwnOf(w, q))
              /\ BoardOf(q)[w].placements = Cardinality(OwnOf(w, q))
         /\ RanksAgree(BoardOf(q))
<1> DEFINE ranked == {submission[s].writer : s \in 1..q.subs}
           entered(w) == {s \in 1..q.subs : submission[s].writer = w}
           totals == [w \in ranked |-> TotalOf(w, RowsOf(q), q.found)]
           last   == [w \in ranked |-> Max({s \in 1..q.subs : submission[s].writer = w})]
           lines  == [w \in ranked |->
                        [total |-> totals[w], rank |-> Rank(w, totals, last),
                         placements |-> Cardinality({p \in DOMAIN RowsOf(q) : WriterOf(p, q.found) = w})]]
<1>1. BoardOf(q) = lines
  BY DEF BoardOf, Board
<1>2. q.subs \in Nat /\ 1..q.subs \subseteq Entered
  BY DEF Request, Knows
<1>3. ranked \subseteq Ranked /\ ranked \subseteq Writers
  BY <1>2 DEF Ranked, IInv, InputsOK, TrackingTypeOK
<1>4. IsFiniteSet(ranked)
  <2> DEFINE f == [s \in 1..q.subs |-> submission[s].writer]
  <2>1. f \in Surjection(1..q.subs, ranked)
    BY DEF Surjection
  <2>2. IsFiniteSet(1..q.subs)
    BY <1>2, FS_Interval
  <2> HIDE DEF f, ranked
  <2> QED BY <2>1, <2>2, FS_Surjection
<1>5. ASSUME NEW w
      PROVE  /\ TotalOf(w, RowsOf(q), q.found) = SumOver(RowsOf(q), OwnOf(w, q))
             /\ TotalOf(w, RowsOf(q), q.found) \in Int
             /\ Cardinality(OwnOf(w, q)) \in Nat
  <2>1. TotalOf(w, RowsOf(q), q.found) = SumOver(RowsOf(q), OwnOf(w, q))
    BY DEF TotalOf, OwnOf
  <2>2. OwnOf(w, q) \subseteq Placed /\ OwnOf(w, q) \subseteq DOMAIN RowsOf(q)
    BY RowsAreScores DEF OwnOf
  <2>3. IsFiniteSet(OwnOf(w, q)) /\ Cardinality(OwnOf(w, q)) \in Nat
    BY <2>2, FiniteInputs
  <2>4. \A p \in OwnOf(w, q) : RowsOf(q)[p] \in Int
    <3>1. \A p \in DOMAIN RowsOf(q) : RowsOf(q)[p] \in Score
      BY RowsAreScores, TableMember
    <3> QED BY <2>2, <3>1 DEF Score
  <2>5. SumOver(RowsOf(q), OwnOf(w, q)) \in Int
    BY <2>3, <2>4, SumIsInt
  <2> QED BY <2>1, <2>3, <2>5
<1>6. totals \in [ranked -> Int]
  BY <1>5
<1>7. ASSUME NEW w \in ranked PROVE last[w] \in entered(w)
  <2>1. entered(w) # {}
    OBVIOUS
  <2>2. IsFiniteSet(entered(w))
    <3>1. entered(w) \subseteq 1..q.subs
      OBVIOUS
    <3> HIDE DEF entered
    <3>2. IsFiniteSet(1..q.subs)
      BY <1>2, FS_Interval
    <3> QED BY <3>1, <3>2, FS_Subset
  <2>3. \A s \in entered(w) : s \in Int
    OBVIOUS
  <2>4. last[w] = Max(entered(w))
    OBVIOUS
  <2> HIDE DEF entered, last
  <2> QED BY <2>1, <2>2, <2>3, <2>4, MaxIsMember
<1>8. /\ last \in [ranked -> Int]
      /\ \A v, w \in ranked : last[v] = last[w] => v = w
  <2>1. last = [w \in ranked |-> last[w]]
    OBVIOUS
  <2>2. \A w \in ranked : last[w] \in Int /\ submission[last[w]].writer = w
    <3> HIDE DEF last, ranked
    <3> QED BY <1>7
  <2> HIDE DEF last, ranked
  <2> QED BY <2>1, <2>2
<1>9. /\ {Rank(w, totals, last) : w \in ranked} = 1..Cardinality(ranked)
      /\ \A v, w \in ranked : totals[v] > totals[w] => Rank(v, totals, last) < Rank(w, totals, last)
  <2> HIDE DEF last, totals, ranked
  <2> QED BY <1>4, <1>6, <1>8, RanksCount
<1>10. ASSUME NEW w \in ranked PROVE Rank(w, totals, last) \in Nat
  <2>1. Rank(w, totals, last) \in 1..Cardinality(ranked)
    <3> HIDE DEF last, totals, ranked
    <3> QED BY <1>9
  <2> HIDE DEF last, totals, ranked
  <2> QED BY <2>1
<1>11. \A w \in ranked : /\ totals[w] = SumOver(RowsOf(q), OwnOf(w, q)) /\ totals[w] \in Int
                         /\ Cardinality(OwnOf(w, q)) \in Nat
  BY <1>5
<1> DEFINE rank(w) == Rank(w, totals, last)
<1>12. lines = [w \in ranked |-> [total |-> totals[w], rank |-> rank(w),
                                  placements |-> Cardinality(OwnOf(w, q))]]
  BY DEF OwnOf
<1>13. /\ {rank(w) : w \in ranked} = 1..Cardinality(ranked)
       /\ \A v, w \in ranked : totals[v] > totals[w] => rank(v) < rank(w)
       /\ \A w \in ranked : rank(w) \in Nat
  BY <1>9, <1>10
<1> HIDE DEF lines, rank, totals, last, ranked
<1>14. /\ DOMAIN lines = ranked /\ lines = [w \in DOMAIN lines |-> lines[w]]
       /\ \A w \in ranked : /\ lines[w] \in Line /\ lines[w].rank = rank(w) /\ lines[w].total = totals[w]
                            /\ lines[w].placements = Cardinality(OwnOf(w, q))
  BY <1>11, <1>12, <1>13 DEF Line
<1>15. lines \in Table(Writers, Line)
  BY <1>3, <1>14, TableMember
<1>16. RanksAgree(lines)
  BY <1>13, <1>14 DEF RanksAgree
<1>17. ranked = {submission[s].writer : s \in 1..q.subs}
  BY DEF ranked
<1> QED BY <1>1, <1>3, <1>11, <1>14, <1>15, <1>16, <1>17

\* What is computed while nothing else happens is what should be written.
LEMMA ComputedIsCurrent ==
  ASSUME IInv, TrackingAssumption, NEW q \in Request, Knows(q),
         Entered = 1..q.subs, q.found = [p \in Placed |-> placement[p]]
  PROVE  /\ TotalsAgree(RowsOf(q), BoardOf(q))
         /\ AwardsAgree({badge.placement : badge \in AwardOf(q)})
         /\ FlagsAgree(Duplicates(q.subs))
<1>1. DOMAIN q.found = Placed /\ \A p \in Placed : q.found[p] = placement[p]
  OBVIOUS
<1>2. q.subs \in Nat
  BY DEF Request
<1>3. \A p \in Placed : placement[p].submission \in 1..q.subs
  BY DEF IInv, InputsOK, TrackingTypeOK
<1>4. DOMAIN RowsOf(q) = Placed
  <2>1. Scored(q.subs, q.found) = Placed
    BY <1>1, <1>2, <1>3 DEF Scored
  <2> QED BY <2>1, RowsAreScores
<1>5. DOMAIN BoardOf(q) = Ranked
  BY BoardIsRanked DEF Ranked
<1>6. \A w : OwnOf(w, q) = Own(w)
  BY <1>1, <1>4 DEF OwnOf, Own, WriterOf
<1>7. TotalsAgree(RowsOf(q), BoardOf(q))
  BY <1>4, <1>5, <1>6, BoardIsRanked DEF TotalsAgree
<1>8. ASSUME NEW p \in Placed, placement[p].verification = "verified", placement[p].status # "pending"
      PROVE  p \in {badge.placement : badge \in AwardOf(q)}
  <2>1. [placement |-> p, status |-> q.found[p].status] \in AwardOf(q)
    BY <1>1, <1>4, <1>8 DEF AwardOf
  <2>2. [placement |-> p, status |-> q.found[p].status].placement = p
    OBVIOUS
  <2> QED BY <2>1, <2>2
<1>9. ASSUME NEW s \in Entered, NEW t \in Entered, s # t,
             submission[s].writer = submission[t].writer,
             submission[s].competition = submission[t].competition
      PROVE  <<submission[s].writer, submission[s].competition>> \in Duplicates(q.subs)
  BY <1>9 DEF Duplicates
<1> QED BY <1>7, <1>8, <1>9 DEF AwardsAgree, FlagsAgree

\* Lemma: Computing the rows and the leaderboard keeps the invariant.
LEMMA ComputeKeeps ==
  ASSUME IInv, TrackingAssumption, NEW w \in Workers, ComputeScores(w)
  PROVE  IInv'
<1>1. PICK q \in Request : q = req[w] /\ Knows(q) /\ (w \in alone => Current(q))
  BY Running
<1>2. PICK r : r = [Idle EXCEPT !.at = "delete", !.rows = RowsOf(q), !.board = BoardOf(q),
                                !.award = AwardOf(q), !.dupes = Duplicates(q.subs)]
  OBVIOUS
<1>3. q.at = "prestige" /\ Resume(w, r) /\ Going /\ UNCHANGED <<scores, badges, board, flags>>
  BY <1>1, <1>2 DEF ComputeScores, At, RowsOf, BoardOf, AwardOf
<1>4. /\ RowsOf(q) \in Table(Placements, Score) /\ DOMAIN RowsOf(q) \subseteq Placed
      /\ BoardOf(q) \in Table(Writers, Line) /\ DOMAIN BoardOf(q) \subseteq Ranked
  BY <1>1, RowsAreScores, BoardIsRanked
<1>5. \A badge \in AwardOf(q) : Earned(badge)
  <2> SUFFICES ASSUME NEW badge \in AwardOf(q) PROVE Earned(badge)
    OBVIOUS
  <2>1. PICK p \in DOMAIN RowsOf(q) : /\ q.found[p].verification = "verified"
                                      /\ q.found[p].status # "pending"
                                      /\ badge = [placement |-> p, status |-> q.found[p].status]
    BY DEF AwardOf
  <2>2. p \in DOMAIN q.found /\ p \in Placed /\ p \in Placements
    BY <1>1, RowsAreScores DEF Placed
  <2>3. p \in verified /\ q.found[p].status = placement[p].status /\ placement[p].status \in Status
    BY <1>1, <2>1, <2>2 DEF Knows, IInv, InputsOK, TrackingTypeOK
  <2> QED BY <2>1, <2>2, <2>3 DEF Earned, Badge
<1>6. AwardOf(q) \subseteq Badge
  BY <1>5 DEF Earned
<1>7. Duplicates(q.subs) \subseteq Writers \X Competitions
  <2>1. \A s \in 1..q.subs : submission[s].writer \in Writers /\ submission[s].competition \in Competitions
    BY <1>1 DEF Knows, IInv, InputsOK, TrackingTypeOK
  <2> QED BY <2>1 DEF Duplicates
<1>8. r \in Request
  BY <1>2, <1>4, <1>6, <1>7, IdleKnows DEF Request, Step
<1>9. /\ r.at = "delete" /\ r.rows = RowsOf(q) /\ r.board = BoardOf(q) /\ r.award = AwardOf(q)
      /\ r.dupes = Duplicates(q.subs) /\ r.subs = 0 /\ r.found = <<>> /\ r.seen = {} /\ r.gone = {}
  BY <1>2 DEF Idle
<1>10. Knows(r)
  <2>1. 1..0 = {} /\ DOMAIN <<>> = {}
    BY EmptyTable
  <2> QED BY <1>4, <1>5, <1>9, <2>1 DEF Knows
<1>11. ASSUME w \in alone PROVE Current(r)
  <2>1. Entered = 1..q.subs /\ q.found = [p \in Placed |-> placement[p]]
    BY <1>1, <1>3, <1>11 DEF Current
  <2>2. /\ TotalsAgree(r.rows, r.board) /\ FlagsAgree(r.dupes)
        /\ AwardsAgree({badge.placement : badge \in AwardOf(q)})
    BY <1>1, <1>9, <2>1, ComputedIsCurrent
  <2>3. RanksAgree(r.board)
    BY <1>1, <1>9, BoardIsRanked
  <2>4. AwardsAgree(Awarded(r))
    BY <1>9, <2>2 DEF Awarded
  <2> QED BY <1>9, <2>2, <2>3, <2>4 DEF Current
<1> QED BY <1>1, <1>3, <1>8, <1>10, <1>11, OnlyGoesOn DEF At

-----------------------------------------------------------------------------
(* Theorems.                                                                *)

\* Lemma: Every step keeps the invariant: one case per action.
LEMMA NextKeeps ==
  ASSUME IInv, TrackingAssumption, RankingAssumption, [Next]_vars
  PROVE  IInv'
<1>1. CASE EnterCompetition
  BY <1>1, EnterKeeps
<1>2. CASE ReportPlacement
  BY <1>2, ReportKeeps
<1>3. CASE UpdateStatus
  BY <1>3, UpdateKeeps
<1>4. ASSUME NEW p \in Placements, NEW state \in Verification, VerifyPlacement(p, state) PROVE IInv'
  BY <1>4, VerifyKeeps
<1>5. ASSUME NEW c \in Competitions, NEW m \in Multipliers, UpsertPrestige(c, m) PROVE IInv'
  BY <1>5, PrestigeKeeps
<1>6. ASSUME NEW flag \in flags, ResolveFlag(flag) PROVE IInv'
  BY <1>6, ResolveKeeps
<1>7. ASSUME NEW w \in Workers, NEW answered \in BOOLEAN, FetchSubmissions(w, answered) PROVE IInv'
  BY <1>7, FetchSubmissionsKeeps
<1>8. ASSUME NEW w \in Workers, Throw(w) PROVE IInv'
  BY <1>8, EndKeeps
<1>9. ASSUME NEW w \in Workers, Proceed(w) PROVE IInv'
  <2>1. ASSUME NEW answered \in BOOLEAN, FetchPlacements(w, answered) PROVE IInv'
    <3>1. CASE answered
      BY <2>1, <3>1, FetchPlacementsKeeps
    <3>2. CASE ~answered
      BY <2>1, <3>2, ErrorAnswerKeeps
    <3> QED BY <3>1, <3>2
  <2>2. CASE ComputeScores(w)
    BY <2>2, ComputeKeeps
  <2>3. CASE BeginDelete(w) \/ DeleteScores(w) \/ InsertScores(w)
    BY <2>3, DeleteKeeps
  <2>4. CASE CommitScores(w)
    BY <2>4, CommitKeeps
  <2>5. CASE HasBadges(w)
    BY <2>5, HasBadgesKeeps
  <2>6. CASE UpsertWriterScores(w)
    BY <2>6, UpsertKeeps
  <2>7. CASE Finish(w)
    BY <2>7, EndKeeps
  <2>8. ASSUME NEW badge \in req[w].award, AwardBadge(w, badge) PROVE IInv'
    BY <2>8, AwardKeeps
  <2>9. ASSUME NEW dupe \in req[w].dupes, CreateFlag(w, dupe) PROVE IInv'
    BY <2>9, FlagKeeps
  <2> QED BY <1>9, <2>1, <2>2, <2>3, <2>4, <2>5, <2>6, <2>7, <2>8, <2>9 DEF Proceed
<1>10. CASE UNCHANGED vars
  <2>1. /\ UNCHANGED Inputs /\ SameRows /\ Lasting /\ TrackingTypeOK /\ InputsOK'
        /\ UNCHANGED <<scores, badges, board, flags, req, alone, settled>>
    BY <1>10, SameInputs DEF vars, tableVars, Inputs, trackingVars, IInv, InputsOK, SameRows
  <2>2. ResultsOK'
    BY <2>1, ResultsLast DEF IInv, ResultsOK
  <2>3. req' \in [Workers -> Request] /\ \A w \in Workers : Knows(req[w])'
    BY <2>1, AllKnow DEF IInv
  <2>4. ASSUME NEW w \in Workers, w \in alone PROVE Current(req[w])'
    <3>1. PICK q : q = req[w] /\ Current(q)
      BY <2>4, Running
    <3>2. Current(q)' /\ req'[w] = q
      BY <2>1, <3>1, CurrentStays
    <3> QED BY <3>2
  <2>5. AloneOK'
    BY <2>1, <2>4, ResultsAgree DEF IInv, AloneOK
  <2> QED BY <2>1, <2>2, <2>3, <2>5 DEF IInv
<1> QED BY <1>1, <1>2, <1>3, <1>4, <1>5, <1>6, <1>7, <1>8, <1>9, <1>10 DEF Next

\* The invariant holds in every state of every behaviour.
THEOREM Invariance == Spec => []IInv
<1>1. Init => IInv
  BY InitHolds, TrackingAssumption
<1>2. IInv /\ [Next]_vars => IInv'
  BY NextKeeps, TrackingAssumption, RankingAssumption
<1> QED BY <1>1, <1>2, PTL DEF Spec

\* Rows, tables and local variables are of their types, and refer to what exists.
THEOREM TypeCorrect == Spec => []TypeOK
<1>1. IInv => TypeOK
  <2> SUFFICES ASSUME IInv PROVE TypeOK
    OBVIOUS
  <2>1. ASSUME NEW w \in Workers
        PROVE  /\ req[w].at \in Step /\ req[w].subs \in 0..Cardinality(Entered)
               /\ req[w].seen \cup req[w].gone \cup DOMAIN req[w].rows \subseteq Placed
               /\ DOMAIN req[w].board \subseteq {submission[s].writer : s \in Entered}
    <3>1. PICK q \in Request : q = req[w] /\ Knows(q)
      BY Running
    <3>2. q.subs \in Nat /\ 1..q.subs \subseteq 1..Cardinality(Entered) /\ Cardinality(Entered) \in Nat
      BY <3>1, FiniteInputs, TrackingAssumption DEF Knows, IInv, InputsOK, Request
    <3>3. q.subs <= Cardinality(Entered)
      <4>1. CASE q.subs = 0
        BY <3>2, <4>1
      <4>2. CASE q.subs # 0
        <5>1. q.subs \in 1..q.subs
          BY <3>2, <4>2
        <5> QED BY <3>2, <5>1
      <4> QED BY <4>1, <4>2
    <3> QED BY <3>1, <3>2, <3>3 DEF Knows, Request, Ranked
  <2>2. /\ TrackingTypeOK /\ DOMAIN scores \subseteq Placed /\ flags \subseteq Writers \X Competitions
        /\ DOMAIN board \subseteq Writers
    BY TableMember DEF IInv, InputsOK, ResultsOK
  <2> QED BY <2>1, <2>2 DEF TypeOK
<1> QED BY <1>1, Invariance, PTL

\* A placement earns at most one badge, once it has been verified, and with the status it
\* was reported with, although several recomputations look for missing badges at once.
THEOREM BadgesAreEarned == Spec => []BadgeIsEarned
<1>1. IInv => BadgeIsEarned
  BY DEF IInv, ResultsOK, Earned, BadgeIsEarned
<1> QED BY <1>1, Invariance, PTL

\* What a recomputation leaves behind that has had inputs and tables to itself, and was not
\* answered with an error, agrees with the inputs and with itself, whatever overlapping,
\* failed or misinformed ones had left behind.
THEOREM ResultsAreRight == Spec => []SettledAgrees
<1>1. IInv => SettledAgrees
  <2> SUFFICES ASSUME IInv, settled PROVE SettledTotals /\ SettledRanks /\ SettledAwards
    BY DEF SettledAgrees
  <2>1. /\ TotalsAgree(scores, board) /\ RanksAgree(board)
        /\ AwardsAgree(Badged) /\ FlagsAgree(flags)
    BY DEF IInv, AloneOK
  <2>2. SettledTotals
    BY <2>1 DEF SettledTotals, TotalsAgree, Own, Ranked
  <2>3. SettledRanks
    BY <2>1 DEF SettledRanks, RanksAgree
  <2>4. SettledAwards
    BY <2>1 DEF SettledAwards, AwardsAgree, FlagsAgree
  <2> QED BY <2>2, <2>3, <2>4
<1> QED BY <1>1, Invariance, PTL

\* A submission only ever gets the status of one of its placements.
THEOREM StatusFollowsPlacement == Spec => StatusHasPlacement
<1> DEFINE Kept == \A s \in Entered : submission'[s].status # submission[s].status =>
                     \E p \in Placed : placement[p].submission = s /\ placement[p].status = submission'[s].status
<1>1. ASSUME IInv, Next PROVE Kept
  <2>1. CASE EnterCompetition
    <3>1. PICK w \in Writers, c \in Competitions, st \in EntryStatuses : CreateSubmission(w, c, st)
      BY <2>1 DEF EnterCompetition
    <3>2. submission' = [submission EXCEPT ![Cardinality(Entered) + 1] =
                           [writer |-> w, competition |-> c, status |-> st]]
      BY <3>1 DEF CreateSubmission
    <3>3. Cardinality(Entered) + 1 \notin Entered
      <4>1. Cardinality(Entered) \in Nat /\ Entered = 1..Cardinality(Entered)
        BY <1>1, FiniteInputs, TrackingAssumption DEF IInv, InputsOK
      <4> QED BY <4>1
    <3>4. \A s \in Entered : submission'[s] = submission[s]
      BY <1>1, <3>2, <3>3 DEF IInv, InputsOK, Entered
    <3> QED BY <3>4
  <2>2. CASE UpdateStatus
    <3>1. PICK p \in Placements : UpdateSubmissionStatus(p)
      BY <2>2 DEF UpdateStatus
    <3>2. /\ p \in Placed /\ submission \in [Submissions -> SubmissionRow] /\ Entered \subseteq Submissions
          /\ submission' = [submission EXCEPT ![placement[p].submission].status = placement[p].status]
      BY <1>1, <3>1 DEF UpdateSubmissionStatus, IInv, InputsOK, TrackingTypeOK, Entered
    <3>3. \A s \in Entered : submission'[s].status # submission[s].status =>
            placement[p].submission = s /\ placement[p].status = submission'[s].status
      BY <3>2 DEF SubmissionRow
    <3> QED BY <3>2, <3>3
  <2>3. CASE ~ EnterCompetition /\ ~ UpdateStatus
    <3>1. submission' = submission
      BY <1>1, <2>3 DEF Next, ReportPlacement, CreatePlacement, VerifyPlacement,
           UpdatePlacementVerification, UpsertPrestige, ResolveFlag, FetchSubmissions, Throw,
           Proceed, FetchPlacements, ComputeScores, BeginDelete, DeleteScores, InsertScores,
           CommitScores, HasBadges, UpsertWriterScores, Finish, AwardBadge, CreateFlag,
           Going, Inputs, trackingVars
    <3> QED BY <3>1
  <2> QED BY <2>1, <2>2, <2>3
<1>2. IInv /\ [Next]_vars => [Kept]_vars
  BY <1>1
<1> QED BY <1>2, Invariance, PTL DEF Spec, StatusHasPlacement

\* Readers never see scores being replaced: they change when a recomputation commits, and
\* then all that it computed is there.
THEOREM ScoresAppearAtOnce == Spec => ScoresChangeWhole
<1> DEFINE Whole == scores' # scores =>
                      \E w \in Workers : At(w, "commit") /\ \A p \in DOMAIN req[w].rows :
                        p \in DOMAIN scores' /\ scores'[p] = req[w].rows[p]
<1>1. ASSUME Next PROVE Whole
  <2>1. ASSUME NEW w \in Workers, CommitScores(w) PROVE Whole
    <3>1. /\ At(w, "commit")
          /\ scores' = Upsert(req[w].rows, [p \in DOMAIN scores \ req[w].gone |-> scores[p]])
      BY <2>1 DEF CommitScores
    <3> DEFINE rest == [p \in DOMAIN scores \ req[w].gone |-> scores[p]]
               rows == req[w].rows
    <3> HIDE DEF rest, rows
    <3>2. /\ DOMAIN Upsert(rows, rest) = DOMAIN rows \cup DOMAIN rest
          /\ \A p \in DOMAIN rows : Upsert(rows, rest)[p] = rows[p]
      BY UpsertRows
    <3>3. scores' = Upsert(rows, rest)
      BY <3>1 DEF rows, rest
    <3>4. \A p \in DOMAIN rows : p \in DOMAIN scores' /\ scores'[p] = rows[p]
      BY <3>2, <3>3
    <3> QED BY <3>1, <3>4 DEF rows
  <2>2. ASSUME \A w \in Workers : ~ CommitScores(w) PROVE scores' = scores
    BY <1>1, <2>2 DEF Next, EnterCompetition, UpdateStatus, ReportPlacement, VerifyPlacement,
         UpsertPrestige, ResolveFlag, FetchSubmissions, Throw,
         Proceed, FetchPlacements, ComputeScores, BeginDelete, DeleteScores, InsertScores,
         HasBadges, UpsertWriterScores, Finish, AwardBadge, CreateFlag, tableVars
  <2> QED BY <2>1, <2>2
<1>2. [Next]_vars => [Whole]_vars
  BY <1>1
<1> QED BY <1>2, PTL DEF Spec, ScoresChangeWhole

=============================================================================
