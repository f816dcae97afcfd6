------------------------------ MODULE MCRanking ------------------------------
(* Model values for checking Ranking with TLC. *)
EXTENDS Ranking, TLC

CONSTANTS a, b, c1, r1, r2

\* Ties are broken by the order of entry, so writers are interchangeable too.
RankingSymmetry == {p @@ q : p \in Permutations(Writers), q \in Permutations(Workers)}

\* Bound: the last recomputation begins when the others have ended and all statuses are
\* written, and no submission, placement or verification comes in after it began.
LastRunIsLate ==
  /\ runs' # runs /\ runs' = MaxRuns => updating = {} /\ req = [w \in Workers |-> Idle]
  /\ runs = MaxRuns => UNCHANGED trackingVars

=============================================================================
