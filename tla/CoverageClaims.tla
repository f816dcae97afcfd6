---------------------------- MODULE CoverageClaims ----------------------------
(***************************************************************************)
(* What the design and the tests of coverage-marketplace-service say of    *)
(* its orders and the code does not do: each run on this module expects a  *)
(* counterexample.                                                         *)
(***************************************************************************)
EXTENDS MCCoverageOrders

\* "completed ... triggers payout transfer": one.  The retry uses other keys than
\* the first attempt, so a transfer whose answer was lost is executed again.
SinglePayout ==
  \A o \in Orders : Cardinality({key \in transfers : key[1] = o}) <= 1

\* "abandons after fourth failed retry": a queued payout is made, or given up in the end.
\* The UPDATE that reschedules a failed one is rejected by PostgreSQL, so the entry
\* stays "processing" and no poll ever looks at it again.
RetryEnds ==
  \A r \in Retries :
    retry[r].status = "pending" ~> retry[r].status \in {"succeeded", "abandoned"}

=============================================================================
