------------------------- MODULE MCPartnerCompetition -------------------------
(* Model values for checking PartnerCompetition with TLC. *)
EXTENDS PartnerCompetition, TLC

CONSTANTS s1, s2, j1, j2, x, y, w1, w2, r1, r2

JudgesInOrder == <<j1, j2>>
BothWays == {<<s1, s2>>, <<s2, s1>>}

\* Judges are listed in an order, and so not interchangeable.
PartnerSymmetry ==
  Permutations(Submissions) \cup Permutations(Scripts) \cup Permutations(Workers) \cup Permutations(Runners)

=============================================================================
