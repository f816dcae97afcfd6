--------------------------- MODULE MCCoverageOrders ---------------------------
(* Model values for checking CoverageOrders with TLC. *)
EXTENDS CoverageOrders, TLC

CONSTANTS o1, i1, i2, h1, h2, s1, p1

\* Requests are interchangeable; the runs with liveness do not use this.
HandlerSymmetry == Permutations(Handlers)

=============================================================================
