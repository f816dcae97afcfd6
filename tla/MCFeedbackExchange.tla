-------------------------- MODULE MCFeedbackExchange --------------------------
(* Model values for checking FeedbackExchange with TLC. *)
EXTENDS FeedbackExchange, TLC

CONSTANTS u1, u2, h1, h2

\* Users and requests are interchangeable; the runs with liveness do not use this.
ExchangeSymmetry == Permutations(Users) \cup Permutations(Handlers)

=============================================================================
