------------------------------ MODULE MCPrograms ------------------------------
(* Model values for checking Programs with TLC. *)
EXTENDS Programs, TLC

CONSTANTS w1, w2, c1, c2

\* Workers are interchangeable, and so are connections.
PoolSymmetry == Permutations(Workers) \cup Permutations(Connections)

=============================================================================
