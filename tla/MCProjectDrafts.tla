--------------------------- MODULE MCProjectDrafts ---------------------------
(* Model values for checking ProjectDrafts with TLC. *)
EXTENDS ProjectDrafts

CONSTANTS d1, d2, d3, w1, w2

=============================================================================
