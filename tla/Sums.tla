--------------------------------- MODULE Sums ---------------------------------
(* Totals over the rows of a table, as the services compute them in a loop. *)
EXTENDS Integers, FiniteSets, FiniteSetsExt

SumOver(rows, S) == MapThenSumSet(LAMBDA p : rows[p], S)

===============================================================================
