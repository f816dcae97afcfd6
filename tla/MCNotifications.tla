---------------------------- MODULE MCNotifications ----------------------------
(* Model values for checking Notifications with TLC. *)
EXTENDS Notifications

CONSTANTS e1, e2, e3, e4, p1, p2, c1, c2

\* One writer receives e1 and e2, another one e3 and e4.
KeyHash == [e \in Events |-> IF e \in {e1, e2} THEN p1 ELSE p2]

\* Bound: what one writer receives is sent one after the other.
InTurn ==
  /\ request'[e2] # "new" => request[e1] \in {"sent", "lost"}
  /\ request'[e4] # "new" => request[e3] \in {"sent", "lost"}

=============================================================================
