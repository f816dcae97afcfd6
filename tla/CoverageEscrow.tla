---------------------------- MODULE CoverageEscrow ----------------------------
(***************************************************************************)
(* What the marketplace promises about money, without any of its tables:   *)
(* a payout has to be earned, the writer's payment is captured only for an *)
(* order that is earned, a provider is paid only out of a captured         *)
(* payment, and no step moves money twice at once.  An order may be        *)
(* refunded at any time.  CoverageOrders implements this specification.    *)
(***************************************************************************)
CONSTANT Orders

VARIABLES earned, captured, paid, refunded

escrowVars == <<earned, captured, paid, refunded>>

Init == earned = {} /\ captured = {} /\ paid = {} /\ refunded = {}

Earn(o) ==
  /\ earned' = earned \cup {o}
  /\ UNCHANGED <<captured, paid, refunded>>

CaptureFunds(o) ==
  /\ o \in earned
  /\ captured' = captured \cup {o}
  /\ UNCHANGED <<earned, paid, refunded>>

\* A payout is named by the order and whatever else its implementation needs.
Pay(o) ==
  /\ o \in earned \cap captured
  /\ \E payout \in paid' : payout[1] = o /\ paid' = paid \cup {payout}
  /\ UNCHANGED <<earned, captured, refunded>>

GiveBack(o) ==
  /\ refunded' = refunded \cup {o}
  /\ UNCHANGED <<earned, captured, paid>>

Next == \E o \in Orders : Earn(o) \/ CaptureFunds(o) \/ Pay(o) \/ GiveBack(o)

Spec == Init /\ [][Next]_escrowVars

=============================================================================
