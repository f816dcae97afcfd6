-------------------------- MODULE SubmissionTracking --------------------------
(***************************************************************************)
(* submission-tracking-service: writers enter projects in competitions and *)
(* report placements, which an admin verifies or rejects.                  *)
(*                                                                         *)
(* Rows are numbered in the order of creation and never deleted.  The      *)
(* project of a submission can change and no property depends on it.       *)
(***************************************************************************)
EXTENDS Integers, FiniteSets

CONSTANTS
  Writers, Competitions,
  MaxSubmissions,  \* bound: submissions
  MaxPlacements,   \* bound: placements
  EntryStatuses,   \* with which statuses submissions are entered
  Statuses         \* which placements are reported

VARIABLES
  submission,  \* [Submissions -> [writer, competition, status]]
  placement,   \* [Placements -> [submission, status, verification]]
  updating     \* placements whose request has yet to update the submission's status

trackingVars == <<submission, placement, updating>>

Submissions == 1..MaxSubmissions
Placements  == 1..MaxPlacements
Status == {"pending", "quarterfinalist", "semifinalist", "finalist", "winner"}
Verification == {"pending", "verified", "rejected"}

ASSUME TrackingAssumption ==
  MaxSubmissions \in Nat /\ MaxPlacements \in Nat /\ EntryStatuses \cup Statuses \subseteq Status

NoSubmission == [writer |-> "none", competition |-> "none", status |-> "none"]
NoPlacement  == [submission |-> 0, status |-> "none", verification |-> "none"]

Entered == {s \in Submissions : submission[s] # NoSubmission}
Placed  == {p \in Placements : placement[p] # NoPlacement}

TrackingInit ==
  /\ submission = [s \in Submissions |-> NoSubmission]
  /\ placement = [p \in Placements |-> NoPlacement]
  /\ updating = {}

\* A writer may enter as many projects in one competition as they like.
CreateSubmission(w, c, status) ==
  LET s == Cardinality(Entered) + 1 IN
  /\ s \in Submissions
  /\ submission' = [submission EXCEPT
       ![s] = [writer |-> w, competition |-> c, status |-> status]]
  /\ UNCHANGED <<placement, updating>>

\* Mutant: the submission's status is written first.
PlacementAfterStatus(s, status) ==
  /\ s \in Entered
  /\ submission' = [submission EXCEPT ![s].status = status]
  /\ UNCHANGED <<placement, updating>>

\* The insert of a placement; a second statement is to update the submission.
CreatePlacement(s, status) ==
  LET p == Cardinality(Placed) + 1 IN
  /\ s \in Entered /\ p \in Placements
  /\ placement' = [placement EXCEPT
       ![p] = [submission |-> s, status |-> status, verification |-> "pending"]]
  /\ updating' = updating \cup {p}
  /\ UNCHANGED submission

\* When the process ends before it, or it fails, this step is never taken.
UpdateSubmissionStatus(p) ==
  /\ p \in updating
  /\ submission' = [submission EXCEPT ![placement[p].submission].status = placement[p].status]
  /\ updating' = updating \ {p}
  /\ UNCHANGED placement

\* Mutant: a state the CHECK constraint does not list.
VerificationUnlisted(p, state) ==
  /\ p \in Placed
  /\ placement' = [placement EXCEPT ![p].verification = "approved"]
  /\ UNCHANGED <<submission, updating>>

\* Any state may follow any other.
UpdatePlacementVerification(p, state) ==
  /\ p \in Placed /\ placement[p].verification # state
  /\ placement' = [placement EXCEPT ![p].verification = state]
  /\ UNCHANGED <<submission, updating>>

TrackingTypeOK ==
  /\ \A s \in Entered : /\ submission[s].writer \in Writers
                        /\ submission[s].competition \in Competitions
                        /\ submission[s].status \in Status
  /\ \A p \in Placed : /\ placement[p].submission \in Entered
                       /\ placement[p].status \in Status
                       /\ placement[p].verification \in Verification
  /\ updating \subseteq Placed

=============================================================================
