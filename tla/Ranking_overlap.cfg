SPECIFICATION Spec
CONSTANTS
  a = a b = b c1 = c1 r1 = r1 r2 = r2
  Writers = {a, b}
  Competitions = {c1}
  MaxSubmissions = 2
  MaxPlacements = 2
  EntryStatuses = {"pending"}
  Statuses = {"winner"}
  Workers = {r1, r2}
  Multipliers = {2, 4}
  MaxChanges = 1
  MaxRuns = 3
  Faults = {"database", "upstream"}
SYMMETRY RankingSymmetry
INVARIANTS TypeOK BadgeIsEarned SettledAgrees
PROPERTIES StatusHasPlacement ScoresChangeWhole
CHECK_DEADLOCK FALSE
ACTION_CONSTRAINT LastRunIsLate
