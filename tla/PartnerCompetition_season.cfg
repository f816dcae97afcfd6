SPECIFICATION Spec
CONSTANTS
  s1 = s1 s2 = s2 j1 = j1 j2 = j2 x = x y = y w1 = w1 w2 = w2 r1 = r1 r2 = r2
  Runners = {r1, r2}
  MaxJobs = 1
  Breaks = {"database", "runner", "crash"}
  Submissions = {s1, s2}
  JudgeList <- JudgesInOrder
  MaxPerJudge = 1
  Scores = {40, 70}
  Scale = 12
  Publications <- BothWays
  Scripts = {x, y}
  Workers = {w1, w2}
  MaxRequests = 3
SYMMETRY PartnerSymmetry
INVARIANTS TypeOK ClaimedOnceOneVerdict PublishedWhole ScriptIsRecorded 
CHECK_DEADLOCK FALSE
