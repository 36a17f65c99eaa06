\* Three candidates, of two kinds, and room for two, so that the oldest entry is
\* evicted; four calls, so that the limit cuts off the third failure in a row,
\* or the second if it is a 403.
CONSTANTS
  cdn1 = cdn1
  cdn2 = cdn2
  cos = cos
  Candidates = {cdn1, cdn2, cos}
  Risk <- RiskOf
  Latencies = {1, 4}
  FailureBase = 1
  FailureMax = 2
  MaxConsecutive = 5
  HealthTTL = 2
  MaxHealth = 2
  Workers = {w1, w2}
  Urls <- GroupUrls
  MaxCalls = 4
  MaxClock = 3
SPECIFICATION Spec
SYMMETRY WorkerSymmetry
INVARIANTS
  PenaltyBounded
  RankAvoidsWorse
  PreferredHonoured
PROPERTIES
  BackoffNeverShrinks
  PenaltyRemembered
\* All calls are made and the clock reaches its bound.
CHECK_DEADLOCK FALSE
