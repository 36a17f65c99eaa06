\* As MCMediaFetch, for the promise of the README alone.
CONSTANTS
  cdn1 = cdn1
  cdn2 = cdn2
  cos = cos
  Candidates = {cdn1, cdn2, cos}
  Risk <- RiskOf
  Latencies = {1}
  FailureBase = 1
  FailureMax = 2
  MaxConsecutive = 5
  HealthTTL = 2
  MaxHealth = 3
  Requests = {r1, r2}
  Urls <- GroupUrls
  Direct = {cos}
  Redirected = {cdn2}
  MaxClock = 1
SPECIFICATION Spec
SYMMETRY RequestSymmetry
INVARIANT CooldownIsForFailures
\* Every request ends.
CHECK_DEADLOCK FALSE
