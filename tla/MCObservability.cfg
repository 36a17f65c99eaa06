\* Three hosts: room for one in the table of errors, so that the second failing host
\* evicts the first with repeats not yet reported, for one name beside the rest in a
\* bucket and in a snapshot, and for one of the two on the page.  The clock goes round
\* a ring of two seconds.
CONSTANTS
  Keys = {k1, k2, k3}
  Workers = {w1, w2}
  Interval = 2
  MaxKeys = 1
  MaxClock = 3
  MaxRepeats = 3
  Other = other
  Ring = 2
  Windows = {1, 2}
  Summary = 3
  MaxHosts = 2
  MaxAggregated = 2
  MaxShown = 1
  MaxRecent = 2
  MaxLate = 1
  MaxRequests = 3
SPECIFICATION ObsSpec
SYMMETRY ObservabilitySymmetry
INVARIANTS
  ObsTypeOK
  FailuresAccounted
PROPERTIES
  LinesApart
  WindowsExact
  PageAgrees
\* The clock and the requests are bounded.
CHECK_DEADLOCK FALSE
