\* Three calls; a key lives one tick, and the clock has room for it to run out
\* before, while and after each of them looks at it.  No symmetry: it is unsound
\* for liveness.
CONSTANTS
  Requests = {r1, r2, r3}
  NoKey = NoKey
  NoChan = NoChan
  Failed = Failed
  Pending = Pending
  KeyTTL = 1
  MaxClock = 3
SPECIFICATION FairSpec
INVARIANTS
  SingleFetch
  NoLostWakeup
  ErrorIsolation
PROPERTIES
  ImplementsKeyCache
  EveryCallReturns
\* All calls return and the clock reaches its bound.
CHECK_DEADLOCK FALSE
