\* No symmetry: it is unsound for liveness.
CONSTANT Requests = {r1, r2}
SPECIFICATION FairSpec
INVARIANTS
  CountersTrue
  SuccessIsWhole
  VerdictHasCause
PROPERTY LeaversAreCounted
\* Every request ends.
CHECK_DEADLOCK FALSE
