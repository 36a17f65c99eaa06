\* Room for two groups, batches of up to three, four ids in all: a batch larger
\* than the table, and a table refilled after its first groups have expired.
CONSTANTS
  Ids = {i1, i2, i3, i4}
  Workers = {w1, w2}
  TTL = 2
  Cap = 2
  MaxBatch = 3
  MaxClock = 3
SPECIFICATION Spec
SYMMETRY IdSymmetry
INVARIANTS
  KeptUntilDisplaced
  AnswersHonest
PROPERTY FreshBatchLands
CHECK_DEADLOCK FALSE
