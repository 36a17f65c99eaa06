CONSTANTS
  Timeout = 2
  MaxChunks = 3
SPECIFICATION Spec
INVARIANT StallMeansSilence
CHECK_DEADLOCK FALSE
