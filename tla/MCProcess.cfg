\* Two servers, so that one can fail to bind or fail later while the other has a
\* request running.
CONSTANTS
  r1 = r1
  r2 = r2
  N = 2
  Requests = {r1, r2}
  Home <- HomeOf
SPECIFICATION FairSpec
INVARIANTS
  PortsReleased
  GracefulStop
  TracesWhole
PROPERTY StopEndsProcess
\* The process ends.
CHECK_DEADLOCK FALSE
