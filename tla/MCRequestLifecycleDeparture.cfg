CONSTANT Requests = {r1}
SPECIFICATION Spec
INVARIANT DepartureIsNoFailure
CHECK_DEADLOCK FALSE
