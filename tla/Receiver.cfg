CONSTANT MaxStarts = 3
SPECIFICATION Spec
INVARIANTS
    OnlyOvertakenDangles
    QuietAfterStop
    HandlesReleased
PROPERTIES
    StopReturns
\* undefined behaviour may end the process
CHECK_DEADLOCK FALSE
