CONSTANTS
    LastInstance = 2
    Failures = {"handler", "event", "thread"}
SPECIFICATION Spec
INVARIANTS
    LeavesOnlyWhenTold
    StoppedMeansLeft
PROPERTIES
    StopLeaves
    ProcessEnds
\* a service that nobody stops, or whose processes have ended, stays as it is
CHECK_DEADLOCK FALSE
