CONSTANTS
    Thread = {"host", "worker"}
    MaxSize = 3
    MaxDepth = 2
    MaxCalls = 2
SPECIFICATION Spec
INVARIANTS
    SoundUnlessRaced
    SettingsOutliveWorker
PROPERTIES
    RotationMakesRoom
    DetachEnds
\* the process ends
CHECK_DEADLOCK FALSE
