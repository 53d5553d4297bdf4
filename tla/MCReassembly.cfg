CONSTANTS
    D = D
    E = E
    lower = lower
    t1 = t1
    t2 = t2
    NoID = NoID
    NoPart = NoPart
    Free = Free
    MaxBuffer = 2
    Char <- MCChar
    Code <- MCCode
    Text <- MCText
    Sentences <- MCSentences
SPECIFICATION Spec
INVARIANTS
    OpenSlotsWait
PROPERTIES
    HeaderIsFixed
    ReplayStoresOneLinersOnly
    ImplementsAssembly
\* a fault ends the process
CHECK_DEADLOCK FALSE
