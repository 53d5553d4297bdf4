CONSTANTS
    D = D
    E = E
    t1 = t1
    t2 = t2
    t3 = t3
    NoID = NoID
    NoPart = NoPart
    Free = Free
    None = None
    MaxBuffer = 2
    Expiries = {0}
    Period = 0
    MaxMessages = 2
    MaxPositions = 2
    Char <- MCChar
    Code <- MCChar
    Text <- MCText
    Sentences <- MCSentences
    PositionsIn <- MCPositionsIn
SPECIFICATION PipelineSpec
INVARIANTS
    NoFault
    Integrity
    NothingLost
    PositionsBelong
    AnnouncedIsStored
    FreshKeepsPositions
    MissingWasTriedNow
PROPERTIES
    ImplementsMailbox
