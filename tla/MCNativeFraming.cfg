CONSTANTS
    a = a
    b = b
    Text <- MCText
    Streams <- MCStreams
    Lines <- MCLines
SPECIFICATION FramingSpec
INVARIANTS
    CleanStreamIsFramed
    OnlyLastIsCut
    EachIsCalled
PROPERTIES
    DeliversStretch
\* the stream ends
CHECK_DEADLOCK FALSE
