CONSTANTS
    swap48 = swap48
    swap84 = swap84
    short = short
    noPort = noPort
    digit = digit
    loose = loose
    list = list
    com1 = com1
    com2 = com2
    Missing = Missing
    None = None
    Empty = Empty
    Documents <- MCDocuments
    Parsed <- MCParsed
    Sum <- MCSum
    Default <- MCDefault
    Misread <- MCMisread
    Addresses <- MCAddresses
SPECIFICATION Spec
INVARIANTS
    FieldsAreOfSum
    ReadAsMeant
    StartUsesOneVersion
    FaultHasCause
PROPERTIES
    EventuallyLoaded
\* a fault ends the process
CHECK_DEADLOCK FALSE
