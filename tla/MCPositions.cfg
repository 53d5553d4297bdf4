CONSTANTS
    Char <- MCChar
    Writings <- MCWritings
SPECIFICATION Spec
INVARIANTS
    ReadAsWritten
    Neighbours
    StaysInText
PROPERTIES
    MovesOn
\* the text ends
CHECK_DEADLOCK FALSE
