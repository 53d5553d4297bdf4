CONSTANTS
    Char <- MCChar
    Writings <- MCWritings
SPECIFICATION Spec
PROPERTIES
    ShortDatesSkipped
\* the two calls are over
CHECK_DEADLOCK FALSE
