CONSTANTS
    LastInstance = 1
    Failures = {}
SPECIFICATION Spec
PROPERTIES
    StopTakesEffect
CHECK_DEADLOCK FALSE
