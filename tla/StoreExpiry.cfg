CONSTANTS
    Expiries = {1}
    Period = 1
    MaxMessages = 1
    MaxPositions = 1
SPECIFICATION StoreSpec
PROPERTIES
    ExpiredAreDeleted
