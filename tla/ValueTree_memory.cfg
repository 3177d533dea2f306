SPECIFICATION TreeSpec
CONSTANTS
    Addresses = {1}
    Names = {1}
    Keys = {k1}
    Numbers = {7}
    Committed = {}
    Uses = {}
    MaxTx = 1
    MaxEdits = 3
    MaxSize = 0
    MaxText = 1
INVARIANT OwnMemory
CHECK_DEADLOCK FALSE
