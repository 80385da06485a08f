SPECIFICATION Spec
CONSTANTS
    Fd = {3, 4, 5}
    Port = {7}
    MayFail = {}
    MaxEntries = 3
    Checks <- BothResults
CHECK_DEADLOCK FALSE
INVARIANT ActiveSocketsFound
