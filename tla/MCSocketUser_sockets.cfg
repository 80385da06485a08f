SPECIFICATION Spec
CONSTANTS
    Fd = {3, 4, 5}
    Port = {7}
    MayFail = {"bind", "malloc", "event_fd"}
    MaxEntries = 3
    Checks <- BothResults
CHECK_DEADLOCK FALSE
INVARIANTS
    TypeOK
    EntryPerSocket
PROPERTIES
    CloseWasAsked
