SPECIFICATION Spec
CONSTANTS
    NULL = NULL
    a = a
    b = b
    c = c
    Node = {a, b}
    Flow <- BothWays
    Closer = {a, b}
    Handler = {b}
    RecvHandler = {a, b}
    RUDP_WINDOW = 1
    RUDP_MAXRETRANS = 0
    SeqMod = 8
    MaxSend = 1
    InitialSeqno = {6}
    AsWritten = {}
    SendtoFails = TRUE
CHECK_DEADLOCK FALSE
INVARIANTS
    TransferInv
    FinAfterDelivery
    FailureHasCause
