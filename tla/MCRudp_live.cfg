SPECIFICATION FairSpec
CONSTANTS
    NULL = NULL
    a = a
    b = b
    c = c
    Node = {a, b}
    Flow <- OneFlow
    Closer = {a}
    Handler = {a}
    RecvHandler = {b}
    RUDP_WINDOW = 1
    RUDP_MAXRETRANS = 1
    SeqMod = 8
    MaxSend = 2
    InitialSeqno = {6}
    AsWritten = {551, 555}
    SendtoFails = FALSE
CHECK_DEADLOCK FALSE
INVARIANT KeepsTrying
PROPERTIES
    HandshakeEnds
    NumberedIsDelivered
    BusyQueueMoves
    BusyCloseEnds
