SPECIFICATION Spec
CONSTANTS
    NULL = NULL
    a = a
    b = b
    c = c
    Node = {a, b, c}
    Flow <- TwoPeers
    Closer = {a}
    Handler = {a}
    RecvHandler = {b, c}
    RUDP_WINDOW = 1
    RUDP_MAXRETRANS = 0
    SeqMod = 8
    MaxSend = 1
    InitialSeqno = {6}
    AsWritten = {551, 555}
    SendtoFails = TRUE
CHECK_DEADLOCK FALSE
INVARIANTS
    TimersMatch
    FinAfterDelivery
    HalfExists
    FailureHasCause
PROPERTIES
    ImplementsStream
