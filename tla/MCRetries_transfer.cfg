SPECIFICATION CountedSpec
CONSTANTS
    NULL = NULL
    a = a
    b = b
    c = c
    Node = {a, b}
    Flow <- OneFlow
    Closer = {a}
    Handler = {a}
    RecvHandler = {b}
    RUDP_WINDOW = 2
    RUDP_MAXRETRANS = 1
    SeqMod = 8
    MaxSend = 3
    InitialSeqno = {6}
    AsWritten = {551, 555}
    SendtoFails = TRUE
CHECK_DEADLOCK FALSE
INVARIANTS
    TypeOK
    PrefixDelivery
    AckedIsDelivered
    LastWindowIsDelivered
    EachMessageOnce
    WindowIsStreamEnd
    TimersMatch
    AttemptsCounted
    AckFindsTimer
    FinAfterDelivery
    HalfExists
    FailureHasCause
    StreamInv
PROPERTIES
    ReceiverAdvances
    ImplementsStream
