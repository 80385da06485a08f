SPECIFICATION Spec
CONSTANTS
    NULL = NULL
    a = a
    b = b
    c = c
    Node = {a, b, c}
    Flow <- TwoSenders
    Closer = {}
    Handler = {}
    RecvHandler = {c}
    RUDP_WINDOW = 1
    RUDP_MAXRETRANS = 0
    SeqMod = 8
    MaxSend = 1
    InitialSeqno = {6}
    AsWritten = {551}
    SendtoFails = FALSE
CHECK_DEADLOCK FALSE
INVARIANTS
    ReceiverStaysUp
