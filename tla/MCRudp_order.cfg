SPECIFICATION Spec
CONSTANTS
    NULL = NULL
    a = a
    b = b
    c = c
    Node = {a, b}
    Flow <- OneFlow
    Closer = {}
    Handler = {}
    RecvHandler = {b}
    RUDP_WINDOW = 1
    RUDP_MAXRETRANS = 0
    SeqMod = 8
    MaxSend = 3
    InitialSeqno = {6}
    AsWritten = {551, 555}
    SendtoFails = FALSE
CHECK_DEADLOCK FALSE
INVARIANTS
    HandedOrder
