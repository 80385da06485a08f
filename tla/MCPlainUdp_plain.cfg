SPECIFICATION Spec
CONSTANTS
    ack1 = ack1
    once = once
    print = print
    hello1 = hello1
    hello2 = hello2
    file = file
    Nobody = Nobody
    Receiver = {ack1, once, print}
    Acking = {ack1}
    Printing = {print}
    Sender = {hello1, hello2, file}
    FileSender = {file}
    MayFail = {"open", "socket", "write"}
    MaxArrivals = 2
CHECK_DEADLOCK FALSE
INVARIANTS
    TypeOK
    ArrivalOnce
    AckedIsWritten
PROPERTIES
    OnlyOwnerWrites
