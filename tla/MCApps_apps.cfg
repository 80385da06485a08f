SPECIFICATION FairSpec
CONSTANTS
    dash_d = dash_d
    noport = noport
    host = host
    hostfile = hostfile
    file1 = file1
    file2 = file2
    number = number
    atoi <- AtoiOf
    Argument <- AllArguments
    Option = {dash_d}
    Address = {noport, host, hostfile}
    GoodPort = {host, hostfile}
    File = {hostfile, file1, file2}
    MAXPEERS = 2
    MaxArgs = 4
    Fd = {3, 4, 6, 7}
    Port = {4000}
    MayFail = {"bind", "malloc", "event_fd"}
CHECK_DEADLOCK FALSE
INVARIANTS
    TypeOK
    FilesTaken
    FilesDoNotMix
    
PROPERTIES
    MainEnds
