------------------------------ MODULE RecvApp ------------------------------
(***************************************************************************)
(* rudp_recv.c: a program that is given a port, opens a socket on it, sets *)
(* its two handlers and enters the event loop.                             *)
(***************************************************************************)
EXTENDS CommandLine

CONSTANT atoi    \* the number atoi makes of an argument

ASSUME RecvAssumption ==
    /\ atoi \in [Argument -> Int]
    /\ {atoi[x] : x \in Argument} \ Port \subseteq {x \in Int : x <= 0}

ReadArguments ==
    /\ At("getopt")
    /\ IF HasOption \/ Len(argv) # 1 THEN End("usage")
       ELSE IF atoi[argv[1]] <= 0 THEN End("exited")
       ELSE Goto("rudp_socket") /\ UNCHANGED <<sockets, argv, rsock>>

CreateListener ==
    /\ At("rudp_socket")
    /\ CreateSocket(atoi[argv[1]], "recvfrom_handler")
    /\ UNCHANGED argv

SetRecvfromHandler ==
    /\ At("recvfrom_handler")
    /\ rudp_recvfrom_handler(rsock)
    /\ Goto("event_handler")
    /\ UNCHANGED <<argv, rsock>>

SetEventHandler ==
    /\ At("event_handler")
    /\ rudp_event_handler(rsock)
    /\ Goto("eventloop")
    /\ UNCHANGED <<argv, rsock>>

\* eventloop(0), which does not return.
EventLoop ==
    /\ At("eventloop")
    /\ \E fd \in Fd : receive_callback(fd)
    /\ UNCHANGED <<argv, pc, rsock>>

RecvNext ==
    \/ ReadArguments \/ CreateListener \/ Exit
    \/ SetRecvfromHandler \/ SetEventHandler \/ EventLoop

=============================================================================
