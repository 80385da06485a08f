-------------------------------- MODULE Apps --------------------------------
(***************************************************************************)
(* A process that runs one of the two applications.                        *)
(***************************************************************************)
EXTENDS SendApp, RecvApp

VARIABLE program    \* the application it runs

vars == <<process, sending, program>>

Init ==
    /\ CommandLineInit
    /\ SendInit
    /\ program \in {"udp_fs", "rudp_recv"}

Next ==
    /\ \/ program = "udp_fs" /\ SendNext
       \/ program = "rudp_recv" /\ RecvNext /\ UNCHANGED sending
    /\ UNCHANGED program

Spec == Init /\ [][Next]_vars

\* Until the event loop, nothing that main does waits for anybody.
FairSpec == Spec /\ WF_vars(Next)

-----------------------------------------------------------------------------
TypeOK ==
    /\ mode \in {"up", "usage", "exited", "returned"} \cup Failures
    /\ i \in 1 .. Len(argv) + 2
    /\ peers \in Seq(GoodPort) /\ Len(peers) <= MAXPEERS
    /\ rsock \in Result
    /\ p \in 1 .. MAXPEERS + 1
    /\ open \subseteq Fd
    /\ watched \subseteq Fd
    /\ socket_list \in Seq(Entry)

(***************************************************************************)
(* Where an application can fail.  The sender: while it reads addresses,   *)
(* or after a failure of malloc in rudp_socket, whose result it takes for  *)
(* a socket.  The receiver: only in its event loop, and only on datagrams  *)
(* that come after a peer has opened a session; until then none of its     *)
(* calls fails, whatever rudp_socket has returned.                         *)
(***************************************************************************)
FailureIsUnchecked ==
    mode \in Failures =>
        IF program = "udp_fs" THEN pc = "addresses" \/ rsock = Error
        ELSE pc = "eventloop" /\ \E k \in DOMAIN socket_list : socket_list[k].halves # {}

(***************************************************************************)
(* Each application ends or gets to its event loop, whatever fails on the  *)
(* way: the two loops of udp_fs.c, which share an index that both the loop *)
(* and its body increase, always come to an end.                           *)
(***************************************************************************)
MainEnds == <>(mode # "up" \/ pc = "eventloop")

=============================================================================
