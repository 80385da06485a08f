------------------------------ MODULE SendApp ------------------------------
(***************************************************************************)
(* udp_fs.c, of which rudp_send.c is a copy: a program that is given peers *)
(* and files, and sends the name of each file to every peer over a socket  *)
(* of its own.  It never runs the event loop, so that no callback of       *)
(* RudpSockets takes part in it.                                           *)
(***************************************************************************)
EXTENDS CommandLine

CONSTANTS
    Address,    \* arguments in which strchr finds the colon
    GoodPort,   \* those whose port is greater than zero
    File,       \* arguments that name a readable file
    MAXPEERS    \* size of the array peers

ASSUME SendAssumption ==
    /\ Address \cup File \subseteq Argument
    /\ Option \cap Address = {}
    /\ GoodPort \subseteq Address
    /\ MAXPEERS \in Nat \ {0}

VARIABLES
    i,       \* main's index into argv
    peers,   \* the destinations, in order; npeers is their number
    p,       \* send_file's index into peers
    sent     \* history: calls of rudp_sendto that returned 0

send_file == <<p, sent>>
sending == <<i, peers, send_file>>

SendInit ==
    /\ i = 1
    /\ peers = << >>
    /\ p = 1
    /\ sent = {}

SendEnd(what) == End(what) /\ UNCHANGED sending

-----------------------------------------------------------------------------
\* main, up to the first loop.
GetOpt ==
    /\ At("getopt")
    /\ IF HasOption THEN SendEnd("usage")
       ELSE Goto("addresses") /\ UNCHANGED <<sockets, argv, rsock, sending>>

\* One round of the first loop.  It writes through a pointer that was never
\* set, and beyond the array when there are too many peers.
ReadAddress ==
    /\ At("addresses")
    /\ i <= Len(argv)
    /\ argv[i] \in Address
    /\ IF argv[i] \notin GoodPort THEN SendEnd("exited")
       ELSE \/ "malloc" \in MayFail /\ SendEnd("exited")
            \/ SendEnd("undefined")
            \/ /\ Len(peers) < MAXPEERS
               /\ peers' = Append(peers, argv[i])
               /\ i' = i + 1
               /\ UNCHANGED <<process, send_file>>

\* Mutant of Restart: the second loop starts where the first one stopped.
GoOn(k) == k

\* The second loop starts at optind again.
Restart(k) == 1

EndOfAddresses ==
    /\ At("addresses")
    /\ i <= Len(argv) => argv[i] \notin Address
    /\ IF peers = << >> THEN SendEnd("usage")
       ELSE /\ Goto("files")
            /\ i' = Restart(i)
            /\ UNCHANGED <<sockets, argv, rsock, peers, send_file>>

Return ==
    /\ At("files")
    /\ i > Len(argv)
    /\ SendEnd("returned")

\* Mutant of NextFile: a file that cannot be sent is tried again.
SameFile(k) == k

\* argv[i++] in a loop that increments i as well.
NextFile(k) == k + 2

(***************************************************************************)
(* send_file.  The file is opened and never closed.                        *)
(***************************************************************************)
OpenFile ==
    /\ At("files")
    /\ i <= Len(argv)
    /\ IF argv[i] \notin File \/ open = Fd THEN SendEnd("exited")
       ELSE /\ open' = open \cup {Lowest(Fd \ open)}
            /\ Goto("socket")
            /\ UNCHANGED <<mode, bound, watched, socket_list>>
            /\ UNCHANGED <<argv, rsock, sending>>

OpenSocket ==
    /\ At("socket")
    /\ CreateSocket(AnyPort, "sendto")
    /\ p' = 1
    /\ UNCHANGED <<argv, i, peers, sent>>

SendExit == Exit /\ UNCHANGED sending

SendName ==
    /\ At("sendto")
    /\ p <= Len(peers)
    /\ \/ /\ rudp_sendto(rsock, 0)
          /\ sent' = sent \cup {[file |-> i, peer |-> p, rsock |-> rsock]}
          /\ p' = p + 1
          /\ UNCHANGED pc
       \/ /\ rudp_sendto(rsock, Error)
          /\ Goto("close")
          /\ UNCHANGED <<p, sent>>
    /\ UNCHANGED <<argv, i, peers, rsock>>

FileDone ==
    /\ At("sendto")
    /\ p > Len(peers)
    /\ Goto("files")
    /\ i' = NextFile(i)
    /\ UNCHANGED <<sockets, argv, rsock, peers, send_file>>

GiveUp ==
    /\ At("close")
    /\ \E r \in {0, Error} : rudp_close(rsock, r)
    /\ Goto("files")
    /\ i' = NextFile(i)
    /\ UNCHANGED <<argv, rsock, peers, send_file>>

SendNext ==
    \/ GetOpt \/ ReadAddress \/ EndOfAddresses \/ Return
    \/ OpenFile \/ OpenSocket \/ SendExit \/ SendName \/ FileDone \/ GiveUp

-----------------------------------------------------------------------------
(***************************************************************************)
(* Whether anything is sent is decided by the arguments: since the second  *)
(* loop restarts at the first peer, a file must bear the name of a peer,   *)
(* and no two files are neighbours on the command line.                    *)
(***************************************************************************)
FilesTaken ==
    \A x \in sent :
        /\ argv[1] \in Address \cap File
        /\ argv[x.file] \in File
        /\ \A y \in sent : y.file # x.file + 1

(***************************************************************************)
(* Files do not mix: each has a socket of its own, and within a file the   *)
(* peers are served in order without a gap.                                *)
(***************************************************************************)
FilesDoNotMix ==
    \A x \in sent :
        /\ \A y \in sent : x.file = y.file <=> x.rsock = y.rsock
        /\ \A q \in 1 .. x.peer : [x EXCEPT !.peer = q] \in sent

=============================================================================
