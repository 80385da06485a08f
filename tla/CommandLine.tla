---------------------------- MODULE CommandLine ----------------------------
(***************************************************************************)
(* What the two applications over RudpSockets have in common: a command    *)
(* line, a place in the program and a socket of which they know what       *)
(* rudp_socket has returned.                                               *)
(***************************************************************************)
EXTENDS RudpSockets

CONSTANTS
    Argument,    \* what may stand on the command line
    Option,      \* arguments getopt takes for options
    MaxArgs      \* bound on the number of arguments

ASSUME CommandLineAssumption ==
    /\ Option \subseteq Argument
    /\ MaxArgs \in Nat

VARIABLES
    argv,    \* the arguments from optind on, options first
    pc,      \* where main, or the function it has called, is
    rsock    \* the socket it works with

process == <<sockets, argv, pc, rsock>>

Result == Fd \cup {Null, Error}

CommandLineInit ==
    /\ SocketsInit
    /\ argv \in UNION {[1 .. k -> Argument] : k \in 0 .. MaxArgs}
    /\ pc = "getopt"
    /\ rsock = Null

At(label) == mode = "up" /\ pc = label

Goto(label) == pc' = label

End(what) == mode' = what /\ UNCHANGED <<kernel, socket_list, argv, pc, rsock>>

\* Any option ends in usage(): the character getopt returns is compared with
\* a string.
HasOption == \E k \in DOMAIN argv : argv[k] \in Option

\* Mutant of IsFailure: the result is not checked.
NeverFailure(r) == FALSE

\* Of the two results by which rudp_socket reports a failure, one is
\* recognised.
IsFailure(r) == r = Null

\* Mutant of OnFailure: the call is repeated until it succeeds.
TryAgain == pc

OnFailure == "exit"

CreateSocket(port, next) ==
    \E r \in Result :
        /\ rudp_socket(port, r)
        /\ rsock' = r
        /\ Goto(IF IsFailure(r) THEN OnFailure ELSE next)

Exit == At("exit") /\ End("exited")

=============================================================================
