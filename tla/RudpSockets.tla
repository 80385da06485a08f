---------------------------- MODULE RudpSockets ----------------------------
(***************************************************************************)
(* The sockets of one process: descriptors, the list that socket_list_head *)
(* starts, the event loop's registrations, and the functions that look a   *)
(* socket up by its descriptor.  What happens inside a session is Rudp's   *)
(* subject; here a socket's sessions are the halves they have, and whether *)
(* they have been freed.                                                   *)
(***************************************************************************)
EXTENDS Integers, Sequences, FiniteSets

CONSTANTS
    Fd,        \* descriptors the process may have open, besides 0, 1 and 2
    Port,      \* ports an application asks for
    MayFail    \* calls that may fail, whatever the process does

AnyPort == 0

\* What rudp_socket returns when it fails.
Null == 0
Error == -1

ASSUME SocketAssumption ==
    /\ Fd \subseteq Nat \ {0}
    /\ IsFiniteSet(Fd)
    /\ Port \subseteq Nat
    /\ MayFail \subseteq {"bind", "malloc", "event_fd"}

VARIABLES
    mode,          \* what has become of the process
    open,          \* descriptors in use
    bound,         \* bound[fd]: the port asked for, or AnyPort
    watched,       \* descriptors registered with event_fd
    socket_list    \* the entries from socket_list_head on

sockets == <<mode, open, bound, watched, socket_list>>
kernel == <<open, bound, watched>>

Entry == [rsock : Fd, close_requested : BOOLEAN, handler : BOOLEAN,
          recv_handler : BOOLEAN, halves : SUBSET {"sender", "receiver"},
          sessions_freed : BOOLEAN, freed : BOOLEAN]

\* Mutant of NewEntry: the entry gets another descriptor.
NextEntry(fd) ==
    [rsock |-> fd + 1, close_requested |-> FALSE, handler |-> FALSE,
     recv_handler |-> FALSE, halves |-> {}, sessions_freed |-> FALSE, freed |-> FALSE]

\* Mutant of NewEntry: close_requested is not set, and malloc returns the
\* memory of a socket that had the same descriptor.
DirtyEntry(fd) ==
    [rsock |-> fd,
     close_requested |-> \E i \in DOMAIN socket_list :
                            socket_list[i].rsock = fd /\ socket_list[i].close_requested,
     handler |-> FALSE, recv_handler |-> FALSE, halves |-> {},
     sessions_freed |-> FALSE, freed |-> FALSE]

NewEntry(fd) ==
    [rsock |-> fd, close_requested |-> FALSE, handler |-> FALSE,
     recv_handler |-> FALSE, halves |-> {}, sessions_freed |-> FALSE, freed |-> FALSE]

SocketsInit ==
    /\ mode = "up"
    /\ open = {}
    /\ bound = [fd \in Fd |-> AnyPort]
    /\ watched = {}
    /\ socket_list = << >>

Lowest(S) == CHOOSE x \in S : \A y \in S : x <= y

\* The process cannot go on after an API call that ends in mode "what".
Failures == {"crashed", "hung", "undefined"}

-----------------------------------------------------------------------------
(***************************************************************************)
(* The lookup of a socket.  The loops stop at the first entry with the     *)
(* descriptor, or read the whole list.  An entry that was freed without    *)
(* being unlinked is read like any other, and C does not say with what     *)
(* result: the process may do anything, or go on to the next entry of the  *)
(* list, and the descriptor in the freed memory may still match or not.    *)
(***************************************************************************)
Matching(h) == {i \in DOMAIN socket_list : socket_list[i].rsock = h}

\* Where the loop may stop, and whether it may come to the end instead.
Found(h) ==
    {i \in Matching(h) : \A j \in Matching(h) : j < i => socket_list[j].freed}

Missed(h) == \A i \in Matching(h) : socket_list[i].freed

\* The entries it may read.
Walked(h) ==
    {i \in DOMAIN socket_list :
        \A j \in Matching(h) : j < i => socket_list[j].freed}

ReadsFreed(read) == \E i \in read : socket_list[i].freed

Fail(what) == mode' = what /\ UNCHANGED <<kernel, socket_list>>

\* A lookup that is led astray by a freed entry.
Strays(h) == ReadsFreed(Walked(h)) /\ Fail("undefined")

AddHalf(i, half) ==
    /\ socket_list' = [socket_list EXCEPT ![i].halves = @ \cup {half}]
    /\ UNCHANGED <<mode, kernel>>

-----------------------------------------------------------------------------
(***************************************************************************)
(* rudp_socket.  A failure after socket() leaves the descriptor open; one  *)
(* of event_fd is logged and otherwise ignored.                            *)
(***************************************************************************)
PortInUse(port) == port # AnyPort /\ \E fd \in open : bound[fd] = port

NoDescriptor(r) ==
    /\ open = Fd
    /\ r = Null
    /\ UNCHANGED sockets

BindFails(port, r) ==
    /\ open # Fd
    /\ PortInUse(port) \/ "bind" \in MayFail
    /\ open' = open \cup {Lowest(Fd \ open)}
    /\ r = Null
    /\ UNCHANGED <<mode, bound, watched, socket_list>>

MallocFails(port, r) ==
    /\ "malloc" \in MayFail
    /\ open # Fd
    /\ ~ PortInUse(port)
    /\ open' = open \cup {Lowest(Fd \ open)}
    /\ bound' = [bound EXCEPT ![Lowest(Fd \ open)] = port]
    /\ r = Error
    /\ UNCHANGED <<mode, watched, socket_list>>

\* Mutant of WithSocket: the new entry takes the place of the list.
OnlySocket(list, fd) == <<NewEntry(fd)>>

\* The new entry goes to the end of the list.
WithSocket(list, fd) == Append(list, NewEntry(fd))

Registers(port, r) ==
    /\ open # Fd
    /\ ~ PortInUse(port)
    /\ r = Lowest(Fd \ open)
    /\ \/ ReadsFreed(DOMAIN socket_list) /\ Fail("undefined")
       \/ /\ open' = open \cup {r}
          /\ bound' = [bound EXCEPT ![r] = port]
          /\ socket_list' = WithSocket(socket_list, r)
          /\ \/ watched' = watched \cup {r}
             \/ "event_fd" \in MayFail /\ UNCHANGED watched
          /\ UNCHANGED mode

rudp_socket(port, r) ==
    /\ mode = "up"
    /\ \/ NoDescriptor(r)
       \/ BindFails(port, r)
       \/ MallocFails(port, r)
       \/ Registers(port, r)

-----------------------------------------------------------------------------
\* The handlers are set by two functions of rudp_api.h, which look the socket
\* up as the functions here do.
rudp_recvfrom_handler(h) ==
    /\ mode = "up"
    /\ \/ Strays(h)
       \/ Missed(h) /\ UNCHANGED sockets
       \/ \E i \in Found(h) :
            /\ socket_list' = [socket_list EXCEPT ![i].recv_handler = TRUE]
            /\ UNCHANGED <<mode, kernel>>

rudp_event_handler(h) ==
    /\ mode = "up"
    /\ \/ Strays(h)
       \/ Missed(h) /\ UNCHANGED sockets
       \/ \E i \in Found(h) :
            /\ socket_list' = [socket_list EXCEPT ![i].handler = TRUE]
            /\ UNCHANGED <<mode, kernel>>

\* rudp_close reads the first entry before it knows that there is one.
rudp_close(h, r) ==
    /\ mode = "up"
    /\ \/ socket_list = << >> /\ r = Error /\ Fail("crashed")
       \/ r = Error /\ Strays(h)
       \/ socket_list # << >> /\ Missed(h) /\ r = Error /\ UNCHANGED sockets
       \/ \E i \in Found(h) :
            /\ r = 0
            /\ socket_list' = [socket_list EXCEPT ![i].close_requested = TRUE]
            /\ UNCHANGED <<mode, kernel>>

(***************************************************************************)
(* rudp_sendto up to the session.  The test on a negative descriptor has   *)
(* an effect only if rudp_socket_t, a type of the absent rudp_api.h, is a  *)
(* signed one.  A loop that found nothing leaves a null pointer behind.    *)
(***************************************************************************)
SendOn(i, r) ==
    \/ "malloc" \in MayFail /\ r = Error /\ UNCHANGED sockets
    \/ socket_list[i].sessions_freed /\ r = Error /\ Fail("undefined")
    \/ ~ socket_list[i].sessions_freed /\ r = 0 /\ AddHalf(i, "sender")
    \/ /\ "receiver" \in socket_list[i].halves     \* SendtoReceiverOnly
       /\ r = Error /\ Fail("crashed")

rudp_sendto(h, r) ==
    /\ mode = "up"
    /\ \/ (h < 0 \/ socket_list = << >>) /\ r = Error /\ UNCHANGED sockets
       \/ r = Error /\ Strays(h)
       \/ socket_list # << >> /\ Missed(h) /\ r = Error /\ Fail("crashed")
       \/ \E i \in Found(h) : SendOn(i, r)

-----------------------------------------------------------------------------
(***************************************************************************)
(* receive_callback up to the session, and what it does to the socket.  An *)
(* ACK of a FIN frees the sessions and, if all of them are finished and    *)
(* the application has an event handler, closes the socket; its entry is   *)
(* freed but stays in the list.  With receiving halves the walks of the    *)
(* list on close fail (ReceiveAckFinSent and FinLoop of Rudp).             *)
(***************************************************************************)
\* Mutant of CloseSocket: close(file) is missing.
CloseSocketKeepsDescriptor(i) ==
    /\ socket_list' = [socket_list EXCEPT ![i].freed = TRUE, ![i].sessions_freed = TRUE]
    /\ watched' = watched \ {socket_list[i].rsock}
    /\ UNCHANGED <<mode, open, bound>>

CloseSocket(i) ==
    LET fd == socket_list[i].rsock IN
    /\ socket_list' = [socket_list EXCEPT ![i].freed = TRUE, ![i].sessions_freed = TRUE]
    /\ watched' = watched \ {fd}
    /\ open' = open \ {fd}
    /\ bound' = [bound EXCEPT ![fd] = AnyPort]
    /\ UNCHANGED mode

FinAcked(i) ==
    LET e == socket_list[i] IN
    /\ e.close_requested
    /\ "sender" \in e.halves
    /\ \/ e.handler /\ CloseSocket(i)
       \/ /\ socket_list' = [socket_list EXCEPT ![i].sessions_freed = TRUE]
          /\ UNCHANGED <<mode, kernel>>

CloseWalkFails(i) ==
    /\ socket_list[i].close_requested
    /\ "receiver" \in socket_list[i].halves
    /\ \E what \in Failures : Fail(what)

\* Mutant of MeetsNull: a datagram fails also where there is no session.
MeetsNullAlways(i) == Fail("crashed")

\* A datagram for a half of the session that is missing, or from a new peer
\* where another has a session (ReceiveMissingHalf and ReceiveNoSession of
\* Rudp), ends in a null pointer.
MeetsNull(i) == socket_list[i].halves # {} /\ Fail("crashed")

ReceiveOn(i) ==
    \/ socket_list[i].sessions_freed /\ Fail("undefined")
    \/ /\ ~ socket_list[i].sessions_freed
       /\ \/ AddHalf(i, "receiver")
          \/ FinAcked(i)
          \/ CloseWalkFails(i)
          \/ MeetsNull(i)
          \/ UNCHANGED sockets

receive_callback(fd) ==
    /\ mode = "up"
    /\ fd \in watched
    /\ \/ Strays(fd)
       \/ Missed(fd) /\ UNCHANGED sockets
       \/ \E i \in Found(fd) : ReceiveOn(i)

=============================================================================
