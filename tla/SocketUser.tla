----------------------------- MODULE SocketUser -----------------------------
(***************************************************************************)
(* Any application on top of RudpSockets: it opens sockets, sends, closes  *)
(* and serves their datagrams in any order, with descriptors rudp_socket   *)
(* has returned and RUDP_EVENT_CLOSED has not yet taken back.              *)
(***************************************************************************)
EXTENDS RudpSockets

CONSTANTS
    Checks,       \* results of rudp_socket the application takes for errors
    MaxEntries    \* bound on the entries of the list, freed ones included

ASSUME ChecksAssumption == Checks \subseteq {Null, Error} /\ MaxEntries \in Nat

VARIABLES
    held,    \* what the application takes for sockets of its own
    lost,    \* history: failed calls that left a descriptor open
    asked    \* history: descriptors closed by the application since they were opened

vars == <<sockets, held, lost, asked>>

Result == Fd \cup {Null, Error}

Init == SocketsInit /\ held = {} /\ lost = 0 /\ asked = {}

OpenSocket ==
    /\ Len(socket_list) < MaxEntries
    /\ \E port \in Port \cup {AnyPort}, r \in Result :
        /\ rudp_socket(port, r)
        /\ held' = held \cup ({r} \ Checks)
        /\ lost' = IF r \in {Null, Error} /\ open' # open THEN lost + 1 ELSE lost
        /\ asked' = asked \ {r}

Close(h) ==
    /\ \E r \in {0, Error} : rudp_close(h, r)
    /\ asked' = asked \cup {h}
    /\ UNCHANGED <<held, lost>>

Use(h) ==
    /\ \/ rudp_event_handler(h)
       \/ \E r \in {0, Error} : rudp_sendto(h, r)
    /\ UNCHANGED <<held, lost, asked>>

Receive(fd) ==
    /\ receive_callback(fd)
    /\ held' = IF fd \in open' THEN held ELSE held \ {fd}
    /\ UNCHANGED <<lost, asked>>

Next ==
    \/ OpenSocket
    \/ \E h \in held : Close(h) \/ Use(h)
    \/ \E fd \in Fd : Receive(fd)

Spec == Init /\ [][Next]_vars

-----------------------------------------------------------------------------
Live == {i \in DOMAIN socket_list : ~ socket_list[i].freed}

TypeOK ==
    /\ mode \in {"up"} \cup Failures
    /\ open \subseteq Fd
    /\ bound \in [Fd -> Port \cup {AnyPort}]
    /\ watched \subseteq Fd
    /\ socket_list \in Seq(Entry)
    /\ held \subseteq Result
    /\ lost \in Nat
    /\ asked \subseteq Result

(***************************************************************************)
(* Descriptors and entries agree, also when a closed socket's descriptor   *)
(* is given out again while its freed entry is still in the list: each     *)
(* registered descriptor has one live entry, each live entry an open       *)
(* descriptor of its own, and what else is open was left behind by a call  *)
(* of rudp_socket that failed.                                             *)
(***************************************************************************)
EntryPerSocket ==
    /\ \A fd \in watched : \E i \in Live : socket_list[i].rsock = fd
    /\ \A i \in Live : socket_list[i].rsock \in open
    /\ \A i, j \in Live : socket_list[i].rsock = socket_list[j].rsock => i = j
    /\ Cardinality(open) = Cardinality(Live) + lost

(***************************************************************************)
(* No socket is closed for another's sake: the event loop takes a          *)
(* descriptor back only if the application called rudp_close on it after   *)
(* rudp_socket last returned it.  What was asked of an earlier socket with *)
(* the same descriptor does not count, although its entry is still there.  *)
(***************************************************************************)
CloseWasAsked == [][open \ open' \subseteq asked]_vars

(***************************************************************************)
(* Several sockets can be active: a socket the application still holds is  *)
(* found, whatever has become of the others.                               *)
(***************************************************************************)
ActiveSocketsFound ==
    mode = "up" => \A h \in held : Found(h) # {} /\ ~ ReadsFreed(Walked(h))

=============================================================================
