---------------------------- MODULE RudpRetries ----------------------------
(***************************************************************************)
(* Rudp with one more history: how often each message was sent again.  A   *)
(* slot's attempt counter lives in an array of its own, which the shift of *)
(* the window moves along with the packets.                                *)
(***************************************************************************)
EXTENDS RudpStream

VARIABLE resent    \* resent[n][m][k]: retransmissions of n's k-th message to m

countedVars == <<vars, resent>>

CountedInit ==
    /\ Init
    /\ resent = [n \in Node |-> [m \in Node |-> [k \in Message |-> 0]]]

\* The messages in the window of n's session with m.
Waiting(n, m) ==
    IF sender[n][m] = NULL THEN {}
    ELSE {sender[n][m].sliding_window[i].payload : i \in Outstanding(sender[n][m])}

\* What has left the window is forgotten, which bounds the history.
Recorded(now) ==
    resent' = [n \in Node |-> [m \in Node |-> [k \in Message |->
                  IF k \in Waiting(n, m)' THEN now[n][m][k] ELSE 0]]]

\* A timer sends its packet again only if the process and the session allow.
CountedTimeout(n, m) ==
    /\ mode[n] = "up"
    /\ \E p \in events[n][m] :
        /\ Expires(n, m, p)
        /\ IF p.type = "DATA" /\ sender' # sender
           THEN Recorded([resent EXCEPT ![n][m][p.payload] = @ + 1])
           ELSE Recorded(resent)

CountedNext ==
    \/ \E n, m \in Node :
        \/ rudp_sendto(n, m) /\ Recorded(resent)
        \/ receive_callback(n, m) /\ Recorded(resent)
        \/ CountedTimeout(n, m)
        \/ Lose(n, m) /\ Recorded(resent)
    \/ \E n \in Node : rudp_close(n) /\ Recorded(resent)

CountedSpec == CountedInit /\ [][CountedNext]_countedVars

(***************************************************************************)
(* The retry limit is the packet's own: whatever ACKs moved the window     *)
(* meanwhile, the counter of a slot says how often the message now in that *)
(* slot was sent again, so that none is given up too early or too late.    *)
(***************************************************************************)
AttemptsCounted ==
    \A n, m \in Node :
        sender[n][m] # NULL =>
            \A i \in Outstanding(sender[n][m]) :
                sender[n][m].retransmission_attempts[i]
                    = resent[n][m][sender[n][m].sliding_window[i].payload]

=============================================================================
