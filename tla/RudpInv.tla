------------------------------ MODULE RudpInv ------------------------------
(***************************************************************************)
(* The inductive invariant behind PrefixDelivery.  It ties the three       *)
(* places where the numbering of a flow is kept together: the sender's     *)
(* seqno, the DATA packets on their way or waiting for a timeout, and the  *)
(* receiver's expected_seqno.                                              *)
(***************************************************************************)
EXTENDS Rudp, RudpWindow

\* No timer runs before a sender session exists.
NoTimers == \A n, m \in Node : sender[n][m] = NULL => events[n][m] = {}

\* Without a sender session nothing was numbered, and nothing handed over but
\* to a session that cannot be found; an initial number without a session is
\* left by a process that failed in rudp_sendto.
Unopened(n, m) ==
    sender[n][m] = NULL =>
        /\ receiver[n][m] = NULL => handed[n][m] = 0
        /\ stream[n][m] = << >>
        /\ isn[n][m] # NULL => mode[n] # "up"

\* The stream and the queue are all that was handed over, and until the FIN
\* the session's seqno is the number of the last message of the stream.
Numbering(n, m) ==
    sender[n][m] # NULL =>
        /\ isn[n][m] # NULL
        /\ Len(stream[n][m]) + Len(sender[n][m].data_queue) = handed[n][m]
        /\ sender[n][m].status # "FIN_SENT" =>
              sender[n][m].seqno = SeqAdd(isn[n][m], Len(stream[n][m]))

\* DATA is a message of the stream under its own number.
OfStream(n, m, p) ==
    \E k \in 1 .. Len(stream[n][m]) :
        p.seqno = SeqAdd(isn[n][m], k) /\ p.payload = stream[n][m][k]

Genuine(n, m, p) ==
    /\ p.type = "DATA" => OfStream(n, m, p)
    /\ p.type = "SYN" => isn[n][m] # NULL /\ p.seqno = isn[n][m]

\* The receiver expects the number that follows what it has delivered.
Expecting(n, m) ==
    (m \in RecvHandler /\ receiver[m][n] # NULL) =>
        /\ isn[n][m] # NULL
        /\ receiver[m][n].expected_seqno = SeqAdd(isn[n][m], Len(delivered[m][n]) + 1)
        /\ receiver[m][n].status = "OPENING" => delivered[m][n] = << >>

NoDelivery(n, m) ==
    (m \notin RecvHandler \/ receiver[m][n] = NULL) => delivered[m][n] = << >>

Delivered(n, m) ==
    /\ Len(delivered[m][n]) <= Len(stream[n][m])
    /\ \A i \in 1 .. Len(delivered[m][n]) : delivered[m][n][i] = stream[n][m][i]

FlowInv(n, m) ==
    /\ Unopened(n, m)
    /\ Numbering(n, m)
    /\ \A p \in net[n][m] \cup events[n][m] : Genuine(n, m, p)
    /\ Expecting(n, m)
    /\ NoDelivery(n, m)
    /\ Delivered(n, m)

(***************************************************************************)
(* One flow is one sequence: whatever is numbered, in flight, waiting for  *)
(* a retransmission, expected or delivered is at its place in the stream.  *)
(***************************************************************************)
StreamInv == \A n, m \in Node : FlowInv(n, m)

-----------------------------------------------------------------------------
(***************************************************************************)
(* The second invariant relates the two ends of a flow.  b messages have   *)
(* left the sender's window, e have been taken by the receiver; whatever   *)
(* ACKs are late or repeated, b never passes e.                            *)
(***************************************************************************)
Sending(n, m, b) ==
    sender[n][m] # NULL =>
        /\ Matches(sender[n][m], isn[n][m], stream[n][m], b)
        /\ AllKept(sender[n][m], stream[n][m], handed[n][m])
        /\ events[n][m] \subseteq Unacked(sender[n][m])

Ended(n, m) == IF sender[n][m] = NULL THEN FALSE ELSE sender[n][m].status = "FIN_SENT"

Finished(n, m) == receiver[m][n] # NULL /\ receiver[m][n].session_finished

\* What the receiver expects, and that the FIN is the last it takes.
Taking(n, m, e) ==
    /\ e \in 0 .. Len(stream[n][m])
    /\ receiver[m][n] = NULL => e = 0
    /\ receiver[m][n] # NULL =>
          /\ isn[n][m] # NULL
          /\ receiver[m][n].expected_seqno = SeqAdd(isn[n][m], e + 1)
          /\ receiver[m][n].status = "OPENING" => e = 0 /\ ~ receiver[m][n].session_finished
    /\ Finished(n, m) => Ended(n, m)
    /\ m \in RecvHandler => Len(delivered[m][n]) = e

\* An ACK in flight is for a packet taken, the SYN or the FIN.
Acks(n, m, e) ==
    \A p \in net[m][n] : p.type = "ACK" =>
        /\ receiver[m][n] # NULL
        /\ \/ \E k \in 0 .. e : p.seqno = SeqAdd(isn[n][m], k + 1)
           \/ /\ Finished(n, m)
              /\ p.seqno = SeqAdd(isn[n][m], Len(stream[n][m]) + 2)

Out(n, m) == net[n][m] \cup events[n][m]

\* The sender is past its SYN, or finished, only if the receiver is there, or
\* finished; a FIN is out only after the end.
Phases(n, m) ==
    /\ sender[n][m] # NULL =>
          /\ sender[n][m].status # "SYN_SENT" => receiver[m][n] # NULL
          /\ sender[n][m].session_finished => Finished(n, m)
    /\ \A p \in Out(n, m) : p.type = "FIN" => Ended(n, m) /\ p.seqno = sender[n][m].seqno

\* A packet without a timeout argument never went out, and was not taken.
Refused(n, m, b, e) ==
    sender[n][m] # NULL =>
        LET s == sender[n][m] IN
        /\ \A k \in b + 1 .. Len(stream[n][m]) :
              s.data_timeout_arg[k - b - 1] = NULL =>
                  e < k /\ DataPacket(isn[n][m], stream[n][m], k) \notin Out(n, m)
        /\ s.status = "SYN_SENT" /\ s.syn_timeout_arg = NULL =>
              receiver[m][n] = NULL /\ \A p \in Out(n, m) : p.type # "SYN"
        /\ s.status = "FIN_SENT" /\ s.fin_timeout_arg = NULL =>
              ~ Finished(n, m) /\ \A p \in Out(n, m) : p.type # "FIN"

TransferAt(n, m, b, e) ==
    /\ b <= e
    /\ Sending(n, m, b)
    /\ Taking(n, m, e)
    /\ Acks(n, m, e)
    /\ Phases(n, m)
    /\ Refused(n, m, b, e)

\* Nobody sends to itself.
NoLoop(n) == sender[n][n] = NULL /\ net[n][n] = {}

(***************************************************************************)
(* The two ends of each flow agree on how far it has come.                 *)
(***************************************************************************)
TransferInv ==
    /\ \A n \in Node : NoLoop(n)
    /\ \A n, m \in Node : \E b, e \in 0 .. MaxSend : TransferAt(n, m, b, e)

-----------------------------------------------------------------------------
(***************************************************************************)
(* The third invariant is about one socket: its list of sessions, and what *)
(* became of its process.                                                  *)
(***************************************************************************)
\* The list has the peers with a session, some of them twice.
Listed(n) ==
    /\ \A i \in DOMAIN sessions_list[n] : HasSession(n, sessions_list[n][i])
    /\ \A m \in Node : HasSession(n, m) =>
          \E i \in DOMAIN sessions_list[n] : sessions_list[n][i] = m

\* FailureHasCause for one socket.
Outcome(n) ==
    /\ mode[n] = "crashed" => CrashCause(n)
    /\ mode[n] = "hung" => HangCause(n)
    /\ mode[n] = "undefined" => StaleCause(n)
    /\ mode[n] = "closed" => CloseCause(n)
    /\ mode[n] = "exited" => n \in Handler /\ \E m \in Node : GivenUp(n, m)

(***************************************************************************)
(* The list and the lookups agree, and a process ends only for a cause.    *)
(***************************************************************************)
SocketInv == \A n \in Node : Listed(n) /\ Outcome(n)

=============================================================================
