-------------------------------- MODULE Rudp --------------------------------
(***************************************************************************)
(* RUDP sockets over UDP.  Each node is a process with one RUDP socket and *)
(* an event loop that runs one callback at a time: receive_callback when a *)
(* datagram is readable, timeout_callback when a timer expires.  The       *)
(* application calls rudp_sendto and rudp_close between callbacks.  UDP    *)
(* loses, repeats and reorders datagrams.                                  *)
(***************************************************************************)
EXTENDS RudpSession

CONSTANTS
    Node,          \* socket addresses
    Flow,          \* pairs <<n, m>>: the application at n sends to m
    Closer,        \* nodes whose application calls rudp_close
    Handler,       \* nodes that registered an event handler
    RecvHandler,   \* nodes that registered a receive handler
    InitialSeqno   \* values rand() may return

ASSUME NodeAssumption ==
    /\ Flow \subseteq Node \X Node
    /\ \A n \in Node : <<n, n>> \notin Flow
    /\ Closer \subseteq Node
    /\ Handler \subseteq Node
    /\ RecvHandler \subseteq Node
    /\ InitialSeqno \subseteq SeqNo

VARIABLES
    mode,             \* what has become of the process
    close_requested,  \* rudp_close has been called on the socket
    sessions_list,    \* the peers of sessions_list_head, in list order
    sender,           \* sender[n][m]: n's sender_session for peer m, or NULL
    receiver,         \* receiver[n][m]: n's receiver_session for peer m, or NULL
    events,           \* events[n][m]: packets to m with a timeout pending at n
    net,              \* net[n][m]: datagrams in flight from n to m
    handed,           \* history: messages accepted by rudp_sendto
    stream,           \* history: messages in the order they were numbered
    isn,              \* history: the session's initial sequence number
    delivered         \* history: delivered[n][m]: n's recv_handler got from m

session == <<sessions_list, sender, receiver>>
history == <<handed, stream, isn, delivered>>
vars == <<mode, close_requested, session, events, net, history>>

(***************************************************************************)
(* A process that is not "up" takes no further step: it closed its socket, *)
(* its application left in the TIMEOUT handler, it dereferenced a null     *)
(* pointer, it loops for ever, or it has reached a statement after which C *)
(* defines nothing (freed session list, index never assigned).             *)
(***************************************************************************)
Mode == {"up", "closed", "exited", "crashed", "hung", "undefined"}

Init ==
    /\ mode = [n \in Node |-> "up"]
    /\ close_requested = [n \in Node |-> FALSE]
    /\ sessions_list = [n \in Node |-> << >>]
    /\ sender = [n \in Node |-> [m \in Node |-> NULL]]
    /\ receiver = [n \in Node |-> [m \in Node |-> NULL]]
    /\ events = [n \in Node |-> [m \in Node |-> {}]]
    /\ net = [n \in Node |-> [m \in Node |-> {}]]
    /\ handed = [n \in Node |-> [m \in Node |-> 0]]
    /\ stream = [n \in Node |-> [m \in Node |-> << >>]]
    /\ isn = [n \in Node |-> [m \in Node |-> NULL]]
    /\ delivered = [n \in Node |-> [m \in Node |-> << >>]]

HasSession(n, m) == sender[n][m] # NULL \/ receiver[n][m] # NULL

Enter(n, what) == mode' = [mode EXCEPT ![n] = what]

\* Mutant of Cancel: the timer keeps running.
CancelNothing(pending, arg) == pending

\* Mutant of Register: no timeout is set, as for a packet sent as an ACK.
RegisterNothing(pending, packets) == pending

\* send_packet of anything but an ACK: event_timeout for each packet.
Register(pending, packets) == pending \cup packets

\* event_timeout_delete: arg no longer waits for its timeout.
Cancel(pending, arg) == pending \ {arg}

\* The packets of a call of send_packet that sendto takes.
Sent(packets) == IF SendtoFails THEN SUBSET packets ELSE {packets}

\* The same where a handler sends to several peers: out[h] goes to h.
SentTo(out) ==
    IF SendtoFails
    THEN {sent \in [Node -> SUBSET UNION {out[h] : h \in Node}] :
             \A h \in Node : sent[h] \subseteq out[h]}
    ELSE {out}

\* n transmits packets to one peer, outside of receive_callback.
Transmit(n, m, packets) == net' = [net EXCEPT ![n][m] = @ \cup packets]

\* n consumes p, of which the network may hold another copy, and transmits
\* packets[h] to every peer h.
Consume(n, m, p, packets) ==
    \E copies \in SUBSET {p} :
        net' = [a \in Node |-> [b \in Node |->
                   (IF <<a, b>> = <<m, n>> THEN (net[a][b] \ {p}) \cup copies ELSE net[a][b])
                   \cup (IF a = n THEN packets[b] ELSE {})]]

Only(m, packets) == [h \in Node |-> IF h = m THEN packets ELSE {}]

Nothing == [h \in Node |-> {}]

Ack(m, seqno) == Only(m, {create_rudp_packet("ACK", seqno, NoPayload)})

-----------------------------------------------------------------------------
(***************************************************************************)
(* rudp_sendto.  The first message to a peer opens a session with a SYN.   *)
(***************************************************************************)
SendtoOpens(n, m) ==
    /\ ~ HasSession(n, m)
    /\ \E seqno \in InitialSeqno :
        LET s == create_sender_session(seqno, handed[n][m] + 1)
            syn == {s.syn_timeout_arg}
        IN \E sent \in Sent(syn) :
           /\ sender' = [sender EXCEPT ![n][m] = Untimed(s, syn \ sent)]
           /\ events' = [events EXCEPT ![n][m] = Register(@, sent)]
           /\ Transmit(n, m, sent)
           /\ isn' = [isn EXCEPT ![n][m] = seqno]
    /\ sessions_list' = [sessions_list EXCEPT ![n] = Append(@, m)]
    /\ handed' = [handed EXCEPT ![n][m] = @ + 1]
    /\ UNCHANGED <<mode, receiver, stream>>

\* A peer that opened its own session first: the new sender session is put
\* behind the existing one, which send_packet finds instead of it once the
\* SYN is out, and whose sender is a null pointer.  If the SYN does not get
\* out, the search for the peer goes on as if it had failed: one more session
\* is put behind, with the same message, and no lookup will find either.
SendtoReceiverOnly(n, m) ==
    /\ HasSession(n, m)
    /\ sender[n][m] = NULL
    /\ \/ /\ \E seqno \in InitialSeqno :
                /\ Transmit(n, m, {create_rudp_packet("SYN", seqno, NoPayload)})
                /\ isn' = [isn EXCEPT ![n][m] = seqno]
          /\ Enter(n, "crashed")
          /\ sessions_list' = [sessions_list EXCEPT ![n] = Append(@, m)]
          /\ UNCHANGED handed
       \/ /\ SendtoFails
          /\ handed' = [handed EXCEPT ![n][m] = @ + 1]
          /\ sessions_list' = [sessions_list EXCEPT ![n] = Append(Append(@, m), m)]
          /\ UNCHANGED <<mode, net, isn>>
    /\ UNCHANGED <<sender, receiver, events, stream>>

\* On an existing session a message goes out at once only if the session is
\* open, has room, and other messages are already queued; else it is queued.
SendtoSession(n, m) ==
    LET s == sender[n][m]
        item == handed[n][m] + 1
        direct == s.status = "OPEN" /\ s.data_queue # << >> /\ Free(s) # {}
    IN
    /\ s # NULL
    /\ \/ /\ direct
          /\ \E i \in Free(s) :
                LET t == SendDirect(s, i, item)
                    data == {t.sliding_window[i]}
                IN /\ \A j \in Free(s) : i <= j
                   /\ \E sent \in Sent(data) :
                        /\ sender' = [sender EXCEPT ![n][m] = Untimed(t, data \ sent)]
                        /\ events' = [events EXCEPT ![n][m] = Register(@, sent)]
                        /\ Transmit(n, m, sent)
          /\ stream' = [stream EXCEPT ![n][m] = Append(@, item)]
       \/ /\ ~ direct
          /\ sender' = [sender EXCEPT ![n][m] = Enqueue(s, item)]
          /\ UNCHANGED <<events, net, stream>>
    /\ handed' = [handed EXCEPT ![n][m] = item]
    /\ UNCHANGED <<mode, sessions_list, receiver, isn>>

rudp_sendto(n, m) ==
    /\ mode[n] = "up"
    /\ <<n, m>> \in Flow
    /\ handed[n][m] < MaxSend
    /\ \/ SendtoOpens(n, m)
       \/ SendtoReceiverOnly(n, m)
       \/ SendtoSession(n, m)
    /\ UNCHANGED <<close_requested, delivered>>

\* rudp_close only leaves a note for receive_callback.
rudp_close(n) ==
    /\ mode[n] = "up"
    /\ n \in Closer
    /\ close_requested' = [close_requested EXCEPT ![n] = TRUE]
    /\ UNCHANGED <<mode, session, events, net, history>>

-----------------------------------------------------------------------------
(***************************************************************************)
(* receive_callback, one action per branch; p is the datagram from m.      *)
(***************************************************************************)
\* The two lines that answer a new peer's SYN, on a socket without sessions
\* and on one that has some.  Both send a SYN; the later draft has one line
\* for both cases, which sends an ACK.
SynLine(n) == IF sessions_list[n] = << >> THEN 528 ELSE 555

SynReply(n) == IF SynLine(n) \in AsWritten THEN "SYN" ELSE "ACK"

\* The peer has no session here: only a SYN opens one.
ReceiveNoSession(n, m, p) ==
    /\ ~ HasSession(n, m)
    /\ IF 551 \in AsWritten /\ sessions_list[n] # << >>
       THEN /\ Enter(n, "crashed")
            /\ Consume(n, m, p, Nothing)
            /\ UNCHANGED session
       ELSE IF p.type = "SYN"
       THEN LET seqno == SeqNext(p.seqno) IN
            /\ receiver' = [receiver EXCEPT ![n][m] = create_receiver_session(seqno)]
            /\ sessions_list' = [sessions_list EXCEPT ![n] = Append(@, m)]
            /\ Consume(n, m, p, Only(m, {create_rudp_packet(SynReply(n), seqno, NoPayload)}))
            /\ UNCHANGED <<mode, sender>>
       ELSE /\ Consume(n, m, p, Nothing)
            /\ UNCHANGED <<mode, session>>
    /\ UNCHANGED <<events, history>>

\* A SYN within a session (re)starts its receiver until data has come.
ReceiveSyn(n, m, p) ==
    /\ HasSession(n, m)
    /\ p.type = "SYN"
    /\ IF MayRestart(receiver[n][m])
       THEN LET seqno == SeqNext(p.seqno) IN
            /\ receiver' = [receiver EXCEPT ![n][m] = create_receiver_session(seqno)]
            /\ Consume(n, m, p, Ack(m, seqno))
       ELSE /\ Consume(n, m, p, Nothing)
            /\ UNCHANGED receiver
    /\ UNCHANGED <<mode, sessions_list, sender, events, history>>

\* ACK and DATA or FIN for the half of the session that does not exist.
ReceiveMissingHalf(n, m, p) ==
    /\ HasSession(n, m)
    /\ p.type # "SYN"
    /\ (IF p.type = "ACK" THEN sender[n][m] ELSE receiver[n][m]) = NULL
    /\ Enter(n, "crashed")
    /\ Consume(n, m, p, Nothing)
    /\ UNCHANGED <<session, events, history>>

ReceiveAck(n, m, p, status) ==
    /\ p.type = "ACK"
    /\ sender[n][m] # NULL
    /\ sender[n][m].status = status

\* The ACK of the SYN opens the session and sends what is queued.
ReceiveAckSynSent(n, m, p) ==
    LET s == sender[n][m] IN
    /\ ReceiveAck(n, m, p, "SYN_SENT")
    /\ IF SeqPrev(p.seqno) = s.seqno
       THEN /\ \E sent \in Sent(NewPackets(s)) :
                 /\ sender' = [sender EXCEPT ![n][m] =
                        Untimed(OpenSession(s), NewPackets(s) \ sent)]
                 /\ events' = [events EXCEPT ![n][m] =
                        Register(Cancel(@, s.syn_timeout_arg), sent)]
                 /\ Consume(n, m, p, Only(m, sent))
            /\ stream' = [stream EXCEPT ![n][m] = @ \o Moved(s)]
       ELSE /\ Consume(n, m, p, Nothing)
            /\ UNCHANGED <<sender, events, stream>>
    /\ UNCHANGED <<mode, sessions_list, receiver, handed, isn, delivered>>

-----------------------------------------------------------------------------
(***************************************************************************)
(* The ACK of the oldest unacknowledged DATA packet slides the window,     *)
(* refills it and, once rudp_close has been called, walks the session list *)
(* to send a FIN in every drained session.  The walk dereferences the      *)
(* sender of each session it visits.                                       *)
(***************************************************************************)
Visited(n) ==
    {sessions_list[n][i] : i \in {i \in DOMAIN sessions_list[n] :
                                     \A j \in 1 .. i : sender[n][sessions_list[n][j]] # NULL}}

AllVisited(n) ==
    \A i \in DOMAIN sessions_list[n] : sender[n][sessions_list[n][i]] # NULL

SlideAndFill(n, m, p) ==
    LET s == ShiftWindow(sender[n][m])
        slid == [sender[n] EXCEPT ![m] = FlushQueue(s)]
        fins == {h \in Visited(n) : close_requested[n] /\ Drained(slid[h])}
        out == [h \in Node |-> (IF h = m THEN NewPackets(s) ELSE {})
                               \cup (IF h \in fins THEN {FinPacket(slid[h])} ELSE {})]
        done == [events[n] EXCEPT ![m] = Cancel(@, sender[n][m].data_timeout_arg[0])]
        after == [h \in Node |-> IF h \in fins THEN SendFin(slid[h]) ELSE slid[h]]
    IN
    /\ \E sent \in SentTo(out) :
        /\ sender' = [sender EXCEPT ![n] =
               [h \in Node |-> IF after[h] = NULL THEN NULL
                               ELSE Untimed(after[h], out[h] \ sent[h])]]
        /\ events' = [events EXCEPT ![n] = [h \in Node |-> Register(done[h], sent[h])]]
        /\ Consume(n, m, p, sent)
    /\ stream' = [stream EXCEPT ![n][m] = @ \o Moved(s)]
    /\ IF close_requested[n] /\ ~ AllVisited(n) THEN Enter(n, "crashed") ELSE UNCHANGED mode

ReceiveAckOpen(n, m, p) ==
    LET s == sender[n][m]
        oldest == AcksOldest(s, p)
    IN
    /\ ReceiveAck(n, m, p, "OPEN")
    /\ \/ /\ oldest
          /\ 665 \in AsWritten => s.data_queue = << >>
          /\ SlideAndFill(n, m, p)
       \/ /\ oldest                \* the slot index is never assigned
          /\ 665 \in AsWritten /\ s.data_queue # << >>
          /\ Enter(n, "undefined")
          /\ Consume(n, m, p, Nothing)
          /\ UNCHANGED <<sender, events, stream>>
       \/ /\ ~ oldest
          /\ Consume(n, m, p, Nothing)
          /\ UNCHANGED <<mode, sender, events, stream>>
    /\ UNCHANGED <<sessions_list, receiver, handed, isn, delivered>>

\* Mutant of AllDone: all_done is never cleared.
DoneAtOnce(n, m) == TRUE

\* all_done after the walk: the other sessions with a sender are finished too.
AllDone(n, m) ==
    \A h \in Node \ {m} : sender[n][h] # NULL => sender[n][h].session_finished

(***************************************************************************)
(* The ACK of the FIN.  With rudp_close called, every session of the list  *)
(* is freed, finished or not; the socket is closed only if all senders are *)
(* finished and there is an event handler to tell, and otherwise stays in  *)
(* use with its list of freed sessions.                                    *)
(***************************************************************************)
ReceiveAckFinSent(n, m, p) ==
    LET s == sender[n][m]
        finished == [s EXCEPT !.session_finished = TRUE]
    IN
    /\ ReceiveAck(n, m, p, "FIN_SENT")
    /\ Consume(n, m, p, Nothing)
    /\ IF SeqNext(s.seqno) = p.seqno
       THEN /\ sender' = [sender EXCEPT ![n][m] = finished]
            /\ events' = [events EXCEPT ![n][m] = Cancel(@, s.fin_timeout_arg)]
            /\ IF ~ close_requested[n] THEN UNCHANGED mode
               ELSE IF ~ AllVisited(n) THEN Enter(n, "crashed")
               ELSE IF AllDone(n, m) /\ n \in Handler THEN Enter(n, "closed")
               ELSE Enter(n, "undefined")
       ELSE UNCHANGED <<mode, sender, events>>
    /\ UNCHANGED <<sessions_list, receiver, history>>

-----------------------------------------------------------------------------
\* DATA in sequence is acknowledged and handed to the application; DATA of
\* the last window is acknowledged again; any other DATA is ignored.
ReceiveData(n, m, p) ==
    LET r == receiver[n][m] IN
    /\ p.type = "DATA"
    /\ r # NULL
    /\ \/ /\ InSequence(r, p)
          /\ receiver' = [receiver EXCEPT ![n][m] =
                 [r EXCEPT !.status = "OPEN", !.expected_seqno = SeqNext(p.seqno)]]
          /\ Consume(n, m, p, Ack(m, SeqNext(p.seqno)))
          /\ IF n \in RecvHandler
             THEN delivered' = [delivered EXCEPT ![n][m] = Append(@, p.payload)]
             ELSE UNCHANGED delivered
       \/ /\ ~ InSequence(r, p)
          /\ IF OfLastWindow(r, p)
             THEN Consume(n, m, p, Ack(m, SeqNext(p.seqno)))
             ELSE Consume(n, m, p, Nothing)
          /\ UNCHANGED <<receiver, delivered>>
    /\ UNCHANGED <<mode, sessions_list, sender, events, handed, stream, isn>>

(***************************************************************************)
(* FIN.  With rudp_close called on the receiving socket too, the loop over *)
(* the sessions never moves past the first one: it dereferences a missing  *)
(* receiver, waits for ever for an unfinished one, or goes on reading the  *)
(* session it has just freed.                                              *)
(***************************************************************************)
\* Mutant of FinLoop: the loop is entered whether rudp_close was called or not.
FinLoopAlways(n, m) ==
    LET head == sessions_list[n][1] IN
    IF receiver[n][head] = NULL THEN Enter(n, "crashed")
    ELSE IF head # m /\ ~ receiver[n][head].session_finished THEN Enter(n, "hung")
    ELSE Enter(n, "undefined")

FinLoop(n, m) ==
    LET head == sessions_list[n][1] IN
    IF ~ close_requested[n] THEN UNCHANGED mode
    ELSE IF receiver[n][head] = NULL THEN Enter(n, "crashed")
    ELSE IF head # m /\ ~ receiver[n][head].session_finished THEN Enter(n, "hung")
    ELSE Enter(n, "undefined")

ReceiveFin(n, m, p) ==
    LET r == receiver[n][m] IN
    /\ p.type = "FIN"
    /\ r # NULL
    /\ IF r.status = "OPEN" /\ InSequence(r, p)
       THEN /\ receiver' = [receiver EXCEPT ![n][m] = [r EXCEPT !.session_finished = TRUE]]
            /\ Consume(n, m, p, Ack(m, SeqNext(r.expected_seqno)))
            /\ FinLoop(n, m)
       ELSE /\ Consume(n, m, p, Nothing)
            /\ UNCHANGED <<mode, receiver>>
    /\ UNCHANGED <<sessions_list, sender, events, history>>

receive_callback(n, m) ==
    /\ mode[n] = "up"
    /\ \E p \in net[m][n] :
        \/ ReceiveNoSession(n, m, p)
        \/ ReceiveSyn(n, m, p)
        \/ ReceiveMissingHalf(n, m, p)
        \/ ReceiveAckSynSent(n, m, p)
        \/ ReceiveAckOpen(n, m, p)
        \/ ReceiveAckFinSent(n, m, p)
        \/ ReceiveData(n, m, p)
        \/ ReceiveFin(n, m, p)
    /\ UNCHANGED close_requested

-----------------------------------------------------------------------------
(***************************************************************************)
(* A timer expires: its packet is sent again by send_packet, which sets a  *)
(* new timer, as long as the attempt counter allows; after that the        *)
(* application gets RUDP_EVENT_TIMEOUT, on which the repository's handler  *)
(* exits.                                                                  *)
(***************************************************************************)
Expires(n, m, p) ==
    LET s == sender[n][m] IN
    /\ IF p.type = "DATA" /\ SlotsOf(s, p) = {}
       THEN /\ Enter(n, "undefined")     \* send_packet's index is not assigned
            /\ UNCHANGED <<sender, events, net>>
       ELSE IF RetriesLeft(s, p)
       THEN /\ sender' = [sender EXCEPT ![n][m] = CountAttempt(s, p)]
            /\ \E sent \in Sent({p}) :
                 /\ events' = [events EXCEPT ![n][m] = Register(@ \ {p}, sent)]
                 /\ Transmit(n, m, sent)
            /\ UNCHANGED mode
       ELSE /\ events' = [events EXCEPT ![n][m] = @ \ {p}]
            /\ IF n \in Handler THEN Enter(n, "exited") ELSE UNCHANGED mode
            /\ UNCHANGED <<sender, net>>
    /\ UNCHANGED <<close_requested, sessions_list, receiver, history>>

timeout_callback(n, m) ==
    /\ mode[n] = "up"
    /\ \E p \in events[n][m] : Expires(n, m, p)

\* UDP loses a datagram.
Lose(n, m) ==
    /\ \E p \in net[n][m] : net' = [net EXCEPT ![n][m] = @ \ {p}]
    /\ UNCHANGED <<mode, close_requested, session, events, history>>

Next ==
    \/ \E n, m \in Node :
        \/ rudp_sendto(n, m)
        \/ receive_callback(n, m)
        \/ timeout_callback(n, m)
        \/ Lose(n, m)
    \/ \E n \in Node : rudp_close(n)

Spec == Init /\ [][Next]_vars

\* The event loop runs the callback of a readable socket and of an expired
\* timer sooner or later; nothing obliges the application or the network.
FairSpec ==
    /\ Spec
    /\ \A n, m \in Node : WF_vars(receive_callback(n, m)) /\ WF_vars(timeout_callback(n, m))

-----------------------------------------------------------------------------
(***************************************************************************)
(* Type correctness: every variable holds values of the structs and lists  *)
(* of the code, sequence numbers stay within u_int32_t, and no attempt     *)
(* counter passes the retransmission limit.                                *)
(***************************************************************************)
TypeOK ==
    /\ mode \in [Node -> Mode]
    /\ close_requested \in [Node -> BOOLEAN]
    /\ sessions_list \in [Node -> Seq(Node)]
    /\ sender \in [Node -> [Node -> SenderSession \cup {NULL}]]
    /\ receiver \in [Node -> [Node -> ReceiverSession \cup {NULL}]]
    /\ events \in [Node -> [Node -> SUBSET Packet]]
    /\ net \in [Node -> [Node -> SUBSET Packet]]
    /\ handed \in [Node -> [Node -> 0 .. MaxSend]]
    /\ stream \in [Node -> [Node -> Seq(Message)]]
    /\ isn \in [Node -> [Node -> SeqNo \cup {NULL}]]
    /\ delivered \in [Node -> [Node -> Seq(Message \cup {NoPayload})]]

-----------------------------------------------------------------------------
\* The DATA packets of a session that are sent and not yet acknowledged.
Outstanding(s) == {i \in Slot : s.sliding_window[i] # NULL}

Unacked(s) ==
    {s.sliding_window[i] : i \in Outstanding(s)}
    \cup (IF s.status = "SYN_SENT"
          THEN {create_rudp_packet("SYN", s.seqno, NoPayload)} ELSE {})
    \cup (IF s.status = "FIN_SENT" /\ ~ s.session_finished
          THEN {create_rudp_packet("FIN", s.seqno, NoPayload)} ELSE {})

\* A packet that was sent as often as allowed and that nobody acknowledged.
GivenUp(n, m) ==
    IF sender[n][m] = NULL THEN FALSE
    ELSE \E p \in Unacked(sender[n][m]) \ events[n][m] : ~ RetriesLeft(sender[n][m], p)

Down(n) == mode[n] # "up"

(***************************************************************************)
(* Exactly once, in order of numbering: whatever the network loses,        *)
(* repeats or reorders, what recv_handler has been given is a prefix of    *)
(* the messages in the order the sender numbered them.                     *)
(***************************************************************************)
PrefixDelivery ==
    \A n, m \in Node :
        /\ Len(delivered[m][n]) <= Len(stream[n][m])
        /\ \A i \in 1 .. Len(delivered[m][n]) : delivered[m][n][i] = stream[n][m][i]

(***************************************************************************)
(* A message leaves the sliding window only after the peer's application   *)
(* has got it: ACKs that are late, repeated or for another packet never    *)
(* free a slot too early.                                                  *)
(***************************************************************************)
AckedIsDelivered ==
    \A n \in Node, m \in RecvHandler :
        sender[n][m] # NULL =>
            Len(stream[n][m]) - Cardinality(Outstanding(sender[n][m])) <= Len(delivered[m][n])

(***************************************************************************)
(* A lost ACK is made good: of the packets still in the window, those the  *)
(* receiver has already passed on, and no others, are of its last window,  *)
(* which is what makes it acknowledge a repetition; so no sender waits for *)
(* the ACK of a message that the receiver will never acknowledge again.    *)
(***************************************************************************)
LastWindowIsDelivered ==
    \A n \in Node, m \in RecvHandler :
        sender[n][m] # NULL /\ receiver[m][n] # NULL =>
            LET s == sender[n][m]
                acked == Len(stream[n][m]) - Cardinality(Outstanding(s))
            IN \A i \in Outstanding(s) :
                  OfLastWindow(receiver[m][n], s.sliding_window[i])
                      <=> acked + i + 1 <= Len(delivered[m][n])

(***************************************************************************)
(* No message rudp_sendto accepted is dropped or doubled on its way from   *)
(* the queue to the window: each is either numbered or queued, once.       *)
(***************************************************************************)
EachMessageOnce ==
    \A n, m \in Node :
        sender[n][m] # NULL =>
            LET all == stream[n][m] \o sender[n][m].data_queue IN
            /\ Len(all) = handed[n][m]
            /\ \A k \in 1 .. handed[n][m] : \E i \in 1 .. Len(all) : all[i] = k

(***************************************************************************)
(* The window is the end of the stream: its packets fill the lowest slots, *)
(* oldest first, and carry consecutive sequence numbers up to the last one *)
(* assigned, across the wrap of the counter.                               *)
(***************************************************************************)
WindowIsStreamEnd ==
    \A n, m \in Node :
        sender[n][m] # NULL =>
            LET s == sender[n][m]
                count == Cardinality(Outstanding(s))
                base == Len(stream[n][m]) - count
            IN /\ Outstanding(s) = 0 .. count - 1
               /\ \A i \in 0 .. count - 1 :
                     s.sliding_window[i] =
                         create_rudp_packet("DATA", SeqAdd(isn[n][m], base + i + 1),
                                            stream[n][m][base + i + 1])

(***************************************************************************)
(* Timers and packets agree: a pending timeout always belongs to a packet  *)
(* still unacknowledged, and the arguments stored in a slot are those of   *)
(* the packet in it, or none if sendto refused it.                         *)
(***************************************************************************)
TimersMatch ==
    \A n, m \in Node :
        IF sender[n][m] = NULL THEN events[n][m] = {} ELSE
            LET s == sender[n][m] IN
            /\ mode[n] = "up" => events[n][m] \subseteq Unacked(s)
            /\ \A i \in Slot : \/ s.data_timeout_arg[i] = s.sliding_window[i]
                               \/ SendtoFails /\ s.data_timeout_arg[i] = NULL

(***************************************************************************)
(* Nothing that was sent is forgotten: a packet of an open session is      *)
(* acknowledged, has a timer that will send it again, or was sent as often *)
(* as RUDP_MAXRETRANS allows.                                              *)
(***************************************************************************)
KeepsTrying ==
    \A n, m \in Node :
        sender[n][m] # NULL =>
            \A p \in Unacked(sender[n][m]) \ events[n][m] : ~ RetriesLeft(sender[n][m], p)

(***************************************************************************)
(* An ACK in flight that will open, slide or finish a session finds the    *)
(* timeout argument receive_callback dereferences and frees, also when     *)
(* sendto refused some packets: no ACK comes for what never went out.      *)
(***************************************************************************)
AckFindsTimer ==
    \A n, m \in Node :
        mode[n] = "up" /\ sender[n][m] # NULL =>
            LET s == sender[n][m] IN
            \A p \in {q \in net[m][n] : q.type = "ACK"} :
               /\ s.status = "SYN_SENT" /\ s.seqno = SeqPrev(p.seqno)
                     => s.syn_timeout_arg # NULL
               /\ s.status = "OPEN" /\ AcksOldest(s, p) => s.data_timeout_arg[0] # NULL
               /\ s.status = "FIN_SENT" /\ p.seqno = SeqNext(s.seqno)
                     => s.fin_timeout_arg # NULL

(***************************************************************************)
(* The FIN comes last and its ACK means what sender_session's              *)
(* session_finished says it means: every message numbered was delivered    *)
(* before the FIN went out, and the peer has seen the FIN.                 *)
(***************************************************************************)
FinAfterDelivery ==
    \A n \in Node, m \in RecvHandler :
        sender[n][m] # NULL =>
            /\ sender[n][m].status = "FIN_SENT" => delivered[m][n] = stream[n][m]
            /\ sender[n][m].session_finished =>
                  receiver[m][n] # NULL /\ receiver[m][n].session_finished

(***************************************************************************)
(* No packet meets a null pointer: an ACK in flight finds a sender_session *)
(* and DATA or FIN in flight a receiver_session when it arrives.           *)
(***************************************************************************)
HalfExists ==
    \A n, m \in Node : mode[n] = "up" =>
        \A p \in net[m][n] :
            /\ p.type = "ACK" => sender[n][m] # NULL
            /\ p.type \in {"DATA", "FIN"} => receiver[n][m] # NULL

(***************************************************************************)
(* Each way a process can end has its own causes.  It crashes if its       *)
(* application sent to a peer that had opened a session first, or if       *)
(* rudp_close was called and a walk over the sessions met one with only    *)
(* the other half.  It hangs, or reads what is freed, only after           *)
(* rudp_close, when a FIN was taken or a sender was finished without the   *)
(* socket being closed.  The socket is closed only if every session of it  *)
(* has finished sending, and the application leaves only over a packet     *)
(* that was really sent as often as allowed.  In particular a timer never  *)
(* fires for a packet that is gone.                                        *)
(***************************************************************************)
SenderDone(n, m) == IF sender[n][m] = NULL THEN FALSE ELSE sender[n][m].session_finished

FinTaken(n, m) == IF receiver[n][m] = NULL THEN FALSE ELSE receiver[n][m].session_finished

CrashCause(n) ==
    \/ \E m \in Node : receiver[n][m] # NULL /\ sender[n][m] = NULL /\ isn[n][m] # NULL
    \/ /\ close_requested[n]
       /\ \/ \E m \in Node : receiver[n][m] # NULL /\ sender[n][m] = NULL
          \/ \E m, h \in Node : FinTaken(n, m) /\ sender[n][h] # NULL /\ receiver[n][h] = NULL

HangCause(n) ==
    /\ close_requested[n]
    /\ \E m, h \in Node : FinTaken(n, m) /\ receiver[n][h] # NULL /\ ~ FinTaken(n, h)

StaleCause(n) ==
    /\ close_requested[n]
    /\ \/ \E m \in Node : FinTaken(n, m)
       \/ /\ \E m \in Node : SenderDone(n, m)
          /\ n \in Handler => \E m \in Node : HasSession(n, m) /\ ~ SenderDone(n, m)

CloseCause(n) ==
    /\ close_requested[n] /\ n \in Handler
    /\ \A m \in Node : HasSession(n, m) => SenderDone(n, m)

FailureHasCause ==
    \A n \in Node :
        /\ mode[n] = "crashed" => CrashCause(n)
        /\ mode[n] = "hung" => HangCause(n)
        /\ mode[n] = "undefined" => StaleCause(n)
        /\ mode[n] = "closed" => CloseCause(n)
        /\ mode[n] = "exited" => n \in Handler /\ \E m \in Node : GivenUp(n, m)

(***************************************************************************)
(* A socket whose application never calls rudp_sendto or rudp_close keeps  *)
(* serving: no datagram of any peer, new or known, ends its process.       *)
(***************************************************************************)
ReceiverStaysUp ==
    \A n \in Node :
        (~ close_requested[n] /\ \A m \in Node : isn[n][m] = NULL) => mode[n] = "up"

(***************************************************************************)
(* First in, first out: messages reach the application in the order in     *)
(* which they were handed to rudp_sendto, the queue of unsent data being   *)
(* the only place where they wait.                                         *)
(***************************************************************************)
HandedOrder ==
    \A n, m \in Node : \A i \in 1 .. Len(delivered[m][n]) : delivered[m][n][i] = i

(***************************************************************************)
(* A receiver never goes back: the number it expects moves only by one,    *)
(* with the delivery of that packet, and a repeated SYN does not reset it. *)
(***************************************************************************)
ReceiverAdvances ==
    [][\A n, m \in Node :
        receiver[n][m] # NULL /\ receiver'[n][m] # receiver[n][m] =>
            LET r == receiver[n][m]
                r2 == receiver'[n][m]
            IN \/ /\ r2.expected_seqno = SeqNext(r.expected_seqno)
                  /\ ~ r.session_finished
                  /\ n \in RecvHandler => Len(delivered'[n][m]) = Len(delivered[n][m]) + 1
               \/ /\ r2.expected_seqno = r.expected_seqno
                  /\ r2.session_finished]_vars

-----------------------------------------------------------------------------
(***************************************************************************)
(* The handshake ends: a session waiting for the ACK of its SYN is opened  *)
(* or its SYN is given up.                                                 *)
(***************************************************************************)
Opening(n, m) == IF sender[n][m] = NULL THEN FALSE ELSE sender[n][m].status = "SYN_SENT"

HandshakeEnds ==
    \A n, m \in Node : Opening(n, m) ~> (Down(n) \/ GivenUp(n, m) \/ ~ Opening(n, m))

(***************************************************************************)
(* A numbered message is delivered, or its sender gives up on the session. *)
(***************************************************************************)
NumberedIsDelivered ==
    \A n \in Node, m \in RecvHandler, k \in Message :
        (Len(stream[n][m]) >= k)
            ~> (Len(delivered[m][n]) >= k \/ GivenUp(n, m) \/ Down(n))

(***************************************************************************)
(* A message queued behind packets still unacknowledged, the SYN included, *)
(* is sent in the end: some ACK or the retry limit always comes.           *)
(***************************************************************************)
Queued(n, m, k) ==
    IF sender[n][m] = NULL THEN FALSE
    ELSE \E i \in DOMAIN sender[n][m].data_queue : sender[n][m].data_queue[i] = k

Busy(n, m) ==
    IF sender[n][m] = NULL THEN FALSE
    ELSE sender[n][m].status # "FIN_SENT" /\ Unacked(sender[n][m]) # {}

Numbered(n, m, k) == \E i \in 1 .. Len(stream[n][m]) : stream[n][m][i] = k

BusyQueueMoves ==
    \A n, m \in Node, k \in Message :
        (Queued(n, m, k) /\ Busy(n, m))
            ~> (Numbered(n, m, k) \/ GivenUp(n, m) \/ Down(n))

(***************************************************************************)
(* Every queued message of a session not yet closing is sent in the end.   *)
(***************************************************************************)
QueueMoves ==
    \A n, m \in Node, k \in Message :
        (Queued(n, m, k) /\ ~ close_requested[n])
            ~> (Numbered(n, m, k) \/ GivenUp(n, m) \/ Down(n))

(***************************************************************************)
(* A socket with unacknowledged data is closed in the end once rudp_close  *)
(* was called: the last ACK brings the FIN, the FIN's ACK the end, and     *)
(* only a packet given up makes the application leave instead.             *)
(***************************************************************************)
BusyCloseEnds ==
    \A n, m \in Node :
        (close_requested[n] /\ Busy(n, m))
            ~> (mode[n] \in {"closed", "exited"} \/ GivenUp(n, m))

=============================================================================
