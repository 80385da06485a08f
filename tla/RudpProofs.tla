----------------------------- MODULE RudpProofs -----------------------------
(***************************************************************************)
(* Theorems of Rudp, for every set of nodes and flows, window size, retry  *)
(* limit and width of the sequence numbers: the type invariant, and that   *)
(* each flow is one sequence.                                              *)
(***************************************************************************)
EXTENDS RudpInv, RudpSessionProofs

-----------------------------------------------------------------------------
(***************************************************************************)
(* What the network may hold after a step.                                 *)
(***************************************************************************)
LEMMA ConsumeNet ==
    ASSUME NEW n \in Node, NEW m \in Node, NEW p, NEW packets,
           net \in [Node -> [Node -> SUBSET Packet]],
           p \in Packet,
           packets \in [Node -> SUBSET Packet],
           Consume(n, m, p, packets)
    PROVE  /\ net' \in [Node -> [Node -> SUBSET Packet]]
           /\ \A a, b \in Node : a # n /\ p \in net[m][n] => net'[a][b] \subseteq net[a][b]
           /\ \A b \in Node : p \in net[m][n] => net'[n][b] \subseteq net[n][b] \cup packets[b]
<1>1. PICK copies \in SUBSET {p} :
          net' = [a \in Node |-> [b \in Node |->
                     (IF <<a, b>> = <<m, n>> THEN (net[a][b] \ {p}) \cup copies ELSE net[a][b])
                     \cup (IF a = n THEN packets[b] ELSE {})]]
  BY DEF Consume
<1>2. copies \subseteq {p}
  OBVIOUS
<1> QED BY <1>1, <1>2

\* What sendto takes is some of what it was given.
LEMMA SentType ==
    ASSUME NEW packets, NEW sent \in Sent(packets)
    PROVE  sent \subseteq packets
BY DEF Sent

LEMMA SentToType ==
    ASSUME NEW out \in [Node -> SUBSET Packet], NEW sent \in SentTo(out)
    PROVE  sent \in [Node -> SUBSET Packet] /\ \A h \in Node : sent[h] \subseteq out[h]
BY DEF SentTo

LEMMA NestedUpdate ==
    ASSUME NEW S, NEW f \in [Node -> [Node -> S]], NEW n \in Node, NEW m \in Node, NEW v \in S
    PROVE  [f EXCEPT ![n][m] = v] \in [Node -> [Node -> S]]
OBVIOUS

LEMMA OnlyType ==
    ASSUME NEW m \in Node, NEW packets \in SUBSET Packet
    PROVE  /\ Only(m, packets) \in [Node -> SUBSET Packet]
           /\ \A h \in Node : h # m => Only(m, packets)[h] = {}
           /\ Only(m, packets)[m] = packets
BY DEF Only

LEMMA NothingType ==
    Nothing \in [Node -> SUBSET Packet] /\ \A h \in Node : Nothing[h] = {}
BY DEF Nothing

LEMMA AckType ==
    ASSUME NEW m \in Node, NEW seqno \in SeqNo
    PROVE  /\ Ack(m, seqno) \in [Node -> SUBSET Packet]
           /\ \A h \in Node : \A q \in Ack(m, seqno)[h] : q.type = "ACK"
<1>1. create_rudp_packet("ACK", seqno, NoPayload) \in Packet
  BY PacketType
<1>2. create_rudp_packet("ACK", seqno, NoPayload).type = "ACK"
  BY DEF create_rudp_packet
<1> QED BY <1>1, <1>2 DEF Ack, Only

-----------------------------------------------------------------------------
TypeInv == TypeOK /\ NoTimers

LEMMA TypeInit == Init => TypeInv
<1> SUFFICES ASSUME Init PROVE TypeInv
  OBVIOUS
<1>1. << >> \in Seq(Node) /\ << >> \in Seq(Message) /\ << >> \in Seq(Message \cup {NoPayload})
  OBVIOUS
<1> QED BY <1>1, SessionAssumption DEF Init, TypeInv, TypeOK, NoTimers, Mode

LEMMA HandedUpdate ==
    ASSUME NEW n \in Node, NEW m \in Node, handed \in [Node -> [Node -> 0 .. MaxSend]],
           handed[n][m] < MaxSend
    PROVE  [handed EXCEPT ![n][m] = @ + 1] \in [Node -> [Node -> 0 .. MaxSend]]
<1>1. handed[n][m] + 1 \in 0 .. MaxSend
  <2>1. handed[n][m] \in 0 .. MaxSend
    OBVIOUS
  <2> QED BY <2>1, SessionAssumption
<1> DEFINE h == handed[n][m] + 1
<1> HIDE DEF h
<1>2. [handed EXCEPT ![n][m] = h] \in [Node -> [Node -> 0 .. MaxSend]]
  BY <1>1, NestedUpdate DEF h
<1> QED BY <1>2 DEF h

LEMMA SendtoType ==
    ASSUME TypeInv, NEW n \in Node, NEW m \in Node, rudp_sendto(n, m)
    PROVE  TypeInv'
<1> USE DEF TypeInv
<1>1. handed[n][m] + 1 \in Message
  <2>1. handed[n][m] \in 0 .. MaxSend /\ handed[n][m] < MaxSend
    BY DEF rudp_sendto, TypeOK
  <2> QED BY <2>1, SessionAssumption DEF Message
<1>a. [handed EXCEPT ![n][m] = @ + 1] \in [Node -> [Node -> 0 .. MaxSend]]
  <2>1. handed \in [Node -> [Node -> 0 .. MaxSend]] /\ handed[n][m] < MaxSend
    BY DEF rudp_sendto, TypeOK
  <2> QED BY <2>1, HandedUpdate
<1>2. CASE SendtoOpens(n, m)
  <2>0. PICK seqno \in InitialSeqno :
           LET s == create_sender_session(seqno, handed[n][m] + 1)
               syn == {s.syn_timeout_arg}
           IN \E sent \in Sent(syn) :
              /\ sender' = [sender EXCEPT ![n][m] = Untimed(s, syn \ sent)]
              /\ events' = [events EXCEPT ![n][m] = @ \cup sent]
              /\ Transmit(n, m, sent)
              /\ isn' = [isn EXCEPT ![n][m] = seqno]
    BY <1>2 DEF Register, SendtoOpens
  <2> DEFINE first == create_sender_session(seqno, handed[n][m] + 1)
             syn == {first.syn_timeout_arg}
  <2>1. PICK sent \in Sent(syn) :
           /\ sender' = [sender EXCEPT ![n][m] = Untimed(first, syn \ sent)]
           /\ events' = [events EXCEPT ![n][m] = @ \cup sent]
           /\ Transmit(n, m, sent)
           /\ isn' = [isn EXCEPT ![n][m] = seqno]
    BY <2>0
  <2> DEFINE s == Untimed(first, syn \ sent)
  <2>2. seqno \in SeqNo
    BY NodeAssumption
  <2>3. first \in SenderSession /\ sent \in SUBSET Packet
    <3>1. first \in SenderSession /\ syn \subseteq Packet
      BY <1>1, <2>2, CreateSenderType
    <3> HIDE DEF syn
    <3> QED BY <3>1, SentType
  <2> HIDE DEF first, syn
  <2>4. s \in SenderSession /\ s # NULL
    BY <2>3, UntimedType
  <2> HIDE DEF s
  <2>5. Append(sessions_list[n], m) \in Seq(Node)
    BY DEF TypeOK
  <2>6. TypeOK'
    <3>1. sender' \in [Node -> [Node -> SenderSession \cup {NULL}]]
      BY <2>1, <2>4, NestedUpdate DEF TypeOK, s
    <3>2. /\ events' \in [Node -> [Node -> SUBSET Packet]]
          /\ net' \in [Node -> [Node -> SUBSET Packet]]
      BY <2>1, <2>3 DEF TypeOK, Transmit
    <3>3. isn' \in [Node -> [Node -> SeqNo \cup {NULL}]]
      BY <2>1, <2>2, NestedUpdate DEF TypeOK
    <3>4. handed' \in [Node -> [Node -> 0 .. MaxSend]]
      BY <1>2, <1>a DEF SendtoOpens
    <3>5. sessions_list' \in [Node -> Seq(Node)]
      BY <1>2, <2>5 DEF TypeOK, SendtoOpens
    <3> QED BY <1>2, <3>1, <3>2, <3>3, <3>4, <3>5 DEF TypeOK, rudp_sendto, SendtoOpens
  <2>7. NoTimers'
    BY <2>1, <2>4 DEF TypeOK, NoTimers, s
  <2> QED BY <2>6, <2>7
<1>3. CASE SendtoReceiverOnly(n, m)
  <2>1. /\ net' \in [Node -> [Node -> SUBSET Packet]]
        /\ isn' \in [Node -> [Node -> SeqNo \cup {NULL}]]
    <3>1. CASE UNCHANGED <<net, isn>>
      BY <3>1 DEF TypeOK
    <3>2. ASSUME NEW seqno \in InitialSeqno,
                 Transmit(n, m, {create_rudp_packet("SYN", seqno, NoPayload)}),
                 isn' = [isn EXCEPT ![n][m] = seqno]
          PROVE  /\ net' \in [Node -> [Node -> SUBSET Packet]]
                 /\ isn' \in [Node -> [Node -> SeqNo \cup {NULL}]]
      <4>1. seqno \in SeqNo /\ create_rudp_packet("SYN", seqno, NoPayload) \in Packet
        BY NodeAssumption, PacketType
      <4>2. net' \in [Node -> [Node -> SUBSET Packet]]
        BY <3>2, <4>1 DEF TypeOK, Transmit
      <4>3. isn' \in [Node -> [Node -> SeqNo \cup {NULL}]]
        BY <3>2, <4>1, NestedUpdate DEF TypeOK
      <4> QED BY <4>2, <4>3
    <3> QED BY <1>3, <3>1, <3>2 DEF SendtoReceiverOnly
  <2>2. mode' \in [Node -> Mode]
    BY <1>3 DEF TypeOK, SendtoReceiverOnly, Enter, Mode
  <2>3. handed' \in [Node -> [Node -> 0 .. MaxSend]]
    BY <1>3, <1>a DEF TypeOK, SendtoReceiverOnly
  <2>4. sessions_list' \in [Node -> Seq(Node)]
    <3>1. /\ Append(sessions_list[n], m) \in Seq(Node)
          /\ Append(Append(sessions_list[n], m), m) \in Seq(Node)
      BY DEF TypeOK
    <3>2. \/ sessions_list' = [sessions_list EXCEPT ![n] = Append(@, m)]
          \/ sessions_list' = [sessions_list EXCEPT ![n] = Append(Append(@, m), m)]
      BY <1>3 DEF SendtoReceiverOnly
    <3> QED BY <3>1, <3>2 DEF TypeOK
  <2>5. NoTimers'
    BY <1>3, SMTT(30) DEF SendtoReceiverOnly, NoTimers
  <2> QED BY <1>3, <2>1, <2>2, <2>3, <2>4, <2>5 DEF TypeOK, rudp_sendto, SendtoReceiverOnly
<1>4. CASE SendtoSession(n, m)
  <2> DEFINE s == sender[n][m]
             item == handed[n][m] + 1
  <2>1. s \in SenderSession
    BY <1>4 DEF SendtoSession, TypeOK
  <2> HIDE DEF item
  <2>2. CASE /\ sender' = [sender EXCEPT ![n][m] = Enqueue(s, item)]
             /\ UNCHANGED <<events, net, stream>>
    <3>1. Enqueue(s, item) \in SenderSession
      BY <1>1, <2>1, EnqueueType DEF item
    <3>2. Enqueue(s, item) # NULL
      BY <3>1, NullAssumption
    <3>3. sender' \in [Node -> [Node -> SenderSession \cup {NULL}]]
      BY <2>2, <3>1, NestedUpdate DEF TypeOK
    <3>4. handed' \in [Node -> [Node -> 0 .. MaxSend]]
      BY <1>4, <1>a DEF SendtoSession
    <3>5. NoTimers'
      BY <2>2, <3>2 DEF TypeOK, NoTimers
    <3> QED BY <1>4, <2>2, <3>3, <3>4, <3>5 DEF TypeOK, rudp_sendto, SendtoSession
  <2>3. ASSUME NEW i \in Free(s),
               NEW sent \in Sent({SendDirect(s, i, item).sliding_window[i]}),
               sender' = [sender EXCEPT ![n][m] =
                             Untimed(SendDirect(s, i, item),
                                     {SendDirect(s, i, item).sliding_window[i]} \ sent)],
               events' = [events EXCEPT ![n][m] = @ \cup sent],
               Transmit(n, m, sent),
               stream' = [stream EXCEPT ![n][m] = Append(@, item)]
        PROVE  TypeInv'
    <3> DEFINE direct == SendDirect(s, i, item)
               data == {direct.sliding_window[i]}
               t == Untimed(direct, data \ sent)
    <3>1. i \in Slot
      BY DEF Free
    <3>2. direct \in SenderSession /\ sent \in SUBSET Packet
      <4>1. direct \in SenderSession /\ direct.sliding_window[i] \in Packet
        BY <1>1, <2>1, <3>1, SendDirectType DEF item
      <4>2. sent \subseteq data
        BY SentType
      <4> HIDE DEF direct
      <4> QED BY <4>1, <4>2
    <3> HIDE DEF direct, data
    <3>3. t \in SenderSession /\ t # NULL
      BY <3>2, UntimedType
    <3> HIDE DEF t
    <3>4. sender' \in [Node -> [Node -> SenderSession \cup {NULL}]]
      BY <2>3, <3>3, NestedUpdate, SMTT(30) DEF TypeOK, t, direct, data
    <3>5. /\ events' \in [Node -> [Node -> SUBSET Packet]]
          /\ net' \in [Node -> [Node -> SUBSET Packet]]
      BY <2>3, <3>2, SMTT(30) DEF TypeOK, Transmit
    <3>6. handed' \in [Node -> [Node -> 0 .. MaxSend]]
      BY <1>4, <1>a DEF SendtoSession
    <3>7. stream' \in [Node -> [Node -> Seq(Message)]]
      <4>1. Append(stream[n][m], item) \in Seq(Message)
        BY <1>1 DEF TypeOK, item
      <4> QED BY <2>3, <4>1 DEF TypeOK
    <3>8. NoTimers'
      BY <2>3, <3>3 DEF TypeOK, NoTimers, t, direct, data
    <3> QED BY <1>4, <3>4, <3>5, <3>6, <3>7, <3>8 DEF TypeOK, rudp_sendto, SendtoSession
  <2> QED BY <1>4, <2>2, <2>3 DEF Register, SendtoSession, item
<1> QED BY <1>2, <1>3, <1>4 DEF rudp_sendto

LEMMA CloseType ==
    ASSUME TypeInv, NEW n \in Node, rudp_close(n)
    PROVE  TypeInv'
<1>1. close_requested' \in [Node -> BOOLEAN]
  BY DEF TypeInv, TypeOK, rudp_close
<1> QED BY <1>1 DEF TypeInv, TypeOK, NoTimers, rudp_close, session, history

LEMMA LoseType ==
    ASSUME TypeInv, NEW n \in Node, NEW m \in Node, Lose(n, m)
    PROVE  TypeInv'
<1>1. net' \in [Node -> [Node -> SUBSET Packet]]
  BY DEF TypeInv, TypeOK, Lose
<1> QED BY <1>1 DEF TypeInv, TypeOK, NoTimers, Lose, session, history

LEMMA TimeoutType ==
    ASSUME TypeInv, NEW n \in Node, NEW m \in Node, timeout_callback(n, m)
    PROVE  TypeInv'
<1> USE DEF TypeInv
<1> DEFINE s == sender[n][m]
<1>1. PICK p \in events[n][m] :
        IF p.type = "DATA" /\ SlotsOf(s, p) = {}
        THEN Enter(n, "undefined") /\ UNCHANGED <<sender, events, net>>
        ELSE IF RetriesLeft(s, p)
        THEN /\ sender' = [sender EXCEPT ![n][m] = CountAttempt(s, p)]
             /\ \E sent \in Sent({p}) :
                  /\ events' = [events EXCEPT ![n][m] = (@ \ {p}) \cup sent]
                  /\ Transmit(n, m, sent)
             /\ UNCHANGED mode
        ELSE /\ events' = [events EXCEPT ![n][m] = @ \ {p}]
             /\ IF n \in Handler THEN Enter(n, "exited") ELSE UNCHANGED mode
             /\ UNCHANGED <<sender, net>>
  BY DEF Register, timeout_callback, Expires
<1>2. p \in Packet /\ s \in SenderSession
  BY DEF TypeOK, NoTimers
<1>3. CASE Enter(n, "undefined") /\ UNCHANGED <<sender, events, net>>
  <2>1. mode' \in [Node -> Mode]
    BY <1>3 DEF TypeOK, Enter, Mode
  <2> QED BY <1>3, <2>1 DEF TypeOK, NoTimers, timeout_callback, Expires, history
<1>4. CASE /\ RetriesLeft(s, p)
           /\ sender' = [sender EXCEPT ![n][m] = CountAttempt(s, p)]
           /\ \E sent \in Sent({p}) :
                /\ events' = [events EXCEPT ![n][m] = (@ \ {p}) \cup sent]
                /\ Transmit(n, m, sent)
           /\ UNCHANGED mode
  <2>0. PICK sent \in SUBSET {p} :
           /\ events' = [events EXCEPT ![n][m] = (@ \ {p}) \cup sent]
           /\ Transmit(n, m, sent)
    BY <1>4, SentType
  <2>1. CountAttempt(s, p) \in SenderSession
    BY <1>2, <1>4, CountAttemptType
  <2>2. CountAttempt(s, p) # NULL
    BY <2>1, NullAssumption
  <2>3. sender' \in [Node -> [Node -> SenderSession \cup {NULL}]]
    BY <1>4, <2>1, NestedUpdate DEF TypeOK
  <2>4. /\ events' \in [Node -> [Node -> SUBSET Packet]]
        /\ net' \in [Node -> [Node -> SUBSET Packet]]
    BY <1>2, <2>0 DEF TypeOK, Transmit
  <2>5. NoTimers'
    BY <1>4, <2>0, <2>2, ZenonT(30) DEF TypeOK, NoTimers
  <2> QED BY <1>4, <2>3, <2>4, <2>5 DEF TypeOK, timeout_callback, Expires, history
<1>5. CASE /\ events' = [events EXCEPT ![n][m] = @ \ {p}]
           /\ IF n \in Handler THEN Enter(n, "exited") ELSE UNCHANGED mode
           /\ UNCHANGED <<sender, net>>
  <2>1. mode' \in [Node -> Mode]
    BY <1>5 DEF TypeOK, Enter, Mode
  <2>2. events' \in [Node -> [Node -> SUBSET Packet]]
    BY <1>5 DEF TypeOK
  <2>3. NoTimers'
    BY <1>5 DEF TypeOK, NoTimers
  <2> QED BY <1>5, <2>1, <2>2, <2>3 DEF TypeOK, timeout_callback, Expires, history
<1> QED BY <1>1, <1>3, <1>4, <1>5

-----------------------------------------------------------------------------
(***************************************************************************)
(* receive_callback, branch by branch.                                     *)
(***************************************************************************)
LEMMA ReceiveNoSessionType ==
    ASSUME TypeInv, NEW n \in Node, NEW m \in Node, NEW p \in net[m][n],
           ReceiveNoSession(n, m, p), UNCHANGED close_requested
    PROVE  TypeInv'
<1> USE DEF TypeInv
<1>1. p \in Packet /\ p.seqno \in SeqNo /\ SeqNext(p.seqno) \in SeqNo
  BY SeqArithmetic, SeqModAssumption DEF TypeOK, Packet
<1>2. CASE /\ Consume(n, m, p, Nothing)
           /\ UNCHANGED session
           /\ mode' \in [Node -> Mode]
  <2>1. net' \in [Node -> [Node -> SUBSET Packet]]
    BY <1>1, <1>2, ConsumeNet, NothingType DEF TypeOK
  <2> QED BY <1>2, <2>1 DEF TypeOK, NoTimers, ReceiveNoSession, session, history
<1>3. CASE LET seqno == SeqNext(p.seqno) IN
           /\ receiver' = [receiver EXCEPT ![n][m] = create_receiver_session(seqno)]
           /\ sessions_list' = [sessions_list EXCEPT ![n] = Append(@, m)]
           /\ Consume(n, m, p, Only(m, {create_rudp_packet(SynReply(n), seqno, NoPayload)}))
           /\ UNCHANGED <<mode, sender>>
  <2>1. create_rudp_packet(SynReply(n), SeqNext(p.seqno), NoPayload) \in Packet
    BY <1>1, PacketType DEF SynReply, SynLine
  <2>2. net' \in [Node -> [Node -> SUBSET Packet]]
    <3> DEFINE out == Only(m, {create_rudp_packet(SynReply(n), SeqNext(p.seqno), NoPayload)})
    <3>1. out \in [Node -> SUBSET Packet]
      BY <2>1, OnlyType
    <3>2. Consume(n, m, p, out)
      BY <1>3
    <3> HIDE DEF out
    <3> QED BY <1>1, <3>1, <3>2, ConsumeNet DEF TypeOK
  <2>3. receiver' \in [Node -> [Node -> ReceiverSession \cup {NULL}]]
    BY <1>1, <1>3, CreateReceiverType, NestedUpdate DEF TypeOK
  <2>4. sessions_list' \in [Node -> Seq(Node)]
    <3>1. Append(sessions_list[n], m) \in Seq(Node)
      BY DEF TypeOK
    <3> QED BY <1>3, <3>1 DEF TypeOK
  <2> QED BY <1>3, <2>2, <2>3, <2>4 DEF TypeOK, NoTimers, ReceiveNoSession, history
<1>4. Enter(n, "crashed") => mode' \in [Node -> Mode]
  BY DEF TypeOK, Enter, Mode
<1>5. UNCHANGED mode => mode' \in [Node -> Mode]
  BY DEF TypeOK
<1> QED BY <1>2, <1>3, <1>4, <1>5 DEF ReceiveNoSession

LEMMA ReceiveSynType ==
    ASSUME TypeInv, NEW n \in Node, NEW m \in Node, NEW p \in net[m][n],
           ReceiveSyn(n, m, p), UNCHANGED close_requested
    PROVE  TypeInv'
<1> USE DEF TypeInv
<1>1. p \in Packet /\ p.seqno \in SeqNo /\ SeqNext(p.seqno) \in SeqNo
  BY SeqArithmetic, SeqModAssumption DEF TypeOK, Packet
<1>2. CASE Consume(n, m, p, Nothing) /\ UNCHANGED receiver
  <2>1. net' \in [Node -> [Node -> SUBSET Packet]]
    BY <1>1, <1>2, ConsumeNet, NothingType DEF TypeOK
  <2> QED BY <1>2, <2>1 DEF TypeOK, NoTimers, ReceiveSyn, history
<1>3. CASE LET seqno == SeqNext(p.seqno) IN
           /\ receiver' = [receiver EXCEPT ![n][m] = create_receiver_session(seqno)]
           /\ Consume(n, m, p, Ack(m, seqno))
  <2>1. net' \in [Node -> [Node -> SUBSET Packet]]
    BY <1>1, <1>3, ConsumeNet, AckType DEF TypeOK
  <2>2. receiver' \in [Node -> [Node -> ReceiverSession \cup {NULL}]]
    BY <1>1, <1>3, CreateReceiverType, NestedUpdate DEF TypeOK
  <2> QED BY <1>3, <2>1, <2>2 DEF TypeOK, NoTimers, ReceiveSyn, history
<1> QED BY <1>2, <1>3 DEF ReceiveSyn

LEMMA ReceiveMissingHalfType ==
    ASSUME TypeInv, NEW n \in Node, NEW m \in Node, NEW p \in net[m][n],
           ReceiveMissingHalf(n, m, p), UNCHANGED close_requested
    PROVE  TypeInv'
<1>1. net' \in [Node -> [Node -> SUBSET Packet]]
  <2>1. p \in Packet /\ Nothing \in [Node -> SUBSET Packet]
    BY NothingType DEF TypeInv, TypeOK
  <2> QED BY <2>1, ConsumeNet DEF TypeInv, TypeOK, ReceiveMissingHalf
<1>2. mode' \in [Node -> Mode]
  BY DEF TypeInv, TypeOK, ReceiveMissingHalf, Enter, Mode
<1> QED BY <1>1, <1>2 DEF TypeInv, TypeOK, NoTimers, ReceiveMissingHalf, session, history

LEMMA ReceiveAckSynSentType ==
    ASSUME TypeInv, NEW n \in Node, NEW m \in Node, NEW p \in net[m][n],
           ReceiveAckSynSent(n, m, p), UNCHANGED close_requested
    PROVE  TypeInv'
<1> USE DEF TypeInv
<1> DEFINE s == sender[n][m]
<1>1. p \in Packet /\ s \in SenderSession
  BY DEF TypeOK, ReceiveAckSynSent, ReceiveAck
<1>2. CASE Consume(n, m, p, Nothing) /\ UNCHANGED <<sender, events, stream>>
  <2>1. net' \in [Node -> [Node -> SUBSET Packet]]
    BY <1>1, <1>2, ConsumeNet, NothingType DEF TypeOK
  <2> QED BY <1>2, <2>1 DEF TypeOK, NoTimers, ReceiveAckSynSent
<1>3. ASSUME NEW sent \in Sent(NewPackets(s)),
             sender' = [sender EXCEPT ![n][m] =
                           Untimed(OpenSession(s), NewPackets(s) \ sent)],
             events' = [events EXCEPT ![n][m] = Cancel(@, s.syn_timeout_arg) \cup sent],
             stream' = [stream EXCEPT ![n][m] = @ \o Moved(s)],
             Consume(n, m, p, Only(m, sent))
      PROVE  TypeInv'
  <2> DEFINE t == Untimed(OpenSession(s), NewPackets(s) \ sent)
  <2>1. OpenSession(s) \in SenderSession /\ sent \subseteq Packet
    <3>1. OpenSession(s) \in SenderSession /\ NewPackets(s) \subseteq Packet
      BY <1>1, OpenSessionType, FlushQueueType
    <3> QED BY <3>1, SentType
  <2>2. t \in SenderSession /\ t # NULL
    BY <2>1, UntimedType
  <2> HIDE DEF t
  <2>3. sender' \in [Node -> [Node -> SenderSession \cup {NULL}]]
    BY <1>3, <2>2, NestedUpdate DEF TypeOK, t
  <2>4. events' \in [Node -> [Node -> SUBSET Packet]]
    BY <1>3, <2>1 DEF TypeOK, Cancel
  <2>5. net' \in [Node -> [Node -> SUBSET Packet]]
    BY <1>1, <1>3, <2>1, ConsumeNet, OnlyType DEF TypeOK
  <2>6. stream' \in [Node -> [Node -> Seq(Message)]]
    <3>1. stream[n][m] \o Moved(s) \in Seq(Message)
      BY <1>1, QueueSplit, ConcatProperties DEF TypeOK
    <3> QED BY <1>3, <3>1, NestedUpdate DEF TypeOK
  <2>7. NoTimers'
    BY <1>3, <2>2 DEF TypeOK, NoTimers, t
  <2> QED BY <2>3, <2>4, <2>5, <2>6, <2>7 DEF TypeOK, ReceiveAckSynSent
<1> QED BY <1>2, <1>3 DEF Register, ReceiveAckSynSent

LEMMA ReceiveDataType ==
    ASSUME TypeInv, NEW n \in Node, NEW m \in Node, NEW p \in net[m][n],
           ReceiveData(n, m, p), UNCHANGED close_requested
    PROVE  TypeInv'
<1> USE DEF TypeInv
<1> DEFINE r == receiver[n][m]
<1>1. p \in Packet /\ SeqNext(p.seqno) \in SeqNo /\ r \in ReceiverSession
  <2>1. p \in Packet /\ p.seqno \in SeqNo
    BY DEF TypeOK, Packet
  <2>2. r \in ReceiverSession
    BY DEF TypeOK, ReceiveData
  <2> QED BY <2>1, <2>2, SeqModAssumption, SeqArithmetic
<1>2. net' \in [Node -> [Node -> SUBSET Packet]]
  BY <1>1, ConsumeNet, AckType, NothingType DEF TypeOK, ReceiveData
<1>3. CASE UNCHANGED <<receiver, delivered>>
  BY <1>2, <1>3 DEF TypeOK, NoTimers, ReceiveData
<1>4. CASE /\ receiver' = [receiver EXCEPT ![n][m] =
                   [r EXCEPT !.status = "OPEN", !.expected_seqno = SeqNext(p.seqno)]]
           /\ IF n \in RecvHandler
              THEN delivered' = [delivered EXCEPT ![n][m] = Append(@, p.payload)]
              ELSE UNCHANGED delivered
  <2>1. [r EXCEPT !.status = "OPEN", !.expected_seqno = SeqNext(p.seqno)] \in ReceiverSession
    BY <1>1 DEF ReceiverSession
  <2>2. receiver' \in [Node -> [Node -> ReceiverSession \cup {NULL}]]
    BY <1>4, <2>1, NestedUpdate, SMTT(30) DEF TypeOK
  <2>3. Append(delivered[n][m], p.payload) \in Seq(Message \cup {NoPayload})
    BY <1>1 DEF TypeOK, Packet
  <2>4. delivered' \in [Node -> [Node -> Seq(Message \cup {NoPayload})]]
    <3>1. CASE n \in RecvHandler
      <4> DEFINE d == Append(delivered[n][m], p.payload)
      <4>1. delivered' = [delivered EXCEPT ![n][m] = d]
        BY <1>4, <3>1
      <4> HIDE DEF d
      <4> QED BY <2>3, <4>1, NestedUpdate DEF TypeOK, d
    <3>2. CASE n \notin RecvHandler
      BY <1>4, <3>2 DEF TypeOK
    <3> QED BY <3>1, <3>2
  <2> QED BY <1>2, <2>2, <2>4 DEF TypeOK, NoTimers, ReceiveData
<1> QED BY <1>3, <1>4 DEF ReceiveData

LEMMA ReceiveFinType ==
    ASSUME TypeInv, NEW n \in Node, NEW m \in Node, NEW p \in net[m][n],
           ReceiveFin(n, m, p), UNCHANGED close_requested
    PROVE  TypeInv'
<1> USE DEF TypeInv
<1> DEFINE r == receiver[n][m]
<1>1. p \in Packet /\ r \in ReceiverSession /\ SeqNext(r.expected_seqno) \in SeqNo
  <2>1. p \in Packet /\ r \in ReceiverSession
    BY DEF TypeOK, ReceiveFin
  <2>2. r.expected_seqno \in SeqNo
    BY <2>1 DEF ReceiverSession
  <2> QED BY <2>1, <2>2, SeqModAssumption, SeqArithmetic
<1>2. net' \in [Node -> [Node -> SUBSET Packet]]
  BY <1>1, ConsumeNet, AckType, NothingType DEF TypeOK, ReceiveFin
<1>3. mode' \in [Node -> Mode]
  BY DEF TypeOK, ReceiveFin, FinLoop, Enter, Mode
<1>4. receiver' \in [Node -> [Node -> ReceiverSession \cup {NULL}]]
  <2>1. [r EXCEPT !.session_finished = TRUE] \in ReceiverSession
    BY <1>1 DEF ReceiverSession
  <2>2. CASE UNCHANGED receiver
    BY <2>2 DEF TypeOK
  <2>3. CASE receiver' = [receiver EXCEPT ![n][m] = [r EXCEPT !.session_finished = TRUE]]
    BY <2>1, <2>3, NestedUpdate DEF TypeOK
  <2> QED BY <2>2, <2>3 DEF ReceiveFin
<1> QED BY <1>2, <1>3, <1>4 DEF TypeOK, NoTimers, ReceiveFin, history

-----------------------------------------------------------------------------
(***************************************************************************)
(* The ACK of the oldest DATA packet: the window slides and is refilled,   *)
(* and FINs may go to other peers of the socket.                           *)
(***************************************************************************)
LEMMA SlideAndFillType ==
    ASSUME TypeInv, NEW n \in Node, NEW m \in Node, NEW p \in net[m][n],
           sender[n][m] # NULL, SlideAndFill(n, m, p),
           UNCHANGED <<close_requested, sessions_list, receiver, handed, isn, delivered>>
    PROVE  /\ TypeInv'
           /\ \A h \in Node : sender[n][h] = NULL <=> sender'[n][h] = NULL
<1> USE DEF TypeInv
<1> DEFINE s == ShiftWindow(sender[n][m])
           slid == [sender[n] EXCEPT ![m] = FlushQueue(s)]
           fins == {h \in Visited(n) : close_requested[n] /\ Drained(slid[h])}
           out == [h \in Node |-> (IF h = m THEN NewPackets(s) ELSE {})
                                  \cup (IF h \in fins THEN {FinPacket(slid[h])} ELSE {})]
           done == [events[n] EXCEPT ![m] = Cancel(@, sender[n][m].data_timeout_arg[0])]
           after == [h \in Node |-> IF h \in fins THEN SendFin(slid[h]) ELSE slid[h]]
<1>1. sender[n][m] \in SenderSession
  BY DEF TypeOK
<1>2. s \in SenderSession /\ FlushQueue(s) \in SenderSession /\ NewPackets(s) \subseteq Packet
  BY <1>1, ShiftWindowType, FlushQueueType
<1>3. Moved(s) \in Seq(Message)
  BY <1>2, QueueSplit
<1> HIDE DEF s
<1>4. /\ slid \in [Node -> SenderSession \cup {NULL}]
      /\ \A h \in Node : sender[n][h] # NULL => slid[h] \in SenderSession
      /\ \A h \in Node : sender[n][h] = NULL => slid[h] = NULL
  BY <1>1, <1>2 DEF TypeOK
<1>5. \A h \in fins : sender[n][h] # NULL
  <2> TAKE h \in fins
  <2>1. PICK i \in DOMAIN sessions_list[n] :
          h = sessions_list[n][i] /\ \A j \in 1 .. i : sender[n][sessions_list[n][j]] # NULL
    BY DEF Visited
  <2>2. i \in 1 .. i
    <3>1. sessions_list[n] \in Seq(Node)
      BY DEF TypeOK
    <3>2. DOMAIN sessions_list[n] = 1 .. Len(sessions_list[n]) /\ Len(sessions_list[n]) \in Nat
      BY <3>1, LenProperties
    <3> QED BY <3>2
  <2> QED BY <2>1, <2>2
<1> HIDE DEF slid
<1>6. \A h \in fins \cap Node :
         SendFin(slid[h]) \in SenderSession /\ FinPacket(slid[h]) \in Packet
  BY <1>4, <1>5, SendFinType
<1> HIDE DEF fins
<1>7. out \in [Node -> SUBSET Packet]
  BY <1>2, <1>6
<1>8. /\ after \in [Node -> SenderSession \cup {NULL}]
      /\ \A h \in Node : after[h] = NULL <=> sender[n][h] = NULL
  BY <1>4, <1>5, <1>6, NullAssumption
<1>9. done \in [Node -> SUBSET Packet] /\ \A h \in Node : done[h] \subseteq events[n][h]
  BY DEF TypeOK, Cancel
<1>10. \A h \in Node : sender[n][h] = NULL => out[h] = {}
  BY <1>1, <1>5, NullAssumption
<1>11. /\ \E sent \in SentTo(out) :
             /\ sender' = [sender EXCEPT ![n] =
                    [h \in Node |-> IF after[h] = NULL THEN NULL
                                    ELSE Untimed(after[h], out[h] \ sent[h])]]
             /\ events' = [events EXCEPT ![n] = [h \in Node |-> done[h] \cup sent[h]]]
             /\ Consume(n, m, p, sent)
       /\ stream' = [stream EXCEPT ![n][m] = @ \o Moved(s)]
       /\ mode' = mode \/ Enter(n, "crashed")
  BY DEF Register, SlideAndFill, s, slid, fins
<1> HIDE DEF out, done, after
<1>a. PICK sent \in SentTo(out) :
             /\ sender' = [sender EXCEPT ![n] =
                    [h \in Node |-> IF after[h] = NULL THEN NULL
                                    ELSE Untimed(after[h], out[h] \ sent[h])]]
             /\ events' = [events EXCEPT ![n] = [h \in Node |-> done[h] \cup sent[h]]]
             /\ Consume(n, m, p, sent)
  BY <1>11
<1>b. sent \in [Node -> SUBSET Packet] /\ \A h \in Node : sent[h] \subseteq out[h]
  BY <1>7, SentToType
<1> DEFINE row == [h \in Node |-> IF after[h] = NULL THEN NULL
                                  ELSE Untimed(after[h], out[h] \ sent[h])]
<1>c. /\ row \in [Node -> SenderSession \cup {NULL}]
      /\ \A h \in Node : row[h] = NULL <=> sender[n][h] = NULL
  <2>1. \A h \in Node : after[h] # NULL =>
           /\ Untimed(after[h], out[h] \ sent[h]) \in SenderSession
           /\ Untimed(after[h], out[h] \ sent[h]) # NULL
    <3> SUFFICES ASSUME NEW h \in Node, after[h] # NULL
                 PROVE  /\ Untimed(after[h], out[h] \ sent[h]) \in SenderSession
                        /\ Untimed(after[h], out[h] \ sent[h]) # NULL
      OBVIOUS
    <3>1. after[h] \in SenderSession
      BY <1>8
    <3> QED BY <3>1, UntimedType
  <2> QED BY <1>8, <2>1
<1>d. sender' = [sender EXCEPT ![n] = row]
  BY <1>a
<1> HIDE DEF row
<1>12. sender' \in [Node -> [Node -> SenderSession \cup {NULL}]]
  BY <1>c, <1>d DEF TypeOK
<1>13. events' \in [Node -> [Node -> SUBSET Packet]]
  BY <1>a, <1>b, <1>9 DEF TypeOK
<1>14. net' \in [Node -> [Node -> SUBSET Packet]]
  <2>1. p \in Packet
    BY DEF TypeOK
  <2> QED BY <1>a, <1>b, <2>1, ConsumeNet DEF TypeOK
<1>15. stream' \in [Node -> [Node -> Seq(Message)]]
  <2>1. stream[n][m] \o Moved(s) \in Seq(Message)
    BY <1>3, ConcatProperties DEF TypeOK
  <2> QED BY <1>11, <2>1, NestedUpdate, SMTT(30) DEF TypeOK
<1>16. mode' \in [Node -> Mode]
  BY <1>11 DEF TypeOK, Enter, Mode
<1>17. NoTimers'
  <2> SUFFICES ASSUME NEW x \in Node, NEW y \in Node, sender'[x][y] = NULL
               PROVE  events'[x][y] = {}
    BY DEF NoTimers
  <2>1. CASE x = n
    <3>1. sender[n][y] = NULL
      BY <1>c, <1>d, <2>1 DEF TypeOK
    <3>2. done[y] = {} /\ sent[y] = {}
      BY <1>b, <1>9, <1>10, <3>1 DEF NoTimers
    <3> QED BY <1>a, <2>1, <3>2 DEF TypeOK
  <2>2. CASE x # n
    BY <1>a, <1>d, <2>2 DEF TypeOK, NoTimers
  <2> QED BY <2>1, <2>2
<1>18. \A h \in Node : sender[n][h] = NULL <=> sender'[n][h] = NULL
  BY <1>c, <1>d DEF TypeOK
<1>19. TypeInv'
  BY <1>12, <1>13, <1>14, <1>15, <1>16, <1>17 DEF TypeOK
<1> QED BY <1>18, <1>19

LEMMA ReceiveAckOpenType ==
    ASSUME TypeInv, NEW n \in Node, NEW m \in Node, NEW p \in net[m][n],
           ReceiveAckOpen(n, m, p), UNCHANGED close_requested
    PROVE  TypeInv'
<1>1. CASE SlideAndFill(n, m, p)
  BY <1>1, SlideAndFillType DEF ReceiveAckOpen, ReceiveAck
<1>2. CASE /\ Consume(n, m, p, Nothing)
           /\ mode' = mode \/ Enter(n, "undefined")
           /\ UNCHANGED <<sender, events, stream>>
  <2>1. p \in Packet /\ Nothing \in [Node -> SUBSET Packet]
    BY NothingType DEF TypeInv, TypeOK
  <2>2. net' \in [Node -> [Node -> SUBSET Packet]]
    BY <1>2, <2>1, ConsumeNet DEF TypeInv, TypeOK
  <2>3. mode' \in [Node -> Mode]
    BY <1>2 DEF TypeInv, TypeOK, Enter, Mode
  <2> QED BY <1>2, <2>2, <2>3 DEF TypeInv, TypeOK, NoTimers, ReceiveAckOpen
<1> QED BY <1>1, <1>2 DEF ReceiveAckOpen

LEMMA ReceiveAckFinSentType ==
    ASSUME TypeInv, NEW n \in Node, NEW m \in Node, NEW p \in net[m][n],
           ReceiveAckFinSent(n, m, p), UNCHANGED close_requested
    PROVE  TypeInv'
<1> USE DEF TypeInv
<1> DEFINE s == sender[n][m]
           finished == [s EXCEPT !.session_finished = TRUE]
<1>1. p \in Packet /\ Nothing \in [Node -> SUBSET Packet] /\ s \in SenderSession
  BY NothingType DEF TypeOK, ReceiveAckFinSent, ReceiveAck
<1>2. net' \in [Node -> [Node -> SUBSET Packet]]
  BY <1>1, ConsumeNet DEF TypeOK, ReceiveAckFinSent
<1>3. mode' \in [Node -> Mode]
  BY DEF TypeOK, ReceiveAckFinSent, Enter, Mode
<1>4. finished \in SenderSession
  BY <1>1 DEF SenderSession
<1>5. finished # NULL
  BY <1>4, NullAssumption
<1>6. CASE UNCHANGED <<sender, events>>
  BY <1>2, <1>3, <1>6 DEF TypeOK, NoTimers, ReceiveAckFinSent, history
<1>7. CASE /\ sender' = [sender EXCEPT ![n][m] = finished]
           /\ events' = [events EXCEPT ![n][m] = Cancel(@, s.fin_timeout_arg)]
  <2> HIDE DEF finished
  <2>1. sender' \in [Node -> [Node -> SenderSession \cup {NULL}]]
    BY <1>4, <1>7, NestedUpdate DEF TypeOK
  <2>2. events' \in [Node -> [Node -> SUBSET Packet]]
    BY <1>7 DEF TypeOK, Cancel
  <2>3. NoTimers'
    BY <1>5, <1>7 DEF TypeOK, NoTimers
  <2> QED BY <1>2, <1>3, <2>1, <2>2, <2>3 DEF TypeOK, ReceiveAckFinSent, history
<1> QED BY <1>6, <1>7 DEF ReceiveAckFinSent

-----------------------------------------------------------------------------
LEMMA TypeNext == TypeInv /\ [Next]_vars => TypeInv'
<1> SUFFICES ASSUME TypeInv, [Next]_vars PROVE TypeInv'
  OBVIOUS
<1>1. ASSUME NEW n \in Node, NEW m \in Node, rudp_sendto(n, m) PROVE TypeInv'
  BY <1>1, SendtoType
<1>2. ASSUME NEW n \in Node, NEW m \in Node, receive_callback(n, m) PROVE TypeInv'
  <2>1. PICK p \in net[m][n] :
          \/ ReceiveNoSession(n, m, p)
          \/ ReceiveSyn(n, m, p)
          \/ ReceiveMissingHalf(n, m, p)
          \/ ReceiveAckSynSent(n, m, p)
          \/ ReceiveAckOpen(n, m, p)
          \/ ReceiveAckFinSent(n, m, p)
          \/ ReceiveData(n, m, p)
          \/ ReceiveFin(n, m, p)
    BY <1>2 DEF receive_callback
  <2>2. UNCHANGED close_requested
    BY <1>2 DEF receive_callback
  <2> QED BY <2>1, <2>2, ReceiveNoSessionType, ReceiveSynType, ReceiveMissingHalfType,
             ReceiveAckSynSentType, ReceiveAckOpenType, ReceiveAckFinSentType,
             ReceiveDataType, ReceiveFinType
<1>3. ASSUME NEW n \in Node, NEW m \in Node, timeout_callback(n, m) PROVE TypeInv'
  BY <1>3, TimeoutType
<1>4. ASSUME NEW n \in Node, NEW m \in Node, Lose(n, m) PROVE TypeInv'
  BY <1>4, LoseType
<1>5. ASSUME NEW n \in Node, rudp_close(n) PROVE TypeInv'
  BY <1>5, CloseType
<1>6. CASE UNCHANGED vars
  BY <1>6 DEF TypeInv, TypeOK, NoTimers, vars, session, history
<1> QED BY <1>1, <1>2, <1>3, <1>4, <1>5, <1>6 DEF Next

(***************************************************************************)
(* Type correctness: whatever the applications, the timers and the network *)
(* do, every variable keeps to the structs of the code; in particular no   *)
(* attempt counter passes RUDP_MAXRETRANS and no sequence number leaves    *)
(* its type.                                                               *)
(***************************************************************************)
THEOREM TypeCorrect == Spec => []TypeOK
<1>1. TypeInv => TypeOK
  BY DEF TypeInv
<1> QED BY TypeInit, TypeNext, <1>1, PTL DEF Spec

-----------------------------------------------------------------------------
(***************************************************************************)
(* PrefixDelivery for every instance, by the inductive invariant StreamInv *)
(* of RudpInv.  Three of the lines named in SlipLine must be read as their *)
(* sibling lines fix them: 528 and 555 let a number travel that no session *)
(* chose, and 613 gives a number twice.                                    *)
(***************************************************************************)
FaithfulNumbers == AsWritten \cap {528, 555, 613} = {}

-----------------------------------------------------------------------------
(***************************************************************************)
(* A flow no step numbers, delivers or restarts anything in keeps its      *)
(* invariant: packets may be lost, repeated, sent again or joined by ACKs  *)
(* and FINs, and the session may go on to its FIN.                         *)
(***************************************************************************)
SameSender(n, m) ==
    /\ sender'[n][m] = NULL <=> sender[n][m] = NULL
    /\ sender[n][m] # NULL =>
          /\ sender'[n][m].data_queue = sender[n][m].data_queue
          /\ \/ sender'[n][m].status = "FIN_SENT"
             \/ /\ sender'[n][m].status = sender[n][m].status
                /\ sender'[n][m].seqno = sender[n][m].seqno

SameReceiver(n, m) ==
    /\ receiver'[m][n] = NULL <=> receiver[m][n] = NULL
    /\ receiver[m][n] # NULL =>
          /\ receiver'[m][n].expected_seqno = receiver[m][n].expected_seqno
          /\ receiver'[m][n].status = receiver[m][n].status

NoNewPacket(n, m) ==
    \A p \in net'[n][m] \cup events'[n][m] :
        p \in net[n][m] \cup events[n][m] \/ p.type \in {"ACK", "FIN"}

StaysDown(n) == mode[n] # "up" => mode'[n] # "up"

StaysOpen(n, m) == receiver[n][m] # NULL => receiver'[n][m] # NULL

\* rudp_sendto takes a message for a session it cannot find, or none.
NothingQueued(n, m) ==
    \/ handed'[n][m] = handed[n][m]
    \/ sender'[n][m] = NULL /\ receiver'[n][m] # NULL

LEMMA FlowUnchanged ==
    ASSUME NEW n \in Node, NEW m \in Node, FlowInv(n, m),
           NothingQueued(n, m),
           stream'[n][m] = stream[n][m],
           isn'[n][m] = isn[n][m],
           delivered'[m][n] = delivered[m][n],
           SameSender(n, m), SameReceiver(n, m), NoNewPacket(n, m),
           StaysDown(n), StaysOpen(n, m)
    PROVE  FlowInv(n, m)'
<1>1. Unopened(n, m)'
  BY DEF FlowInv, Unopened, SameSender, StaysDown, StaysOpen, NothingQueued
<1>2. Numbering(n, m)'
  BY DEF FlowInv, Numbering, SameSender, NothingQueued
<1>3. ASSUME NEW p \in net'[n][m] \cup events'[n][m] PROVE Genuine(n, m, p)'
  BY <1>3 DEF FlowInv, Genuine, OfStream, NoNewPacket
<1>4. Expecting(n, m)'
  BY DEF FlowInv, Expecting, SameReceiver
<1>5. NoDelivery(n, m)'
  BY DEF FlowInv, NoDelivery, SameReceiver
<1>6. Delivered(n, m)'
  BY DEF FlowInv, Delivered
<1> QED BY <1>1, <1>2, <1>3, <1>4, <1>5, <1>6 DEF FlowInv

(***************************************************************************)
(* A flow in which a step numbers the messages of new, one after the       *)
(* other, keeps its invariant if each new DATA packet is one of them under *)
(* its number.                                                             *)
(***************************************************************************)
LEMMA FlowGrows ==
    ASSUME TypeInv, TypeInv', NEW n \in Node, NEW m \in Node, FlowInv(n, m),
           NEW new \in Seq(Message),
           sender[n][m] # NULL, sender'[n][m] # NULL,
           sender[n][m].status # "FIN_SENT",
           Len(stream'[n][m]) = Len(stream[n][m]) + Len(new),
           \A k \in 1 .. Len(stream[n][m]) : stream'[n][m][k] = stream[n][m][k],
           \A k \in 1 .. Len(new) : stream'[n][m][Len(stream[n][m]) + k] = new[k],
           handed'[n][m] - handed[n][m]
              = Len(new) + Len(sender'[n][m].data_queue) - Len(sender[n][m].data_queue),
           sender'[n][m].status # "FIN_SENT" =>
              sender'[n][m].seqno = SeqAdd(sender[n][m].seqno, Len(new)),
           isn'[n][m] = isn[n][m],
           delivered'[m][n] = delivered[m][n],
           SameReceiver(n, m),
           \A p \in net'[n][m] \cup events'[n][m] :
              \/ p \in net[n][m] \cup events[n][m]
              \/ p.type \in {"ACK", "FIN"}
              \/ /\ p.type = "DATA"
                 /\ \E k \in 1 .. Len(new) :
                       p.seqno = SeqAdd(sender[n][m].seqno, k) /\ p.payload = new[k]
    PROVE  FlowInv(n, m)'
<1> DEFINE L == Len(stream[n][m])
           s == sender[n][m]
           t == sender'[n][m]
<1>1. /\ s \in SenderSession /\ t \in SenderSession
      /\ Len(s.data_queue) \in Nat /\ Len(t.data_queue) \in Nat
      /\ L \in Nat /\ Len(new) \in Nat
      /\ handed[n][m] \in Nat /\ handed'[n][m] \in Nat /\ handed'[n][m] <= MaxSend
  <2>1. s \in SenderSession /\ t \in SenderSession
    BY DEF TypeInv, TypeOK
  <2>2. Len(s.data_queue) \in Nat /\ Len(t.data_queue) \in Nat
    <3>1. s.data_queue \in Seq(Message) /\ t.data_queue \in Seq(Message)
      BY <2>1 DEF SenderSession
    <3> QED BY <3>1, LenProperties
  <2>3. L \in Nat /\ Len(new) \in Nat
    <3>1. stream[n][m] \in Seq(Message)
      BY DEF TypeInv, TypeOK
    <3> QED BY <3>1, LenProperties
  <2>4. handed[n][m] \in Nat /\ handed'[n][m] \in Nat /\ handed'[n][m] <= MaxSend
    BY SessionAssumption DEF TypeInv, TypeOK
  <2> QED BY <2>1, <2>2, <2>3, <2>4
<1>2. /\ isn[n][m] \in SeqNo
      /\ L + Len(s.data_queue) = handed[n][m]
      /\ s.seqno = SeqAdd(isn[n][m], L)
  <2>1. Numbering(n, m)
    BY DEF FlowInv
  <2>2. isn[n][m] \in SeqNo \cup {NULL}
    BY DEF TypeInv, TypeOK
  <2> QED BY <2>1, <2>2 DEF Numbering
<1>3. /\ L + Len(new) + Len(t.data_queue) = handed'[n][m]
      /\ L + Len(new) < SeqMod
  <2> DEFINE a == Len(new)
             b == Len(s.data_queue)
             c == Len(t.data_queue)
             d == handed[n][m]
             e == handed'[n][m]
  <2>1. e - d = a + c - b /\ L + b = d /\ e <= MaxSend
    BY <1>1, <1>2
  <2>2. a \in Nat /\ b \in Nat /\ c \in Nat /\ d \in Nat /\ e \in Nat /\ L \in Nat
    BY <1>1
  <2> HIDE DEF a, b, c, d, e, L
  <2>3. L + a + c = e /\ L + a < SeqMod
    BY <2>1, <2>2, SessionAssumption, SeqModAssumption
  <2> QED BY <2>3 DEF a, c, e
<1>4. \A k \in 0 .. Len(new) : SeqAdd(s.seqno, k) = SeqAdd(isn[n][m], L + k)
  <2> TAKE k \in 0 .. Len(new)
  <2>1. k \in Nat /\ L + k < SeqMod
    BY <1>1, <1>3, SeqModAssumption
  <2> QED BY <1>1, <1>2, <2>1, SeqAddition
<1>5. Unopened(n, m)'
  BY DEF Unopened
<1>6. Numbering(n, m)'
  <2>1. Len(stream'[n][m]) + Len(t.data_queue) = handed'[n][m]
    BY <1>3
  <2>2. isn'[n][m] # NULL
    BY <1>2, NullAssumption
  <2>3. t.status # "FIN_SENT" => t.seqno = SeqAdd(isn[n][m], L + Len(new))
    BY <1>1, <1>4
  <2> QED BY <2>1, <2>2, <2>3 DEF Numbering
<1>7. ASSUME NEW p \in net'[n][m] \cup events'[n][m] PROVE Genuine(n, m, p)'
  <2>1. CASE p \in net[n][m] \cup events[n][m]
    <3>1. Genuine(n, m, p)
      BY <2>1 DEF FlowInv
    <3> QED BY <1>1, <3>1 DEF Genuine, OfStream
  <2>2. CASE p.type \in {"ACK", "FIN"}
    BY <2>2 DEF Genuine
  <2>3. ASSUME p.type = "DATA", NEW k \in 1 .. Len(new),
               p.seqno = SeqAdd(s.seqno, k), p.payload = new[k]
        PROVE  Genuine(n, m, p)'
    <3>1. L + k \in 1 .. Len(stream'[n][m]) /\ k \in 0 .. Len(new)
      BY <1>1
    <3>2. p.seqno = SeqAdd(isn'[n][m], L + k) /\ p.payload = stream'[n][m][L + k]
      BY <1>4, <2>3, <3>1
    <3> QED BY <2>3, <3>1, <3>2 DEF Genuine, OfStream
  <2> QED BY <2>1, <2>2, <2>3
<1>8. Expecting(n, m)'
  BY DEF FlowInv, Expecting, SameReceiver
<1>9. NoDelivery(n, m)'
  BY DEF FlowInv, NoDelivery, SameReceiver
<1>10. Delivered(n, m)'
  <2>1. Len(delivered[m][n]) \in Nat
    BY DEF TypeInv, TypeOK
  <2> QED BY <1>1, <2>1 DEF FlowInv, Delivered
<1> QED BY <1>5, <1>6, <1>7, <1>8, <1>9, <1>10 DEF FlowInv

(***************************************************************************)
(* A SYN starts or restarts the receiver of a flow before anything of the  *)
(* flow is delivered, and always at the same number.                       *)
(***************************************************************************)
LEMMA FlowStarts ==
    ASSUME TypeInv, TypeInv', NEW n \in Node, NEW m \in Node, FlowInv(n, m),
           NEW p \in net[n][m], p.type = "SYN",
           MayRestart(receiver[m][n]),
           receiver'[m][n] = create_receiver_session(SeqNext(p.seqno)),
           handed'[n][m] = handed[n][m],
           stream'[n][m] = stream[n][m],
           isn'[n][m] = isn[n][m],
           delivered'[m][n] = delivered[m][n],
           SameSender(n, m), NoNewPacket(n, m), StaysDown(n), StaysOpen(n, m)
    PROVE  FlowInv(n, m)'
<1>1. delivered[m][n] = << >>
  BY DEF FlowInv, NoDelivery, Expecting, MayRestart
<1>2. isn[n][m] \in SeqNo /\ p.seqno = isn[n][m]
  <2>1. Genuine(n, m, p)
    BY DEF FlowInv
  <2>2. isn[n][m] \in SeqNo \cup {NULL}
    BY DEF TypeInv, TypeOK
  <2> QED BY <2>1, <2>2 DEF Genuine
<1>3. Unopened(n, m)'
  BY DEF FlowInv, Unopened, SameSender, StaysDown, StaysOpen
<1>4. Numbering(n, m)'
  BY DEF FlowInv, Numbering, SameSender
<1>5. ASSUME NEW q \in net'[n][m] \cup events'[n][m] PROVE Genuine(n, m, q)'
  BY <1>5 DEF FlowInv, Genuine, OfStream, NoNewPacket
<1>6. Expecting(n, m)'
  <2>1. SeqNext(p.seqno) = SeqAdd(isn[n][m], 1)
    BY <1>2, SeqArithmetic, SeqModAssumption
  <2>2. receiver'[m][n].expected_seqno = SeqAdd(isn'[n][m], Len(delivered'[m][n]) + 1)
    BY <1>1, <2>1 DEF create_receiver_session
  <2> QED BY <1>1, <1>2, <2>2, NullAssumption DEF Expecting
<1>7. NoDelivery(n, m)' /\ Delivered(n, m)'
  BY <1>1 DEF FlowInv, NoDelivery, Delivered
<1> QED BY <1>3, <1>4, <1>5, <1>6, <1>7 DEF FlowInv

(***************************************************************************)
(* DATA with the expected number is the next message of the stream: two    *)
(* messages of one session never share a number.                           *)
(***************************************************************************)
LEMMA FlowDelivers ==
    ASSUME TypeInv, TypeInv', NEW n \in Node, NEW m \in Node, FlowInv(n, m),
           NEW p \in net[n][m], p.type = "DATA",
           receiver[m][n] # NULL,
           InSequence(receiver[m][n], p),
           receiver'[m][n] # NULL,
           receiver'[m][n].expected_seqno = SeqNext(p.seqno),
           receiver'[m][n].status = "OPEN",
           delivered'[m][n] = IF m \in RecvHandler THEN Append(delivered[m][n], p.payload)
                              ELSE delivered[m][n],
           handed'[n][m] = handed[n][m],
           stream'[n][m] = stream[n][m],
           isn'[n][m] = isn[n][m],
           SameSender(n, m), NoNewPacket(n, m), StaysDown(n), StaysOpen(n, m)
    PROVE  FlowInv(n, m)'
<1>1. Unopened(n, m)'
  BY DEF FlowInv, Unopened, SameSender, StaysDown, StaysOpen
<1>2. Numbering(n, m)'
  BY DEF FlowInv, Numbering, SameSender
<1>3. ASSUME NEW q \in net'[n][m] \cup events'[n][m] PROVE Genuine(n, m, q)'
  BY <1>3 DEF FlowInv, Genuine, OfStream, NoNewPacket
<1>4. CASE m \notin RecvHandler
  <2>1. Expecting(n, m)' /\ NoDelivery(n, m)' /\ Delivered(n, m)'
    BY <1>4 DEF FlowInv, Expecting, NoDelivery, Delivered
  <2> QED BY <1>1, <1>2, <1>3, <2>1 DEF FlowInv
<1>5. CASE m \in RecvHandler
  <2> DEFINE d == delivered[m][n]
             L == Len(stream[n][m])
  <2>1. PICK k \in 1 .. L :
           p.seqno = SeqAdd(isn[n][m], k) /\ p.payload = stream[n][m][k]
    BY DEF FlowInv, Genuine, OfStream
  <2>2. /\ d \in Seq(Message \cup {NoPayload}) /\ Len(d) \in Nat
        /\ L \in Nat
        /\ p.payload \in Message \cup {NoPayload}
    <3>1. delivered[m][n] \in Seq(Message \cup {NoPayload})
      BY DEF TypeInv, TypeOK
    <3>2. stream[n][m] \in Seq(Message)
      BY DEF TypeInv, TypeOK
    <3>3. p \in Packet
      BY DEF TypeInv, TypeOK
    <3>4. p.payload \in Message \cup {NoPayload}
      BY <3>3 DEF Packet
    <3>5. Len(d) \in Nat /\ L \in Nat
      BY <3>1, <3>2, LenProperties
    <3> QED BY <3>1, <3>4, <3>5
  <2>3. /\ isn[n][m] \in SeqNo
        /\ p.seqno = SeqAdd(isn[n][m], Len(d) + 1)
        /\ Len(d) <= L
    <3>1. Expecting(n, m) /\ Delivered(n, m)
      BY DEF FlowInv
    <3>2. isn[n][m] \in SeqNo \cup {NULL}
      BY DEF TypeInv, TypeOK
    <3> QED BY <1>5, <3>1, <3>2 DEF Expecting, Delivered, InSequence
  <2>4. L <= MaxSend
    <3>1. sender[n][m] # NULL
      <4> SUFFICES ASSUME sender[n][m] = NULL PROVE FALSE
        OBVIOUS
      <4>1. stream[n][m] = << >>
        BY DEF FlowInv, Unopened
      <4> QED BY <2>1, <4>1
    <3>2. L + Len(sender[n][m].data_queue) = handed[n][m]
      BY <3>1 DEF FlowInv, Numbering
    <3>3. sender[n][m].data_queue \in Seq(Message) /\ handed[n][m] \in 0 .. MaxSend
      BY <3>1 DEF TypeInv, TypeOK, SenderSession
    <3>4. Len(sender[n][m].data_queue) \in Nat
      BY <3>3, LenProperties
    <3> DEFINE q == Len(sender[n][m].data_queue)
               h == handed[n][m]
    <3>5. L + q = h /\ L \in Nat /\ q \in Nat /\ h \in 0 .. MaxSend
      BY <2>2, <3>2, <3>3, <3>4
    <3> HIDE DEF q, h, L
    <3> QED BY <3>5, SessionAssumption
  <2>5. k = Len(d) + 1
    <3>1. k \in 0 .. SeqMod - 1 /\ Len(d) + 1 \in 0 .. SeqMod - 1
      <4> DEFINE l == Len(d)
      <4>1. l \in Nat /\ L \in Nat /\ l <= L /\ k \in 1 .. L
        BY <2>1, <2>2, <2>3
      <4> HIDE DEF l, L
      <4>2. k \in 0 .. SeqMod - 1 /\ l + 1 \in 0 .. SeqMod - 1
        BY <2>4, <4>1, SessionAssumption, SeqModAssumption
      <4> QED BY <4>2 DEF l
    <3> QED BY <2>1, <2>3, <3>1, SeqInjective
  <2> HIDE DEF d, L
  <2>6. /\ delivered'[m][n] = Append(d, p.payload)
        /\ Len(Append(d, p.payload)) = Len(d) + 1
        /\ \A i \in 1 .. Len(d) : Append(d, p.payload)[i] = d[i]
        /\ Append(d, p.payload)[Len(d) + 1] = p.payload
    BY <1>5, <2>2 DEF d
  <2>7. Expecting(n, m)'
    <3>1. SeqNext(p.seqno) = SeqAdd(isn[n][m], Len(d) + 2)
      <4>1. Len(d) + 1 \in Nat /\ Len(d) + 1 + 1 < SeqMod /\ Len(d) + 1 \in 0 .. SeqMod - 1
        BY <2>1, <2>2, <2>4, <2>5, SessionAssumption, SeqModAssumption
      <4>2. p.seqno \in SeqNo /\ SeqNext(p.seqno) = SeqAdd(p.seqno, 1)
        BY <2>3, <4>1, SeqArithmetic, SeqModAssumption
      <4>3. SeqAdd(SeqAdd(isn[n][m], Len(d) + 1), 1) = SeqAdd(isn[n][m], Len(d) + 1 + 1)
        BY <2>3, <4>1, SeqAddition
      <4> QED BY <2>2, <2>3, <4>2, <4>3
    <3>2. Len(delivered'[m][n]) + 1 = Len(d) + 2
      <4>1. Len(delivered'[m][n]) = Len(d) + 1
        BY <2>6
      <4> DEFINE l == Len(d)
                 l2 == Len(delivered'[m][n])
      <4>2. l \in Nat /\ l2 = l + 1
        BY <2>2, <4>1
      <4> HIDE DEF l, l2
      <4>3. l2 + 1 = l + 2
        BY <4>2
      <4> QED BY <4>3 DEF l, l2
    <3> QED BY <2>3, <3>1, <3>2, NullAssumption DEF Expecting
  <2>8. NoDelivery(n, m)'
    BY <1>5 DEF NoDelivery
  <2>9. Delivered(n, m)'
    <3>1. Len(d) + 1 <= L
      BY <2>1, <2>2, <2>5
    <3>2. Delivered(n, m)
      BY DEF FlowInv
    <3>3. \A i \in 1 .. Len(d) + 1 : Append(d, p.payload)[i] = stream[n][m][i]
      BY <2>1, <2>2, <2>5, <2>6, <3>2 DEF Delivered, d
    <3> QED BY <2>6, <3>1, <3>3 DEF Delivered, L
  <2> QED BY <1>1, <1>2, <1>3, <2>7, <2>8, <2>9 DEF FlowInv
<1> QED BY <1>4, <1>5

-----------------------------------------------------------------------------
(***************************************************************************)
(* Steps that leave every flow as it is.                                   *)
(***************************************************************************)
LEMMA QuietStep ==
    ASSUME StreamInv, UNCHANGED history,
           \A x \in Node : StaysDown(x),
           \A x, y \in Node : SameSender(x, y) /\ SameReceiver(x, y) /\ NoNewPacket(x, y)
    PROVE  StreamInv'
<1> SUFFICES ASSUME NEW x \in Node, NEW y \in Node PROVE FlowInv(x, y)'
  BY DEF StreamInv
<1>1. FlowInv(x, y)
  BY DEF StreamInv
<1>2. StaysOpen(x, y) /\ NothingQueued(x, y)
  BY DEF SameReceiver, StaysOpen, NothingQueued, history
<1> QED BY <1>1, <1>2, FlowUnchanged DEF history

LEMMA UpOrDown ==
    ASSUME mode \in [Node -> Mode], NEW n \in Node, NEW what \in Mode \ {"up"},
           mode' = mode \/ Enter(n, what)
    PROVE  \A x \in Node : StaysDown(x)
BY DEF StaysDown, Enter

LEMMA SameSessions ==
    /\ UNCHANGED sender => \A x, y \in Node : SameSender(x, y)
    /\ UNCHANGED receiver => \A x, y \in Node : SameReceiver(x, y)
BY DEF SameSender, SameReceiver

\* What receive_callback sends back are ACKs.
LEMMA OnlyAcks ==
    ASSUME TypeInv, NEW n \in Node, NEW m \in Node, NEW p \in net[m][n], NEW packets,
           packets \in [Node -> SUBSET Packet],
           \A h \in Node : \A q \in packets[h] : q.type \in {"ACK", "FIN"},
           Consume(n, m, p, packets),
           \A x, y \in Node : events'[x][y] \subseteq events[x][y]
    PROVE  \A x, y \in Node : NoNewPacket(x, y)
<1>1. p \in Packet /\ net \in [Node -> [Node -> SUBSET Packet]]
  BY DEF TypeInv, TypeOK
<1>2. /\ \A x, y \in Node : x # n => net'[x][y] \subseteq net[x][y]
      /\ \A y \in Node : net'[n][y] \subseteq net[n][y] \cup packets[y]
  BY <1>1, ConsumeNet
<1> QED BY <1>2 DEF NoNewPacket

LEMMA CloseStream ==
    ASSUME StreamInv, NEW n \in Node, rudp_close(n)
    PROVE  StreamInv'
BY QuietStep, SameSessions DEF rudp_close, session, NoNewPacket, StaysDown

LEMMA LoseStream ==
    ASSUME TypeInv, StreamInv, NEW n \in Node, NEW m \in Node, Lose(n, m)
    PROVE  StreamInv'
<1>1. \A x, y \in Node : net'[x][y] \subseteq net[x][y]
  BY DEF Lose, TypeInv, TypeOK
<1> QED BY <1>1, QuietStep, SameSessions DEF Lose, session, NoNewPacket, StaysDown

LEMMA TimeoutStream ==
    ASSUME TypeInv, StreamInv, NEW n \in Node, NEW m \in Node, timeout_callback(n, m)
    PROVE  StreamInv'
<1> DEFINE s == sender[n][m]
<1>1. PICK p \in events[n][m] :
        IF p.type = "DATA" /\ SlotsOf(s, p) = {}
        THEN Enter(n, "undefined") /\ UNCHANGED <<sender, events, net>>
        ELSE IF RetriesLeft(s, p)
        THEN /\ sender' = [sender EXCEPT ![n][m] = CountAttempt(s, p)]
             /\ \E sent \in Sent({p}) :
                  /\ events' = [events EXCEPT ![n][m] = (@ \ {p}) \cup sent]
                  /\ Transmit(n, m, sent)
             /\ UNCHANGED mode
        ELSE /\ events' = [events EXCEPT ![n][m] = @ \ {p}]
             /\ IF n \in Handler THEN Enter(n, "exited") ELSE UNCHANGED mode
             /\ UNCHANGED <<sender, net>>
  BY DEF Register, timeout_callback, Expires
<1>2. p \in Packet /\ s \in SenderSession /\ s # NULL
  BY NullAssumption DEF TypeInv, TypeOK, NoTimers
<1>3. \A x \in Node : StaysDown(x)
  <2>1. mode' = mode \/ Enter(n, "undefined") \/ Enter(n, "exited")
    BY <1>1
  <2> QED BY <2>1 DEF TypeInv, TypeOK, StaysDown, Enter
<1>4. \A x, y \in Node : NoNewPacket(x, y)
  <2>1. net \in [Node -> [Node -> SUBSET Packet]] /\ events \in [Node -> [Node -> SUBSET Packet]]
    BY DEF TypeInv, TypeOK
  <2>2. CASE UNCHANGED <<events, net>>
    BY <2>2 DEF NoNewPacket
  <2>3. ASSUME NEW sent \in Sent({p}),
               events' = [events EXCEPT ![n][m] = (@ \ {p}) \cup sent],
               Transmit(n, m, sent)
        PROVE  \A x, y \in Node : NoNewPacket(x, y)
    <3>1. sent \subseteq events[n][m]
      BY SentType
    <3> QED BY <2>1, <2>3, <3>1 DEF NoNewPacket, Transmit
  <2>4. CASE events' = [events EXCEPT ![n][m] = @ \ {p}] /\ UNCHANGED net
    BY <2>1, <2>4 DEF NoNewPacket
  <2> QED BY <1>1, <2>2, <2>3, <2>4
<1>5. \A x, y \in Node : SameSender(x, y)
  <2>1. CASE UNCHANGED sender
    BY <2>1, SameSessions
  <2>2. CASE RetriesLeft(s, p) /\ sender' = [sender EXCEPT ![n][m] = CountAttempt(s, p)]
    <3> DEFINE t == CountAttempt(s, p)
    <3>1. /\ t \in SenderSession
          /\ t.status = s.status /\ t.seqno = s.seqno /\ t.data_queue = s.data_queue
      BY <1>2, <2>2, CountAttemptType
    <3>2. t # NULL
      BY <3>1, NullAssumption
    <3> HIDE DEF t
    <3>3. sender' = [sender EXCEPT ![n][m] = t]
      BY <2>2 DEF t
    <3> QED BY <1>2, <3>1, <3>2, <3>3 DEF TypeInv, TypeOK, SameSender
  <2> QED BY <1>1, <2>1, <2>2
<1>6. UNCHANGED <<receiver, history>>
  BY DEF timeout_callback, Expires
<1> QED BY <1>3, <1>4, <1>5, <1>6, QuietStep, SameSessions

LEMMA ReceiveMissingHalfStream ==
    ASSUME TypeInv, StreamInv, NEW n \in Node, NEW m \in Node, NEW p \in net[m][n],
           ReceiveMissingHalf(n, m, p)
    PROVE  StreamInv'
<1>1. \A x, y \in Node : NoNewPacket(x, y)
  BY OnlyAcks, NothingType DEF ReceiveMissingHalf
<1>2. \A x \in Node : StaysDown(x)
  BY UpOrDown DEF ReceiveMissingHalf, TypeInv, TypeOK, Mode
<1> QED BY <1>1, <1>2, QuietStep, SameSessions DEF ReceiveMissingHalf, session

LEMMA ReceiveFinStream ==
    ASSUME TypeInv, StreamInv, NEW n \in Node, NEW m \in Node, NEW p \in net[m][n],
           ReceiveFin(n, m, p)
    PROVE  StreamInv'
<1> DEFINE r == receiver[n][m]
           finished == [r EXCEPT !.session_finished = TRUE]
<1>1. r \in ReceiverSession
  BY DEF TypeInv, TypeOK, ReceiveFin
<1>2. SeqNext(r.expected_seqno) \in SeqNo
  <2>1. r.expected_seqno \in SeqNo
    BY <1>1 DEF ReceiverSession
  <2> QED BY <2>1, SeqArithmetic, SeqModAssumption
<1>3. \A x, y \in Node : NoNewPacket(x, y)
  <2>1. CASE Consume(n, m, p, Nothing)
    BY <2>1, OnlyAcks, NothingType DEF ReceiveFin
  <2>2. CASE Consume(n, m, p, Ack(m, SeqNext(r.expected_seqno)))
    <3> DEFINE out == Ack(m, SeqNext(r.expected_seqno))
    <3>1. out \in [Node -> SUBSET Packet] /\ \A h \in Node : \A q \in out[h] : q.type = "ACK"
      BY <1>2, AckType
    <3> HIDE DEF out
    <3>2. Consume(n, m, p, out)
      BY <2>2 DEF out
    <3> QED BY <3>1, <3>2, OnlyAcks DEF ReceiveFin
  <2> QED BY <2>1, <2>2 DEF ReceiveFin
<1>4. \A x \in Node : StaysDown(x)
  BY DEF TypeInv, TypeOK, StaysDown, ReceiveFin, FinLoop, Enter
<1>5. \A x, y \in Node : SameReceiver(x, y)
  <2>1. CASE UNCHANGED receiver
    BY <2>1, SameSessions
  <2>2. CASE receiver' = [receiver EXCEPT ![n][m] = finished]
    <3>1. /\ finished \in ReceiverSession
          /\ finished.expected_seqno = r.expected_seqno /\ finished.status = r.status
      BY <1>1 DEF ReceiverSession
    <3>2. finished # NULL /\ r # NULL
      BY <1>1, <3>1, NullAssumption
    <3> HIDE DEF finished
    <3> QED BY <2>2, <3>1, <3>2 DEF TypeInv, TypeOK, SameReceiver
  <2> QED BY <2>1, <2>2 DEF ReceiveFin
<1> QED BY <1>3, <1>4, <1>5, QuietStep, SameSessions DEF ReceiveFin

LEMMA ReceiveAckFinSentStream ==
    ASSUME TypeInv, StreamInv, NEW n \in Node, NEW m \in Node, NEW p \in net[m][n],
           ReceiveAckFinSent(n, m, p)
    PROVE  StreamInv'
<1> DEFINE s == sender[n][m]
           finished == [s EXCEPT !.session_finished = TRUE]
<1>1. s \in SenderSession
  BY DEF TypeInv, TypeOK, ReceiveAckFinSent, ReceiveAck
<1>2. \A x, y \in Node : events'[x][y] \subseteq events[x][y]
  <2>1. events \in [Node -> [Node -> SUBSET Packet]]
    BY DEF TypeInv, TypeOK
  <2>2. \/ UNCHANGED events
        \/ events' = [events EXCEPT ![n][m] = Cancel(@, s.fin_timeout_arg)]
    BY DEF ReceiveAckFinSent
  <2> QED BY <2>1, <2>2 DEF Cancel
<1>3. \A x, y \in Node : NoNewPacket(x, y)
  BY <1>2, OnlyAcks, NothingType DEF ReceiveAckFinSent
<1>4. \A x \in Node : StaysDown(x)
  BY ZenonT(30) DEF TypeInv, TypeOK, StaysDown, ReceiveAckFinSent, Enter
<1>5. \A x, y \in Node : SameSender(x, y)
  <2>1. CASE UNCHANGED sender
    BY <2>1, SameSessions
  <2>2. CASE sender' = [sender EXCEPT ![n][m] = finished]
    <3>1. /\ finished \in SenderSession
          /\ finished.status = s.status /\ finished.seqno = s.seqno
          /\ finished.data_queue = s.data_queue
      BY <1>1 DEF SenderSession
    <3>2. finished # NULL /\ s # NULL
      BY <1>1, <3>1, NullAssumption
    <3> HIDE DEF finished
    <3> QED BY <2>2, <3>1, <3>2 DEF TypeInv, TypeOK, SameSender
  <2> QED BY <2>1, <2>2 DEF ReceiveAckFinSent
<1> QED BY <1>3, <1>4, <1>5, QuietStep, SameSessions DEF ReceiveAckFinSent

-----------------------------------------------------------------------------
(***************************************************************************)
(* Steps of a receiver.  Only the flow from m to n can notice them.        *)
(***************************************************************************)
LEMMA OneReceiver ==
    ASSUME TypeInv, NEW n \in Node, NEW m \in Node, NEW r,
           receiver' = [receiver EXCEPT ![n][m] = r]
    PROVE  /\ \A x, y \in Node : <<x, y>> # <<m, n>> => SameReceiver(x, y)
           /\ receiver'[n][m] = r
BY DEF TypeInv, TypeOK, SameReceiver

LEMMA SynStream ==
    ASSUME TypeInv, TypeInv', StreamInv,
           NEW n \in Node, NEW m \in Node, NEW p \in net[m][n], p.type = "SYN",
           MayRestart(receiver[n][m]),
           receiver' = [receiver EXCEPT ![n][m] = create_receiver_session(SeqNext(p.seqno))],
           Consume(n, m, p, Ack(m, SeqNext(p.seqno))),
           UNCHANGED <<mode, sender, events, history>>
    PROVE  StreamInv'
<1>1. \A x, y \in Node : NoNewPacket(x, y)
  <2> DEFINE out == Ack(m, SeqNext(p.seqno))
  <2>1. p.seqno \in SeqNo
    BY DEF TypeInv, TypeOK, Packet
  <2>2. SeqNext(p.seqno) \in SeqNo
    BY <2>1, SeqArithmetic, SeqModAssumption
  <2>3. out \in [Node -> SUBSET Packet] /\ \A h \in Node : \A q \in out[h] : q.type = "ACK"
    BY <2>2, AckType
  <2> HIDE DEF out
  <2>4. Consume(n, m, p, out)
    BY DEF out
  <2> QED BY <2>3, <2>4, OnlyAcks
<1>2. \A x, y \in Node : SameSender(x, y) /\ StaysDown(x) /\ NothingQueued(x, y)
  BY SameSessions DEF StaysDown, NothingQueued, history
<1>3. /\ \A x, y \in Node : <<x, y>> # <<m, n>> => SameReceiver(x, y)
      /\ receiver'[n][m] = create_receiver_session(SeqNext(p.seqno))
  BY OneReceiver, ZenonT(30)
<1>a. \A x, y \in Node : StaysOpen(x, y)
  <2>1. p.seqno \in SeqNo
    BY DEF TypeInv, TypeOK, Packet
  <2>2. create_receiver_session(SeqNext(p.seqno)) # NULL
    BY <2>1, SeqArithmetic, SeqModAssumption, CreateReceiverType, NullAssumption
  <2> QED BY <1>3, <2>2 DEF SameReceiver, StaysOpen
<1> SUFFICES ASSUME NEW x \in Node, NEW y \in Node PROVE FlowInv(x, y)'
  BY DEF StreamInv
<1>4. FlowInv(x, y)
  BY DEF StreamInv
<1>5. CASE <<x, y>> # <<m, n>>
  BY <1>1, <1>2, <1>3, <1>a, <1>4, <1>5, FlowUnchanged DEF history
<1>6. CASE <<x, y>> = <<m, n>>
  BY <1>1, <1>2, <1>3, <1>a, <1>4, <1>6, FlowStarts DEF history
<1> QED BY <1>5, <1>6

LEMMA ReceiveNoSessionStream ==
    ASSUME FaithfulNumbers, TypeInv, TypeInv', StreamInv,
           NEW n \in Node, NEW m \in Node, NEW p \in net[m][n],
           ReceiveNoSession(n, m, p)
    PROVE  StreamInv'
<1>1. CASE /\ Consume(n, m, p, Nothing)
           /\ UNCHANGED session
           /\ mode' = mode \/ Enter(n, "crashed")
  <2>1. \A x, y \in Node : NoNewPacket(x, y)
    BY <1>1, OnlyAcks, NothingType DEF ReceiveNoSession
  <2>2. \A x \in Node : StaysDown(x)
    BY <1>1, UpOrDown DEF TypeInv, TypeOK, Mode
  <2> QED BY <1>1, <2>1, <2>2, QuietStep, SameSessions DEF ReceiveNoSession, session
<1>2. CASE /\ p.type = "SYN"
           /\ receiver' = [receiver EXCEPT ![n][m] = create_receiver_session(SeqNext(p.seqno))]
           /\ Consume(n, m, p, Only(m, {create_rudp_packet(SynReply(n), SeqNext(p.seqno),
                                                           NoPayload)}))
           /\ UNCHANGED <<mode, sender>>
  <2>1. SynReply(n) = "ACK"
    BY DEF FaithfulNumbers, SynReply, SynLine
  <2>2. Consume(n, m, p, Ack(m, SeqNext(p.seqno)))
    BY <1>2, <2>1 DEF Ack
  <2>3. MayRestart(receiver[n][m])
    BY DEF ReceiveNoSession, HasSession, MayRestart
  <2> QED BY <1>2, <2>2, <2>3, SynStream DEF ReceiveNoSession
<1> QED BY <1>1, <1>2 DEF ReceiveNoSession

LEMMA ReceiveSynStream ==
    ASSUME TypeInv, TypeInv', StreamInv,
           NEW n \in Node, NEW m \in Node, NEW p \in net[m][n], ReceiveSyn(n, m, p)
    PROVE  StreamInv'
<1>1. CASE Consume(n, m, p, Nothing) /\ UNCHANGED receiver
  <2>1. \A x, y \in Node : NoNewPacket(x, y)
    BY <1>1, OnlyAcks, NothingType DEF ReceiveSyn
  <2> QED BY <1>1, <2>1, QuietStep, SameSessions DEF ReceiveSyn, StaysDown
<1>2. CASE /\ MayRestart(receiver[n][m])
           /\ receiver' = [receiver EXCEPT ![n][m] = create_receiver_session(SeqNext(p.seqno))]
           /\ Consume(n, m, p, Ack(m, SeqNext(p.seqno)))
  BY <1>2, SynStream DEF ReceiveSyn
<1> QED BY <1>1, <1>2 DEF ReceiveSyn

LEMMA ReceiveDataStream ==
    ASSUME TypeInv, TypeInv', StreamInv,
           NEW n \in Node, NEW m \in Node, NEW p \in net[m][n], ReceiveData(n, m, p)
    PROVE  StreamInv'
<1> DEFINE r == receiver[n][m]
           r2 == [r EXCEPT !.status = "OPEN", !.expected_seqno = SeqNext(p.seqno)]
           out == Ack(m, SeqNext(p.seqno))
<1>1. p.seqno \in SeqNo /\ r \in ReceiverSession
  BY DEF TypeInv, TypeOK, Packet, ReceiveData
<1>2. out \in [Node -> SUBSET Packet] /\ \A h \in Node : \A q \in out[h] : q.type = "ACK"
  <2>1. SeqNext(p.seqno) \in SeqNo
    BY <1>1, SeqArithmetic, SeqModAssumption
  <2> QED BY <2>1, AckType
<1>3. Consume(n, m, p, out) \/ Consume(n, m, p, Nothing)
  BY DEF ReceiveData
<1> HIDE DEF out
<1>4. \A x, y \in Node : NoNewPacket(x, y)
  <2>1. CASE Consume(n, m, p, out)
    BY <1>2, <2>1, OnlyAcks DEF ReceiveData
  <2>2. CASE Consume(n, m, p, Nothing)
    BY <2>2, NothingType, OnlyAcks DEF ReceiveData
  <2> QED BY <1>3, <2>1, <2>2
<1>5. \A x, y \in Node : SameSender(x, y) /\ StaysDown(x)
  BY SameSessions DEF ReceiveData, StaysDown
<1>6. CASE UNCHANGED <<receiver, delivered>>
  BY <1>4, <1>5, <1>6, QuietStep, SameSessions DEF ReceiveData, history
<1>7. CASE /\ InSequence(r, p)
           /\ receiver' = [receiver EXCEPT ![n][m] = r2]
           /\ IF n \in RecvHandler
              THEN delivered' = [delivered EXCEPT ![n][m] = Append(@, p.payload)]
              ELSE UNCHANGED delivered
  <2>1. r2 \in ReceiverSession /\ r2.expected_seqno = SeqNext(p.seqno) /\ r2.status = "OPEN"
    <3>1. SeqNext(p.seqno) \in SeqNo
      BY <1>1, SeqArithmetic, SeqModAssumption
    <3> QED BY <1>1, <3>1 DEF ReceiverSession
  <2>2. r2 # NULL
    BY <2>1, NullAssumption
  <2> HIDE DEF r2
  <2>3. /\ \A x, y \in Node : <<x, y>> # <<m, n>> => SameReceiver(x, y)
        /\ receiver'[n][m] = r2
    <3>1. receiver' = [receiver EXCEPT ![n][m] = r2]
      BY <1>7
    <3>2. receiver \in [Node -> [Node -> ReceiverSession \cup {NULL}]]
      BY DEF TypeInv, TypeOK
    <3> QED BY <3>1, <3>2 DEF SameReceiver
  <2>4. /\ \A x, y \in Node : <<x, y>> # <<m, n>> => delivered'[y][x] = delivered[y][x]
        /\ delivered'[n][m] = IF n \in RecvHandler THEN Append(delivered[n][m], p.payload)
                             ELSE delivered[n][m]
    <3>1. delivered \in [Node -> [Node -> Seq(Message \cup {NoPayload})]]
      BY DEF TypeInv, TypeOK
    <3>2. CASE n \in RecvHandler
      <4> DEFINE d == Append(delivered[n][m], p.payload)
      <4>1. delivered' = [delivered EXCEPT ![n][m] = d]
        BY <1>7, <3>2
      <4> HIDE DEF d
      <4>2. /\ \A x, y \in Node : <<x, y>> # <<m, n>> => delivered'[y][x] = delivered[y][x]
            /\ delivered'[n][m] = d
        BY <3>1, <4>1
      <4> QED BY <3>2, <4>2 DEF d
    <3>3. CASE n \notin RecvHandler
      BY <1>7, <3>3
    <3> QED BY <3>2, <3>3
  <2>5. UNCHANGED <<handed, stream, isn>> /\ p.type = "DATA" /\ receiver[n][m] # NULL
    BY DEF ReceiveData
  <2> SUFFICES ASSUME NEW x \in Node, NEW y \in Node PROVE FlowInv(x, y)'
    BY DEF StreamInv
  <2>6. FlowInv(x, y)
    BY DEF StreamInv
  <2>a. StaysOpen(x, y) /\ NothingQueued(x, y)
    BY <2>2, <2>3, <2>5 DEF SameReceiver, StaysOpen, NothingQueued
  <2>7. CASE <<x, y>> # <<m, n>>
    BY <1>4, <1>5, <2>3, <2>4, <2>5, <2>6, <2>a, <2>7, FlowUnchanged
  <2>8. CASE <<x, y>> = <<m, n>>
    BY <1>4, <1>5, <1>7, <2>1, <2>2, <2>3, <2>4, <2>5, <2>6, <2>a, <2>8, FlowDelivers
  <2> QED BY <2>7, <2>8
<1> QED BY <1>6, <1>7 DEF ReceiveData

-----------------------------------------------------------------------------
(***************************************************************************)
(* Steps that number messages.  Only the flow from n to m grows.           *)
(***************************************************************************)
LEMMA FlushNumbers ==
    ASSUME NEW s \in SenderSession, NEW q \in NewPackets(s)
    PROVE  /\ q.type = "DATA"
           /\ \E k \in 1 .. Len(Moved(s)) :
                 q.seqno = SeqAdd(s.seqno, k) /\ q.payload = Moved(s)[k]
<1>1. PICK i \in Filled(s) : q = NewPacket(s, i)
  BY DEF NewPackets
<1>2. /\ Rank(s, i) \in 1 .. Len(Moved(s))
      /\ q = create_rudp_packet("DATA", SeqAdd(s.seqno, Rank(s, i)), Moved(s)[Rank(s, i)])
  BY <1>1, NewPacketType
<1> QED BY <1>2 DEF create_rudp_packet

(***************************************************************************)
(* A flush of the queue: s is the session at the time the loop starts.     *)
(***************************************************************************)
Flushes(n, m, s) ==
    /\ sender[n][m] # NULL
    /\ sender[n][m].status # "FIN_SENT"
    /\ sender[n][m].seqno = s.seqno
    /\ sender[n][m].data_queue = s.data_queue
    /\ sender'[n][m] # NULL
    /\ sender'[n][m].data_queue = Remaining(s)
    /\ sender'[n][m].status # "FIN_SENT" =>
          sender'[n][m].seqno = SeqAdd(s.seqno, Len(Moved(s)))
    /\ stream' = [stream EXCEPT ![n][m] = @ \o Moved(s)]
    /\ \A q \in net'[n][m] \cup events'[n][m] :
          \/ q \in net[n][m] \cup events[n][m]
          \/ q.type \in {"ACK", "FIN"}
          \/ q \in NewPackets(s)

LEMMA FlushStep ==
    ASSUME TypeInv, TypeInv', StreamInv, NEW n \in Node, NEW m \in Node,
           NEW s \in SenderSession, Flushes(n, m, s),
           UNCHANGED <<handed, isn, delivered>>,
           \A x, y \in Node : SameReceiver(x, y) /\ StaysDown(x),
           \A x, y \in Node : <<x, y>> # <<n, m>> => SameSender(x, y) /\ NoNewPacket(x, y)
    PROVE  StreamInv'
<1> USE DEF Flushes
<1> DEFINE new == Moved(s)
           old == stream[n][m]
<1>1. /\ new \in Seq(Message) /\ Len(new) \in Nat /\ Len(Remaining(s)) \in Nat
      /\ Len(new) + Len(Remaining(s)) = Len(s.data_queue)
  <2>1. /\ new \in Seq(Message) /\ Remaining(s) \in Seq(Message)
        /\ Len(new) + Len(Remaining(s)) = Len(s.data_queue)
    BY QueueSplit
  <2> QED BY <2>1, LenProperties
<1>2. \A q \in NewPackets(s) :
         /\ q.type = "DATA"
         /\ \E k \in 1 .. Len(new) :
               q.seqno = SeqAdd(s.seqno, k) /\ q.payload = new[k]
  BY FlushNumbers
<1>3. old \in Seq(Message) /\ handed[n][m] \in Nat
  BY SessionAssumption DEF TypeInv, TypeOK
<1>4. /\ Len(old \o new) = Len(old) + Len(new)
      /\ \A k \in 1 .. Len(old) : (old \o new)[k] = old[k]
      /\ \A k \in 1 .. Len(new) : (old \o new)[Len(old) + k] = new[k]
  BY <1>1, <1>3, StreamConcat
<1>5. /\ stream'[n][m] = old \o new
      /\ \A x, y \in Node : <<x, y>> # <<n, m>> => stream'[x][y] = stream[x][y]
  BY SMTT(30) DEF TypeInv, TypeOK
<1>6. handed'[n][m] - handed[n][m]
         = Len(new) + Len(sender'[n][m].data_queue) - Len(sender[n][m].data_queue)
  <2> DEFINE a == Len(new)
             b == Len(Remaining(s))
             c == Len(s.data_queue)
             d == handed[n][m]
  <2>1. a + b = c /\ a \in Nat /\ b \in Nat /\ d \in Nat
    BY <1>1, <1>3
  <2> HIDE DEF a, b, c, d
  <2>2. d - d = a + b - c
    BY <2>1
  <2> QED BY <2>2 DEF a, b, c, d
<1> HIDE DEF new, old
<1>7. /\ Len(stream'[n][m]) = Len(stream[n][m]) + Len(new)
      /\ \A k \in 1 .. Len(stream[n][m]) : stream'[n][m][k] = stream[n][m][k]
      /\ \A k \in 1 .. Len(new) : stream'[n][m][Len(stream[n][m]) + k] = new[k]
  <2>1. stream[n][m] = old
    BY DEF old
  <2> QED BY <1>4, <1>5, <2>1
<1>8. sender'[n][m].status # "FIN_SENT" =>
         sender'[n][m].seqno = SeqAdd(sender[n][m].seqno, Len(new))
  BY DEF new
<1> SUFFICES ASSUME NEW x \in Node, NEW y \in Node PROVE FlowInv(x, y)'
  BY DEF StreamInv
<1>9. FlowInv(x, y)
  BY DEF StreamInv
<1>10. CASE <<x, y>> # <<n, m>>
  <2>1. StaysOpen(x, y) /\ NothingQueued(x, y)
    BY DEF SameReceiver, StaysOpen, NothingQueued
  <2> QED BY <1>5, <1>9, <1>10, <2>1, FlowUnchanged
<1>11. CASE x = n /\ y = m
  <2>1. FlowInv(n, m)
    BY <1>9, <1>11
  <2>2. \A q \in net'[n][m] \cup events'[n][m] :
           \/ q \in net[n][m] \cup events[n][m]
           \/ q.type \in {"ACK", "FIN"}
           \/ /\ q.type = "DATA"
              /\ \E k \in 1 .. Len(new) :
                    q.seqno = SeqAdd(sender[n][m].seqno, k) /\ q.payload = new[k]
    BY <1>2
  <2>3. isn'[n][m] = isn[n][m] /\ delivered'[m][n] = delivered[m][n] /\ SameReceiver(n, m)
    OBVIOUS
  <2>4. FlowInv(n, m)'
    BY <1>1, <1>6, <1>7, <1>8, <2>1, <2>2, <2>3, FlowGrows
  <2> QED BY <1>11, <2>4
<1> QED BY <1>10, <1>11

LEMMA ReceiveAckSynSentStream ==
    ASSUME FaithfulNumbers, TypeInv, TypeInv', StreamInv,
           NEW n \in Node, NEW m \in Node, NEW p \in net[m][n], ReceiveAckSynSent(n, m, p)
    PROVE  StreamInv'
<1> DEFINE s == sender[n][m]
<1>1. s \in SenderSession /\ s # NULL /\ s.status # "FIN_SENT"
  BY DEF TypeInv, TypeOK, ReceiveAckSynSent, ReceiveAck
<1>2. CASE Consume(n, m, p, Nothing) /\ UNCHANGED <<sender, events, stream>>
  <2>1. \A x, y \in Node : NoNewPacket(x, y)
    BY <1>2, OnlyAcks, NothingType
  <2> QED BY <1>2, <2>1, QuietStep, SameSessions DEF ReceiveAckSynSent, StaysDown, history
<1>3. ASSUME NEW fresh \in Sent(NewPackets(s)),
             sender' = [sender EXCEPT ![n][m] =
                           Untimed(OpenSession(s), NewPackets(s) \ fresh)],
             events' = [events EXCEPT ![n][m] = Cancel(@, s.syn_timeout_arg) \cup fresh],
             stream' = [stream EXCEPT ![n][m] = @ \o Moved(s)],
             Consume(n, m, p, Only(m, fresh))
      PROVE  StreamInv'
  <2> DEFINE opened == OpenSession(s)
             t == Untimed(opened, NewPackets(s) \ fresh)
  <2>0. /\ opened \in SenderSession
        /\ opened.seqno = SeqAdd(s.seqno, Len(Moved(s)))
        /\ opened.data_queue = Remaining(s)
    BY <1>1, OpenSessionType DEF FaithfulNumbers
  <2>3. fresh \subseteq Packet /\ fresh \subseteq NewPackets(s)
    <3>1. NewPackets(s) \subseteq Packet
      BY <1>1, FlushQueueType
    <3> QED BY <3>1, SentType
  <2> HIDE DEF opened
  <2>1. /\ t \in SenderSession
        /\ t.seqno = SeqAdd(s.seqno, Len(Moved(s)))
        /\ t.data_queue = Remaining(s)
    BY <2>0, UntimedType
  <2>2. t # NULL
    BY <2>1, NullAssumption
  <2> HIDE DEF t
  <2>4. /\ sender' = [sender EXCEPT ![n][m] = t]
        /\ events' = [events EXCEPT ![n][m] = Cancel(@, s.syn_timeout_arg) \cup fresh]
        /\ Consume(n, m, p, Only(m, fresh))
    BY <1>3 DEF t, opened
  <2>5. /\ \A x, y \in Node : <<x, y>> # <<n, m>> =>
              net'[x][y] \subseteq net[x][y] /\ events'[x][y] \subseteq events[x][y]
        /\ net'[n][m] \subseteq net[n][m] \cup fresh
        /\ events'[n][m] \subseteq events[n][m] \cup fresh
    <3>1. /\ Only(m, fresh) \in [Node -> SUBSET Packet]
          /\ \A h \in Node : h # m => Only(m, fresh)[h] = {}
          /\ Only(m, fresh)[m] = fresh
      BY <2>3, OnlyType
    <3>2. net \in [Node -> [Node -> SUBSET Packet]] /\ events \in [Node -> [Node -> SUBSET Packet]]
      BY DEF TypeInv, TypeOK
    <3>3. p \in Packet
      BY <3>2
    <3>4. /\ \A x, y \in Node : x # n => net'[x][y] \subseteq net[x][y]
          /\ \A y \in Node : net'[n][y] \subseteq net[n][y] \cup Only(m, fresh)[y]
      BY <2>4, <3>1, <3>2, <3>3, ConsumeNet
    <3>5. /\ \A x, y \in Node : <<x, y>> # <<n, m>> => events'[x][y] \subseteq events[x][y]
          /\ events'[n][m] \subseteq events[n][m] \cup fresh
      BY <2>4, <3>2 DEF Cancel
    <3> QED BY <3>1, <3>4, <3>5
  <2>6. /\ \A x, y \in Node : <<x, y>> # <<n, m>> => SameSender(x, y) /\ NoNewPacket(x, y)
        /\ sender'[n][m] = t
    BY <2>4, <2>5 DEF TypeInv, TypeOK, SameSender, NoNewPacket
  <2>7. \A x, y \in Node : SameReceiver(x, y) /\ StaysDown(x)
    BY SameSessions DEF ReceiveAckSynSent, StaysDown
  <2>8. \A q \in net'[n][m] \cup events'[n][m] :
           q \in net[n][m] \cup events[n][m] \/ q \in NewPackets(s)
    BY <2>3, <2>5
  <2>9. Flushes(n, m, s)
    BY <1>1, <1>3, <2>1, <2>2, <2>6, <2>8 DEF Flushes
  <2> QED BY <1>1, <2>6, <2>7, <2>9, FlushStep DEF ReceiveAckSynSent
<1> QED BY <1>2, <1>3 DEF Register, ReceiveAckSynSent

LEMMA SlideAndFillStream ==
    ASSUME TypeInv, TypeInv', StreamInv,
           NEW n \in Node, NEW m \in Node, NEW p \in net[m][n],
           sender[n][m] # NULL, sender[n][m].status = "OPEN", SlideAndFill(n, m, p),
           UNCHANGED <<sessions_list, receiver, handed, isn, delivered>>
    PROVE  StreamInv'
<1> DEFINE s == ShiftWindow(sender[n][m])
           slid == [sender[n] EXCEPT ![m] = FlushQueue(s)]
           fins == {h \in Visited(n) : close_requested[n] /\ Drained(slid[h])}
           out == [h \in Node |-> (IF h = m THEN NewPackets(s) ELSE {})
                                  \cup (IF h \in fins THEN {FinPacket(slid[h])} ELSE {})]
           done == [events[n] EXCEPT ![m] = Cancel(@, sender[n][m].data_timeout_arg[0])]
           after == [h \in Node |-> IF h \in fins THEN SendFin(slid[h]) ELSE slid[h]]
<1>1. sender[n][m] \in SenderSession
  BY DEF TypeInv, TypeOK
<1>2. /\ s \in SenderSession
      /\ s.seqno = sender[n][m].seqno
      /\ s.data_queue = sender[n][m].data_queue
  BY <1>1, ShiftWindowType
<1>3. /\ FlushQueue(s) \in SenderSession
      /\ FlushQueue(s).data_queue = Remaining(s)
      /\ FlushQueue(s).seqno = SeqAdd(s.seqno, Len(Moved(s)))
      /\ NewPackets(s) \subseteq Packet
  BY <1>2, FlushQueueType
<1>4. /\ \E sent \in SentTo(out) :
            /\ sender' = [sender EXCEPT ![n] =
                   [h \in Node |-> IF after[h] = NULL THEN NULL
                                   ELSE Untimed(after[h], out[h] \ sent[h])]]
            /\ events' = [events EXCEPT ![n] = [h \in Node |-> done[h] \cup sent[h]]]
            /\ Consume(n, m, p, sent)
      /\ stream' = [stream EXCEPT ![n][m] = @ \o Moved(s)]
      /\ mode' = mode \/ Enter(n, "crashed")
  BY DEF Register, SlideAndFill
<1>5. \A h \in fins : sender[n][h] # NULL
  <2> TAKE h \in fins
  <2>1. PICK i \in DOMAIN sessions_list[n] :
          h = sessions_list[n][i] /\ \A j \in 1 .. i : sender[n][sessions_list[n][j]] # NULL
    BY DEF Visited
  <2>2. i \in 1 .. i
    <3>1. sessions_list[n] \in Seq(Node)
      BY DEF TypeInv, TypeOK
    <3>2. DOMAIN sessions_list[n] = 1 .. Len(sessions_list[n]) /\ Len(sessions_list[n]) \in Nat
      BY <3>1, LenProperties
    <3> QED BY <3>2
  <2> QED BY <2>1, <2>2
<1> HIDE DEF s
<1>6. /\ slid[m] = FlushQueue(s)
      /\ \A h \in Node : h # m => slid[h] = sender[n][h]
      /\ \A h \in Node : sender[n][h] # NULL => slid[h] \in SenderSession
  BY <1>1, <1>3 DEF TypeInv, TypeOK
<1> HIDE DEF slid, fins
<1>7. \A h \in fins \cap Node :
         /\ SendFin(slid[h]) \in SenderSession
         /\ SendFin(slid[h]).status = "FIN_SENT"
         /\ SendFin(slid[h]).data_queue = slid[h].data_queue
         /\ FinPacket(slid[h]) \in Packet
         /\ FinPacket(slid[h]).type = "FIN"
  <2>1. \A h \in Node : FinPacket(slid[h]).type = "FIN"
    BY DEF FinPacket, create_rudp_packet
  <2> QED BY <1>5, <1>6, <2>1, SendFinType
<1>8. out \in [Node -> SUBSET Packet]
  BY <1>3, <1>7
<1>9. \A h \in Node : \A q \in out[h] :
         q.type = "FIN" \/ (h = m /\ q \in NewPackets(s))
  BY <1>7
<1>10. \A h \in Node : done[h] \subseteq events[n][h]
  BY DEF TypeInv, TypeOK, Cancel
<1>11. /\ \A h \in Node :
             /\ h # m => (after[h] = NULL <=> sender[n][h] = NULL)
             /\ h # m /\ sender[n][h] # NULL =>
                   /\ after[h].data_queue = sender[n][h].data_queue
                   /\ \/ after[h].status = "FIN_SENT"
                      \/ after[h] = sender[n][h]
       /\ after[m] # NULL
       /\ \A h \in Node : after[h] # NULL => after[h] \in SenderSession
  <2>1. /\ NULL \notin SenderSession
        /\ slid[m] \in SenderSession
        /\ \A h \in Node : slid[h] # NULL => slid[h] \in SenderSession
    BY <1>3, <1>6, NullAssumption
  <2>2. \A h \in Node :
           /\ h \in fins => after[h] = SendFin(slid[h])
           /\ h \notin fins => after[h] = slid[h]
    OBVIOUS
  <2> HIDE DEF after
  <2> QED BY <1>5, <1>6, <1>7, <2>1, <2>2
<1>12. /\ after[m].data_queue = Remaining(s)
       /\ after[m].status # "FIN_SENT" => after[m].seqno = SeqAdd(s.seqno, Len(Moved(s)))
  BY <1>3, <1>6, <1>7, NullAssumption
<1> HIDE DEF out, done, after
<1>a. PICK sent \in SentTo(out) :
         /\ sender' = [sender EXCEPT ![n] =
                [h \in Node |-> IF after[h] = NULL THEN NULL
                                ELSE Untimed(after[h], out[h] \ sent[h])]]
         /\ events' = [events EXCEPT ![n] = [h \in Node |-> done[h] \cup sent[h]]]
         /\ Consume(n, m, p, sent)
  BY <1>4
<1>b. sent \in [Node -> SUBSET Packet] /\ \A h \in Node : sent[h] \subseteq out[h]
  BY <1>8, SentToType
<1> DEFINE row == [h \in Node |-> IF after[h] = NULL THEN NULL
                                  ELSE Untimed(after[h], out[h] \ sent[h])]
<1>c. \A h \in Node :
         /\ row[h] = NULL <=> after[h] = NULL
         /\ after[h] # NULL =>
               /\ row[h].status = after[h].status
               /\ row[h].seqno = after[h].seqno
               /\ row[h].data_queue = after[h].data_queue
  <2> SUFFICES ASSUME NEW h \in Node, after[h] # NULL
               PROVE  LET t == Untimed(after[h], out[h] \ sent[h])
                      IN /\ t # NULL
                         /\ t.status = after[h].status
                         /\ t.seqno = after[h].seqno
                         /\ t.data_queue = after[h].data_queue
    OBVIOUS
  <2> QED BY <1>11, UntimedType
<1>d. sender' = [sender EXCEPT ![n] = row]
  BY <1>a
<1> HIDE DEF row
<1>13. \A x, y \in Node :
          /\ x # n => sender'[x][y] = sender[x][y] /\ events'[x][y] = events[x][y]
          /\ sender'[n][y] = row[y]
          /\ events'[n][y] = done[y] \cup sent[y]
  <2>1. /\ \A x, y \in Node : x # n => sender'[x][y] = sender[x][y]
        /\ \A y \in Node : sender'[n][y] = row[y]
    BY <1>d DEF TypeInv, TypeOK
  <2> DEFINE timers == [h \in Node |-> done[h] \cup sent[h]]
  <2>2. \A y \in Node : timers[y] = done[y] \cup sent[y]
    OBVIOUS
  <2>3. events' = [events EXCEPT ![n] = timers]
    BY <1>a
  <2> HIDE DEF timers
  <2>4. /\ \A x, y \in Node : x # n => events'[x][y] = events[x][y]
        /\ \A y \in Node : events'[n][y] = timers[y]
    BY <2>3 DEF TypeInv, TypeOK
  <2> QED BY <2>1, <2>2, <2>4
<1>14. /\ \A x, y \in Node : x # n => net'[x][y] \subseteq net[x][y]
       /\ \A y \in Node : net'[n][y] \subseteq net[n][y] \cup out[y]
  <2>1. net \in [Node -> [Node -> SUBSET Packet]]
    BY DEF TypeInv, TypeOK
  <2>2. p \in Packet
    BY <2>1
  <2>3. \A y \in Node : net'[n][y] \subseteq net[n][y] \cup sent[y]
    BY <1>a, <1>b, <2>1, <2>2, ConsumeNet
  <2> QED BY <1>a, <1>b, <2>1, <2>2, <2>3, ConsumeNet
<1>15. ASSUME NEW x \in Node, NEW y \in Node, <<x, y>> # <<n, m>>
       PROVE  SameSender(x, y) /\ NoNewPacket(x, y)
  <2>1. CASE x # n
    BY <1>13, <1>14, <2>1 DEF SameSender, NoNewPacket
  <2>2. CASE x = n /\ y # m
    <3>1. SameSender(x, y)
      BY <1>c, <1>11, <1>13, <2>2 DEF SameSender
    <3>2. NoNewPacket(x, y)
      BY <1>b, <1>9, <1>10, <1>13, <1>14, <2>2 DEF NoNewPacket
    <3> QED BY <3>1, <3>2
  <2> QED BY <1>15, <2>1, <2>2
<1>16. \A q \in net'[n][m] \cup events'[n][m] :
          \/ q \in net[n][m] \cup events[n][m]
          \/ q.type \in {"ACK", "FIN"}
          \/ q \in NewPackets(s)
  BY <1>b, <1>9, <1>10, <1>13, <1>14
<1>17. \A x, y \in Node : SameReceiver(x, y) /\ StaysDown(x)
  BY <1>4, SameSessions DEF TypeInv, TypeOK, StaysDown, Enter
<1>18. /\ sender'[n][m] # NULL
       /\ sender'[n][m].data_queue = Remaining(s)
       /\ sender'[n][m].status # "FIN_SENT" =>
             sender'[n][m].seqno = SeqAdd(s.seqno, Len(Moved(s)))
  BY <1>c, <1>11, <1>12, <1>13
<1>19. /\ stream' = [stream EXCEPT ![n][m] = @ \o Moved(s)]
       /\ UNCHANGED <<handed, isn, delivered>>
       /\ sender[n][m].status # "FIN_SENT"
  BY <1>4
<1>20. \A x, y \in Node : <<x, y>> # <<n, m>> => SameSender(x, y) /\ NoNewPacket(x, y)
  BY <1>15
<1>21. Flushes(n, m, s)
  BY <1>2, <1>16, <1>18, <1>19 DEF Flushes
<1> QED BY <1>2, <1>17, <1>19, <1>20, <1>21, FlushStep

LEMMA ReceiveAckOpenStream ==
    ASSUME TypeInv, TypeInv', StreamInv,
           NEW n \in Node, NEW m \in Node, NEW p \in net[m][n], ReceiveAckOpen(n, m, p)
    PROVE  StreamInv'
<1>1. CASE SlideAndFill(n, m, p)
  BY <1>1, SlideAndFillStream DEF ReceiveAckOpen, ReceiveAck
<1>2. CASE /\ Consume(n, m, p, Nothing)
           /\ mode' = mode \/ Enter(n, "undefined")
           /\ UNCHANGED <<sender, events, stream>>
  <2>1. \A x, y \in Node : NoNewPacket(x, y)
    BY <1>2, OnlyAcks, NothingType
  <2>2. \A x \in Node : StaysDown(x)
    BY <1>2, UpOrDown DEF TypeInv, TypeOK, Mode
  <2> QED BY <1>2, <2>1, <2>2, QuietStep, SameSessions DEF ReceiveAckOpen, history
<1> QED BY <1>1, <1>2 DEF ReceiveAckOpen

-----------------------------------------------------------------------------
(***************************************************************************)
(* rudp_sendto.  The flow of a session not yet opened is empty: it can     *)
(* take any initial number.                                                *)
(***************************************************************************)
LEMMA FlowOpens ==
    ASSUME TypeInv, NEW n \in Node, NEW m \in Node, FlowInv(n, m),
           NEW seqno \in SeqNo,
           mode[n] = "up", sender[n][m] = NULL, StaysOpen(n, m),
           stream'[n][m] = stream[n][m],
           isn'[n][m] = seqno,
           delivered'[m][n] = delivered[m][n],
           SameReceiver(n, m),
           \/ sender'[n][m] = NULL /\ mode'[n] # "up" /\ handed'[n][m] = handed[n][m]
           \/ /\ sender'[n][m] # NULL
              /\ sender'[n][m].seqno = seqno
              /\ Len(sender'[n][m].data_queue) = handed'[n][m],
           \A q \in net'[n][m] \cup events'[n][m] :
              q \in net[n][m] \cup events[n][m] \/ (q.type = "SYN" /\ q.seqno = seqno)
    PROVE  FlowInv(n, m)'
<1>1. /\ isn[n][m] = NULL /\ stream[n][m] = << >>
      /\ receiver[n][m] = NULL => handed[n][m] = 0
  BY DEF FlowInv, Unopened
<1>2. seqno # NULL /\ SeqAdd(seqno, 0) = seqno
  BY NullAssumption, SeqModAssumption DEF SeqNo, SeqAdd
<1>3. delivered[m][n] = << >>
  BY <1>1, <1>2 DEF FlowInv, Expecting, NoDelivery
<1>4. Len(<< >>) = 0
  OBVIOUS
<1>5. Unopened(n, m)'
  BY <1>1 DEF Unopened, StaysOpen
<1>6. Numbering(n, m)'
  <2>1. Len(stream'[n][m]) = 0
    BY <1>1, <1>4
  <2>2. CASE sender'[n][m] # NULL
    <3>1. 0 + Len(sender'[n][m].data_queue) = handed'[n][m]
      BY <2>2
    <3> QED BY <1>2, <2>1, <2>2, <3>1 DEF Numbering
  <2> QED BY <2>2 DEF Numbering
<1>7. ASSUME NEW q \in net'[n][m] \cup events'[n][m] PROVE Genuine(n, m, q)'
  <2>1. CASE q \in net[n][m] \cup events[n][m]
    <3>1. Genuine(n, m, q)
      BY <2>1 DEF FlowInv
    <3>2. q.type # "DATA" /\ q.type # "SYN"
      BY <1>1, <1>4, <3>1 DEF Genuine, OfStream
    <3> QED BY <3>2 DEF Genuine
  <2>2. CASE q.type = "SYN" /\ q.seqno = seqno
    BY <1>2, <2>2 DEF Genuine
  <2> QED BY <1>7, <2>1, <2>2
<1>8. Expecting(n, m)'
  BY <1>1 DEF FlowInv, Expecting, SameReceiver
<1>9. NoDelivery(n, m)' /\ Delivered(n, m)'
  BY <1>3, <1>4 DEF FlowInv, NoDelivery, Delivered
<1> QED BY <1>5, <1>6, <1>7, <1>8, <1>9 DEF FlowInv

LEMMA SendtoOpensStream ==
    ASSUME TypeInv, TypeInv', StreamInv, NEW n \in Node, NEW m \in Node,
           mode[n] = "up", SendtoOpens(n, m), UNCHANGED delivered
    PROVE  StreamInv'
<1>1. PICK seqno \in InitialSeqno :
         LET s == create_sender_session(seqno, handed[n][m] + 1)
             syn == {s.syn_timeout_arg}
         IN \E sent \in Sent(syn) :
            /\ sender' = [sender EXCEPT ![n][m] = Untimed(s, syn \ sent)]
            /\ events' = [events EXCEPT ![n][m] = @ \cup sent]
            /\ Transmit(n, m, sent)
            /\ isn' = [isn EXCEPT ![n][m] = seqno]
  BY DEF Register, SendtoOpens
<1> DEFINE o == create_sender_session(seqno, handed[n][m] + 1)
           syn == o.syn_timeout_arg
<1>a. PICK sent \in Sent({syn}) :
         /\ sender' = [sender EXCEPT ![n][m] = Untimed(o, {syn} \ sent)]
         /\ events' = [events EXCEPT ![n][m] = @ \cup sent]
         /\ net' = [net EXCEPT ![n][m] = @ \cup sent]
         /\ isn' = [isn EXCEPT ![n][m] = seqno]
  BY <1>1 DEF Transmit
<1> DEFINE s == Untimed(o, {syn} \ sent)
<1>2. seqno \in SeqNo
  BY NodeAssumption
<1>3. handed'[n][m] = handed[n][m] + 1 /\ handed[n][m] = 0 /\ sender[n][m] = NULL
  <2>1. sender[n][m] = NULL /\ receiver[n][m] = NULL
    BY DEF SendtoOpens, HasSession
  <2> QED BY <2>1 DEF SendtoOpens, TypeInv, TypeOK, StreamInv, FlowInv, Unopened
<1>4. /\ o.seqno = seqno /\ Len(o.data_queue) = 1
      /\ syn.type = "SYN" /\ syn.seqno = seqno
  BY DEF create_sender_session, create_rudp_packet
<1>b. o \in SenderSession
  BY <1>2, <1>3, CreateSenderType DEF TypeInv, TypeOK, Message
<1>c. sent \subseteq {syn}
  BY DEF Sent
<1> HIDE DEF o, syn
<1>5. s # NULL /\ s.seqno = seqno /\ Len(s.data_queue) = 1
  BY <1>4, <1>b, UntimedType, NullAssumption
<1>6. /\ sender' = [sender EXCEPT ![n][m] = s]
      /\ events' = [events EXCEPT ![n][m] = @ \cup sent]
      /\ net' = [net EXCEPT ![n][m] = @ \cup sent]
      /\ isn' = [isn EXCEPT ![n][m] = seqno]
  BY <1>a
<1> HIDE DEF s
<1> SUFFICES ASSUME NEW x \in Node, NEW y \in Node PROVE FlowInv(x, y)'
  BY DEF StreamInv
<1>7. FlowInv(x, y) /\ SameReceiver(x, y)
  BY SameSessions DEF StreamInv, SendtoOpens
<1>d. StaysOpen(x, y)
  BY DEF SendtoOpens, StaysOpen
<1>8. CASE <<x, y>> # <<n, m>>
  <2>1. /\ sender'[x][y] = sender[x][y] /\ isn'[x][y] = isn[x][y]
        /\ events'[x][y] = events[x][y] /\ net'[x][y] = net[x][y]
    <3>1. sender'[x][y] = sender[x][y]
      BY <1>6, <1>8 DEF TypeInv, TypeOK
    <3>2. isn'[x][y] = isn[x][y]
      BY <1>6, <1>8 DEF TypeInv, TypeOK
    <3>3. events'[x][y] = events[x][y]
      BY <1>6, <1>8 DEF TypeInv, TypeOK
    <3>4. net'[x][y] = net[x][y]
      BY <1>6, <1>8 DEF TypeInv, TypeOK
    <3> QED BY <3>1, <3>2, <3>3, <3>4
  <2>2. handed'[x][y] = handed[x][y] /\ stream'[x][y] = stream[x][y]
    BY <1>8 DEF SendtoOpens, TypeInv, TypeOK
  <2>3. SameSender(x, y) /\ NoNewPacket(x, y)
    BY <2>1 DEF SameSender, NoNewPacket
  <2> QED BY <1>7, <1>d, <2>1, <2>2, <2>3, FlowUnchanged
          DEF SendtoOpens, StaysDown, NothingQueued
<1>9. CASE x = n /\ y = m
  <2>1. /\ sender'[n][m] = s /\ isn'[n][m] = seqno
        /\ stream'[n][m] = stream[n][m] /\ delivered'[m][n] = delivered[m][n]
    BY <1>6 DEF SendtoOpens, TypeInv, TypeOK
  <2>2. \A q \in net'[n][m] \cup events'[n][m] :
           q \in net[n][m] \cup events[n][m] \/ (q.type = "SYN" /\ q.seqno = seqno)
    <3>1. net'[n][m] = net[n][m] \cup sent
      BY <1>6 DEF TypeInv, TypeOK
    <3>2. events'[n][m] = events[n][m] \cup sent
      BY <1>6 DEF TypeInv, TypeOK
    <3> QED BY <1>4, <1>c, <3>1, <3>2
  <2>3. Len(s.data_queue) = handed'[n][m]
    BY <1>3, <1>5
  <2>4. FlowInv(n, m)'
    BY <1>2, <1>3, <1>5, <1>7, <1>9, <1>d, <2>1, <2>2, <2>3, FlowOpens
  <2> QED BY <1>9, <2>4
<1> QED BY <1>8, <1>9

LEMMA SendtoReceiverOnlyStream ==
    ASSUME TypeInv, StreamInv, NEW n \in Node, NEW m \in Node,
           mode[n] = "up", SendtoReceiverOnly(n, m), UNCHANGED delivered
    PROVE  StreamInv'
<1>1. /\ UNCHANGED <<sender, receiver, events, stream>>
      /\ \A x, y \in Node : SameSender(x, y) /\ SameReceiver(x, y) /\ StaysOpen(x, y)
  BY SameSessions DEF SendtoReceiverOnly, StaysOpen
<1>2. sender[n][m] = NULL /\ receiver[n][m] # NULL
  BY DEF SendtoReceiverOnly, HasSession
<1>3. ASSUME NEW seqno \in InitialSeqno,
             Transmit(n, m, {create_rudp_packet("SYN", seqno, NoPayload)}),
             isn' = [isn EXCEPT ![n][m] = seqno],
             Enter(n, "crashed"), UNCHANGED handed
      PROVE  StreamInv'
  <2> DEFINE syn == create_rudp_packet("SYN", seqno, NoPayload)
  <2>1. seqno \in SeqNo /\ syn.type = "SYN" /\ syn.seqno = seqno
    BY NodeAssumption DEF create_rudp_packet
  <2>2. net' = [net EXCEPT ![n][m] = @ \cup {syn}]
    BY <1>3 DEF Transmit
  <2> HIDE DEF syn
  <2>3. mode'[n] # "up" /\ \A x \in Node : StaysDown(x)
    BY <1>3, UpOrDown DEF Enter, TypeInv, TypeOK, Mode
  <2> SUFFICES ASSUME NEW x \in Node, NEW y \in Node PROVE FlowInv(x, y)'
    BY DEF StreamInv
  <2>4. FlowInv(x, y)
    BY DEF StreamInv
  <2>5. CASE <<x, y>> # <<n, m>>
    <3>1. NoNewPacket(x, y) /\ isn'[x][y] = isn[x][y] /\ NothingQueued(x, y)
      BY <1>1, <1>3, <2>2, <2>5 DEF TypeInv, TypeOK, NoNewPacket, NothingQueued
    <3> QED BY <1>1, <2>3, <2>4, <3>1, FlowUnchanged
  <2>6. CASE x = n /\ y = m
    <3>1. /\ sender'[n][m] = NULL /\ handed'[n][m] = handed[n][m]
          /\ isn'[n][m] = seqno
          /\ stream'[n][m] = stream[n][m] /\ delivered'[m][n] = delivered[m][n]
      BY <1>1, <1>2, <1>3 DEF TypeInv, TypeOK
    <3>2. \A q \in net'[n][m] \cup events'[n][m] :
             q \in net[n][m] \cup events[n][m] \/ (q.type = "SYN" /\ q.seqno = seqno)
      BY <1>1, <2>1, <2>2 DEF TypeInv, TypeOK
    <3>3. FlowInv(n, m)'
      BY <1>1, <1>2, <2>1, <2>3, <2>4, <2>6, <3>1, <3>2, FlowOpens
    <3> QED BY <2>6, <3>3
  <2> QED BY <2>5, <2>6
<1>4. CASE /\ handed' = [handed EXCEPT ![n][m] = @ + 1]
           /\ UNCHANGED <<mode, net, isn>>
  <2> SUFFICES ASSUME NEW x \in Node, NEW y \in Node PROVE FlowInv(x, y)'
    BY DEF StreamInv
  <2>1. FlowInv(x, y)
    BY DEF StreamInv
  <2>2. NoNewPacket(x, y) /\ StaysDown(x)
    BY <1>1, <1>4 DEF NoNewPacket, StaysDown
  <2>3. NothingQueued(x, y)
    BY <1>1, <1>2, <1>4, SMTT(30) DEF NothingQueued, TypeInv, TypeOK
  <2> QED BY <1>1, <1>4, <2>1, <2>2, <2>3, FlowUnchanged
<1> QED BY <1>3, <1>4 DEF SendtoReceiverOnly

LEMMA SendtoSessionStream ==
    ASSUME TypeInv, TypeInv', StreamInv, NEW n \in Node, NEW m \in Node,
           handed[n][m] < MaxSend, SendtoSession(n, m), UNCHANGED delivered
    PROVE  StreamInv'
<1> DEFINE s == sender[n][m]
           item == handed[n][m] + 1
<1>1. s \in SenderSession /\ s # NULL /\ s.data_queue \in Seq(Message)
  <2>1. s \in SenderSession /\ s # NULL
    BY DEF SendtoSession, TypeInv, TypeOK
  <2> QED BY <2>1 DEF SenderSession
<1>2. item \in Message /\ handed[n][m] \in Nat
  <2>1. handed[n][m] \in 0 .. MaxSend
    BY DEF TypeInv, TypeOK
  <2> QED BY <2>1, SessionAssumption DEF Message
<1>3. /\ handed' = [handed EXCEPT ![n][m] = item]
      /\ UNCHANGED <<mode, receiver, isn, delivered>>
  BY DEF SendtoSession
<1>4. /\ \A x \in Node : StaysDown(x)
      /\ \A x, y \in Node : SameReceiver(x, y) /\ StaysOpen(x, y)
  BY <1>3, SameSessions DEF StaysDown, StaysOpen
<1>5. handed'[n][m] = item
  BY <1>3 DEF TypeInv, TypeOK
<1> HIDE DEF item
<1>6. ASSUME NEW i \in Free(s), s.status = "OPEN",
             LET t == SendDirect(s, i, item)
                 data == {t.sliding_window[i]}
             IN \E sent \in Sent(data) :
                   /\ sender' = [sender EXCEPT ![n][m] = Untimed(t, data \ sent)]
                   /\ events' = [events EXCEPT ![n][m] = @ \cup sent]
                   /\ Transmit(n, m, sent),
             stream' = [stream EXCEPT ![n][m] = Append(@, item)]
      PROVE  StreamInv'
  <2> DEFINE d == SendDirect(s, i, item)
             q == d.sliding_window[i]
  <2>1. PICK sent \in Sent({q}) :
           /\ sender' = [sender EXCEPT ![n][m] = Untimed(d, {q} \ sent)]
           /\ events' = [events EXCEPT ![n][m] = @ \cup sent]
           /\ net' = [net EXCEPT ![n][m] = @ \cup sent]
    BY <1>6 DEF Transmit
  <2> DEFINE t == Untimed(d, {q} \ sent)
             new == <<item>>
             old == stream[n][m]
  <2>2. i \in Slot
    BY DEF Free
  <2>a. /\ d \in SenderSession
        /\ d.status = "OPEN"
        /\ d.seqno = SeqNext(s.seqno)
        /\ d.data_queue = s.data_queue
    BY <1>1, <1>2, <1>6, <2>2, SendDirectType, ZenonT(30)
  <2>4. q = create_rudp_packet("DATA", SeqNext(s.seqno), item)
    BY <1>1, <2>2 DEF SendDirect, PutPacket, SenderSession
  <2>b. sent \subseteq {q}
    BY DEF Sent
  <2> HIDE DEF d
  <2>3. /\ t \in SenderSession
        /\ t.seqno = SeqNext(s.seqno)
        /\ t.data_queue = s.data_queue
    BY <2>a, UntimedType
  <2>5. t # NULL
    BY <2>3, NullAssumption
  <2>6. SeqNext(s.seqno) = SeqAdd(s.seqno, 1)
    BY DEF SeqNext
  <2>7. q.type = "DATA" /\ q.seqno = SeqAdd(s.seqno, 1) /\ q.payload = item
    BY <2>4, <2>6 DEF create_rudp_packet
  <2>8. /\ sender' = [sender EXCEPT ![n][m] = t]
        /\ events' = [events EXCEPT ![n][m] = @ \cup sent]
        /\ net' = [net EXCEPT ![n][m] = @ \cup sent]
        /\ stream' = [stream EXCEPT ![n][m] = Append(@, item)]
    BY <1>6, <2>1
  <2> HIDE DEF t, q
  <2>9. /\ old \in Seq(Message) /\ Len(old) \in Nat
        /\ Len(Append(old, item)) = Len(old) + 1
        /\ \A k \in 1 .. Len(old) : Append(old, item)[k] = old[k]
        /\ Append(old, item)[Len(old) + 1] = item
    <3>1. old \in Seq(Message)
      BY DEF TypeInv, TypeOK
    <3> HIDE DEF old
    <3> QED BY <1>2, <3>1, AppendProperties, LenProperties
  <2>10. new \in Seq(Message) /\ Len(new) = 1 /\ new[1] = item
    BY <1>2
  <2>11. /\ sender'[n][m] = t
         /\ stream'[n][m] = Append(old, item)
    BY <2>8 DEF TypeInv, TypeOK
  <2>12. \A r \in net'[n][m] \cup events'[n][m] : r \in net[n][m] \cup events[n][m] \/ r = q
    BY <2>8, <2>b DEF TypeInv, TypeOK
  <2> SUFFICES ASSUME NEW x \in Node, NEW y \in Node PROVE FlowInv(x, y)'
    BY DEF StreamInv
  <2>13. FlowInv(x, y)
    BY DEF StreamInv
  <2>14. CASE <<x, y>> # <<n, m>>
    <3>1. sender'[x][y] = sender[x][y] /\ stream'[x][y] = stream[x][y]
      <4>1. sender'[x][y] = sender[x][y]
        BY <2>8, <2>14 DEF TypeInv, TypeOK
      <4>2. stream'[x][y] = stream[x][y]
        BY <2>8, <2>14 DEF TypeInv, TypeOK
      <4> QED BY <4>1, <4>2
    <3>2. events'[x][y] = events[x][y]
      BY <2>8, <2>14 DEF TypeInv, TypeOK
    <3>3. net'[x][y] = net[x][y]
      BY <2>8, <2>14 DEF TypeInv, TypeOK
    <3>4. handed'[x][y] = handed[x][y]
      BY <1>3, <2>14 DEF TypeInv, TypeOK
    <3>5. SameSender(x, y) /\ NoNewPacket(x, y)
      BY <3>1, <3>2, <3>3 DEF SameSender, NoNewPacket
    <3> QED BY <1>3, <1>4, <2>13, <3>1, <3>4, <3>5, FlowUnchanged DEF NothingQueued
  <2>15. CASE x = n /\ y = m
    <3>1. /\ Len(stream'[n][m]) = Len(stream[n][m]) + Len(new)
          /\ \A k \in 1 .. Len(stream[n][m]) : stream'[n][m][k] = stream[n][m][k]
          /\ \A k \in 1 .. Len(new) : stream'[n][m][Len(stream[n][m]) + k] = new[k]
      BY <2>9, <2>10, <2>11
    <3>2. handed'[n][m] - handed[n][m]
             = Len(new) + Len(sender'[n][m].data_queue) - Len(sender[n][m].data_queue)
      <4>1. Len(s.data_queue) \in Nat
        BY <1>1, LenProperties
      <4> DEFINE l == Len(s.data_queue)
                 h == handed[n][m]
      <4>2. l \in Nat /\ h \in Nat
        BY <1>2, <4>1
      <4> HIDE DEF l, h
      <4>3. (h + 1) - h = (1 + l) - l
        BY <4>2
      <4>4. /\ Len(sender'[n][m].data_queue) = l /\ Len(sender[n][m].data_queue) = l
            /\ handed'[n][m] = h + 1 /\ handed[n][m] = h /\ Len(new) = 1
        BY <1>5, <2>3, <2>10, <2>11 DEF item, l, h
      <4> QED BY <4>3, <4>4
    <3>3. sender'[n][m].seqno = SeqAdd(sender[n][m].seqno, Len(new))
      BY <2>3, <2>6, <2>10, <2>11
    <3>4. \A r \in net'[n][m] \cup events'[n][m] :
             \/ r \in net[n][m] \cup events[n][m]
             \/ r.type \in {"ACK", "FIN"}
             \/ /\ r.type = "DATA"
                /\ \E k \in 1 .. Len(new) :
                      r.seqno = SeqAdd(sender[n][m].seqno, k) /\ r.payload = new[k]
      BY <2>7, <2>10, <2>12
    <3>5. s.status # "FIN_SENT" /\ sender'[n][m] # NULL
      BY <1>6, <2>5, <2>11
    <3>6. FlowInv(n, m) /\ isn'[n][m] = isn[n][m] /\ delivered'[m][n] = delivered[m][n]
      BY <1>3, <2>13, <2>15
    <3> HIDE DEF new
    <3>7. FlowInv(n, m)'
      BY <1>1, <1>4, <2>10, <3>1, <3>2, <3>3, <3>4, <3>5, <3>6, FlowGrows
    <3> QED BY <2>15, <3>7
  <2> QED BY <2>14, <2>15
<1>7. CASE /\ sender' = [sender EXCEPT ![n][m] = Enqueue(s, item)]
           /\ UNCHANGED <<events, net, stream>>
  <2> DEFINE t == Enqueue(s, item)
  <2>1. /\ t.seqno = s.seqno /\ t.status = s.status
        /\ t.data_queue = Append(s.data_queue, item)
        /\ t # NULL
    BY <1>1, <1>2, EnqueueType, NullAssumption DEF Enqueue, SenderSession
  <2>2. Len(t.data_queue) = Len(s.data_queue) + 1 /\ Len(s.data_queue) \in Nat
    BY <1>1, <1>2, <2>1, AppendProperties, LenProperties
  <2>3. sender'[n][m] = t
    BY <1>7 DEF TypeInv, TypeOK
  <2> HIDE DEF t
  <2> SUFFICES ASSUME NEW x \in Node, NEW y \in Node PROVE FlowInv(x, y)'
    BY DEF StreamInv
  <2>4. FlowInv(x, y)
    BY DEF StreamInv
  <2>5. NoNewPacket(x, y)
    BY <1>7 DEF NoNewPacket
  <2>6. CASE <<x, y>> # <<n, m>>
    <3>1. sender'[x][y] = sender[x][y]
      BY <1>7, <2>6 DEF TypeInv, TypeOK
    <3>2. handed'[x][y] = handed[x][y]
      BY <1>3, <2>6 DEF TypeInv, TypeOK
    <3>3. SameSender(x, y)
      BY <3>1 DEF SameSender
    <3> QED BY <1>3, <1>4, <1>7, <2>4, <2>5, <3>2, <3>3, FlowUnchanged DEF NothingQueued
  <2>7. CASE x = n /\ y = m
    <3>1. Unopened(n, m)' /\ Numbering(n, m)'
      <4>1. /\ Numbering(n, m) /\ Len(stream[n][m]) \in Nat
        BY <2>4, <2>7, LenProperties DEF FlowInv, TypeInv, TypeOK
      <4>2. Len(stream[n][m]) + Len(t.data_queue) = item
        <5> DEFINE l == Len(s.data_queue)
                   h == handed[n][m]
                   k == Len(stream[n][m])
        <5>1. k + l = h /\ k \in Nat /\ l \in Nat /\ h \in Nat
          BY <1>1, <1>2, <2>2, <4>1 DEF Numbering
        <5>2. Len(t.data_queue) = l + 1 /\ item = h + 1
          BY <2>2 DEF item
        <5> HIDE DEF l, h, k
        <5>3. k + (l + 1) = h + 1
          BY <5>1
        <5> QED BY <5>2, <5>3 DEF k
      <4> QED BY <1>1, <1>3, <1>5, <1>7, <2>1, <2>3, <4>1, <4>2 DEF Unopened, Numbering
    <3>2. \A r \in net'[n][m] \cup events'[n][m] : Genuine(n, m, r)'
      BY <1>3, <1>7, <2>4, <2>7 DEF FlowInv, Genuine, OfStream
    <3>3. Expecting(n, m)' /\ NoDelivery(n, m)' /\ Delivered(n, m)'
      BY <1>3, <1>7, <2>4, <2>7 DEF FlowInv, Expecting, NoDelivery, Delivered
    <3> QED BY <2>7, <3>1, <3>2, <3>3 DEF FlowInv
  <2> QED BY <2>6, <2>7
<1> QED BY <1>6, <1>7 DEF Register, SendtoSession, item

LEMMA SendtoStream ==
    ASSUME TypeInv, TypeInv', StreamInv, NEW n \in Node, NEW m \in Node, rudp_sendto(n, m)
    PROVE  StreamInv'
BY SendtoOpensStream, SendtoReceiverOnlyStream, SendtoSessionStream DEF rudp_sendto

-----------------------------------------------------------------------------
LEMMA StreamInit == Init => StreamInv
<1> SUFFICES ASSUME Init, NEW x \in Node, NEW y \in Node PROVE FlowInv(x, y)
  BY DEF StreamInv
<1>1. /\ sender[x][y] = NULL /\ receiver[y][x] = NULL /\ isn[x][y] = NULL
      /\ handed[x][y] = 0 /\ stream[x][y] = << >> /\ delivered[y][x] = << >>
      /\ net[x][y] = {} /\ events[x][y] = {}
  BY DEF Init
<1>2. Len(<< >>) = 0
  OBVIOUS
<1> QED BY <1>1, <1>2 DEF FlowInv, Unopened, Numbering, Expecting, NoDelivery, Delivered

LEMMA StreamNext ==
    ASSUME FaithfulNumbers, TypeInv, TypeInv', StreamInv, [Next]_vars
    PROVE  StreamInv'
<1>1. ASSUME NEW n \in Node, NEW m \in Node, rudp_sendto(n, m) PROVE StreamInv'
  BY <1>1, SendtoStream
<1>2. ASSUME NEW n \in Node, NEW m \in Node, receive_callback(n, m) PROVE StreamInv'
  <2>1. PICK p \in net[m][n] :
          \/ ReceiveNoSession(n, m, p)
          \/ ReceiveSyn(n, m, p)
          \/ ReceiveMissingHalf(n, m, p)
          \/ ReceiveAckSynSent(n, m, p)
          \/ ReceiveAckOpen(n, m, p)
          \/ ReceiveAckFinSent(n, m, p)
          \/ ReceiveData(n, m, p)
          \/ ReceiveFin(n, m, p)
    BY <1>2 DEF receive_callback
  <2> QED BY <2>1, ReceiveNoSessionStream, ReceiveSynStream, ReceiveMissingHalfStream,
             ReceiveAckSynSentStream, ReceiveAckOpenStream, ReceiveAckFinSentStream,
             ReceiveDataStream, ReceiveFinStream
<1>3. ASSUME NEW n \in Node, NEW m \in Node, timeout_callback(n, m) PROVE StreamInv'
  BY <1>3, TimeoutStream
<1>4. ASSUME NEW n \in Node, NEW m \in Node, Lose(n, m) PROVE StreamInv'
  BY <1>4, LoseStream
<1>5. ASSUME NEW n \in Node, rudp_close(n) PROVE StreamInv'
  BY <1>5, CloseStream
<1>6. CASE UNCHANGED vars
  BY <1>6, QuietStep, SameSessions DEF vars, session, history, NoNewPacket, StaysDown
<1> QED BY <1>1, <1>2, <1>3, <1>4, <1>5, <1>6 DEF Next

(***************************************************************************)
(* One flow is one sequence, for any number of nodes, any window, retry    *)
(* limit and initial numbers: what is in flight, waiting for its timeout,  *)
(* expected or delivered always stands at its own place in the stream.     *)
(***************************************************************************)
THEOREM StreamCorrect == ASSUME FaithfulNumbers PROVE Spec => []StreamInv
<1>1. TypeInv /\ StreamInv /\ [Next]_vars => TypeInv' /\ StreamInv'
  BY TypeNext, StreamNext
<1> QED BY TypeInit, StreamInit, <1>1, PTL DEF Spec

(***************************************************************************)
(* Exactly once, in order of numbering: whatever UDP loses, repeats or     *)
(* reorders and however often rudp_sendto, the timers and the wrap of the  *)
(* sequence numbers interleave with it, recv_handler is given a prefix of  *)
(* what the sender numbered.                                               *)
(***************************************************************************)
THEOREM PrefixCorrect == ASSUME FaithfulNumbers PROVE Spec => []PrefixDelivery
<1>1. StreamInv => PrefixDelivery
  BY DEF StreamInv, FlowInv, Delivered, PrefixDelivery
<1> QED BY StreamCorrect, <1>1, PTL


=============================================================================
