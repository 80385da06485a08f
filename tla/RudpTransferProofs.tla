-------------------------- MODULE RudpTransferProofs --------------------------
(***************************************************************************)
(* The two ends of a flow agree: TransferInv of RudpInv for every instance *)
(* and what follows from it, that a message leaves the window only after   *)
(* it was delivered, that no message is lost on its way into the window,   *)
(* that timers and packets match, that a FIN comes last, and that no       *)
(* datagram meets a null pointer.                                          *)
(***************************************************************************)
EXTENDS RudpProofs

LEMMA FlowTypes ==
    ASSUME TypeInv, NEW n \in Node, NEW m \in Node, FlowInv(n, m)
    PROVE  /\ stream[n][m] \in Seq(Message)
           /\ Len(stream[n][m]) \in Nat
           /\ Len(stream[n][m]) <= MaxSend
           /\ Len(stream[n][m]) + 2 < SeqMod
           /\ isn[n][m] \in SeqNo \cup {NULL}
           /\ net[n][m] \subseteq Packet /\ events[n][m] \subseteq Packet
           /\ handed[n][m] \in Nat /\ handed[n][m] <= MaxSend
           /\ sender[n][m] # NULL =>
                 /\ sender[n][m] \in SenderSession
                 /\ isn[n][m] \in SeqNo
                 /\ Len(stream[n][m]) + Len(sender[n][m].data_queue) = handed[n][m]
<1> DEFINE L == Len(stream[n][m])
<1>1. /\ stream[n][m] \in Seq(Message)
      /\ isn[n][m] \in SeqNo \cup {NULL}
      /\ net[n][m] \subseteq Packet /\ events[n][m] \subseteq Packet
      /\ handed[n][m] \in 0 .. MaxSend
      /\ sender[n][m] # NULL => sender[n][m] \in SenderSession
  BY DEF TypeInv, TypeOK
<1>2. L \in Nat
  BY <1>1, LenProperties
<1>3. handed[n][m] \in Nat /\ handed[n][m] <= MaxSend
  BY <1>1, SessionAssumption
<1>4. sender[n][m] # NULL =>
         isn[n][m] \in SeqNo /\ L + Len(sender[n][m].data_queue) = handed[n][m]
  BY <1>1 DEF FlowInv, Numbering
<1>5. L <= MaxSend
  <2>1. CASE sender[n][m] = NULL
    <3>1. stream[n][m] = << >>
      BY <2>1 DEF FlowInv, Unopened
    <3> QED BY <3>1, SessionAssumption
  <2>2. CASE sender[n][m] # NULL
    <3> DEFINE q == Len(sender[n][m].data_queue)
    <3>1. q \in Nat
      BY <1>1, <2>2 DEF SenderSession
    <3>2. L + q = handed[n][m]
      BY <1>4, <2>2
    <3> HIDE DEF L, q
    <3> QED BY <1>2, <1>3, <3>1, <3>2, SessionAssumption
  <2> QED BY <2>1, <2>2
<1>6. L + 2 < SeqMod
  <2> HIDE DEF L
  <2> QED BY <1>2, <1>5, SessionAssumption, SeqModAssumption
<1> QED BY <1>1, <1>2, <1>3, <1>4, <1>5, <1>6

\* Two packets of one session are the same only if their numbers in it are.
LEMMA DataInjective ==
    ASSUME NEW x \in SeqNo, NEW str, NEW str2,
           NEW j \in 0 .. SeqMod - 1, NEW k \in 0 .. SeqMod - 1,
           DataPacket(x, str, j) = DataPacket(x, str2, k)
    PROVE  j = k
<1>1. SeqAdd(x, j) = SeqAdd(x, k)
  BY DEF DataPacket, create_rudp_packet
<1> QED BY <1>1, SeqInjective

-----------------------------------------------------------------------------
(***************************************************************************)
(* A flow whose sessions a step leaves alone: packets may be lost, sent    *)
(* again or joined by those of the other direction.                        *)
(***************************************************************************)
LEMMA TransferQuiet ==
    ASSUME NEW n \in Node, NEW m \in Node, NEW b, NEW e, TransferAt(n, m, b, e),
           sender'[n][m] = sender[n][m],
           receiver'[m][n] = receiver[m][n],
           delivered'[m][n] = delivered[m][n],
           stream'[n][m] = stream[n][m],
           events'[n][m] \subseteq events[n][m],
           sender[n][m] # NULL => handed'[n][m] = handed[n][m],
           isn'[n][m] = isn[n][m] \/ (sender[n][m] = NULL /\ receiver[m][n] = NULL),
           \A p \in net'[n][m] :
              \/ p \in Out(n, m)
              \/ p.type = "ACK"
              \/ p.type = "SYN" /\ sender[n][m] = NULL,
           \A p \in net'[m][n] : p.type = "ACK" => p \in net[m][n]
    PROVE  TransferAt(n, m, b, e)'
<1> USE DEF TransferAt
<1>1. \A p \in Out(n, m)' :
         p \in Out(n, m) \/ p.type = "ACK" \/ (p.type = "SYN" /\ sender[n][m] = NULL)
  BY DEF Out
<1>2. Ended(n, m)' = Ended(n, m) /\ Finished(n, m)' = Finished(n, m)
  BY DEF Ended, Finished
<1>3. Sending(n, m, b)'
  <2> SUFFICES ASSUME sender'[n][m] # NULL PROVE Sending(n, m, b)'
    BY DEF Sending
  <2>1. isn'[n][m] = isn[n][m] /\ handed'[n][m] = handed[n][m]
    OBVIOUS
  <2>2. events'[n][m] \subseteq Unacked(sender[n][m])
    BY DEF Sending
  <2>3. events'[n][m] \subseteq Unacked(sender'[n][m])
    BY <2>2
  <2> QED BY <2>1, <2>3 DEF Sending
<1>4. Taking(n, m, e)'
  BY <1>2 DEF Taking
<1>5. Acks(n, m, e)'
  BY <1>2 DEF Acks
<1>6. Phases(n, m)'
  BY <1>1, <1>2 DEF Phases
<1>7. Refused(n, m, b, e)'
  <2> SUFFICES ASSUME sender'[n][m] # NULL PROVE Refused(n, m, b, e)'
    BY DEF Refused
  <2>1. isn'[n][m] = isn[n][m]
    OBVIOUS
  <2>2. \A p \in Out(n, m)' : p \in Out(n, m) \/ p.type = "ACK"
    BY <1>1
  <2>3. \A k : DataPacket(isn[n][m], stream[n][m], k).type = "DATA"
    BY DEF DataPacket, create_rudp_packet
  <2>4. \A k : DataPacket(isn[n][m], stream[n][m], k) \in Out(n, m)' =>
                  DataPacket(isn[n][m], stream[n][m], k) \in Out(n, m)
    BY <2>2, <2>3
  <2> HIDE DEF TransferAt
  <2>5. Refused(n, m, b, e)
    BY DEF TransferAt
  <2> QED BY <1>2, <2>1, <2>2, <2>4, <2>5 DEF Refused
<1> QED BY <1>3, <1>4, <1>5, <1>6, <1>7

\* A pending timeout is for a packet whose timeout argument is kept.
LEMMA EventsTimed ==
    ASSUME TypeInv, NEW n \in Node, NEW m \in Node, FlowInv(n, m),
           NEW b, NEW e, TransferAt(n, m, b, e), sender[n][m] # NULL,
           NEW p \in events[n][m]
    PROVE  Timed(sender[n][m], isn[n][m], stream[n][m], b, p)
<1> DEFINE s == sender[n][m]
           x == isn[n][m]
           str == stream[n][m]
<1>1. /\ p \in Unacked(s) /\ p \in Out(n, m)
      /\ Matches(s, x, str, b) /\ Refused(n, m, b, e)
  BY DEF TransferAt, Sending, Out
<1>2. /\ s \in SenderSession /\ x \in SeqNo /\ str \in Seq(Message)
      /\ Len(str) \in Nat /\ Len(str) <= MaxSend
  BY FlowTypes
<1>3. CASE p \in {s.sliding_window[i] : i \in Outstanding(s)}
  <2>1. PICK i \in Slot : p = s.sliding_window[i] /\ s.sliding_window[i] # NULL
    BY <1>3 DEF Outstanding
  <2>2. /\ s.sliding_window[i]
              = IF b + i < Len(str) THEN DataPacket(x, str, b + i + 1) ELSE NULL
        /\ ArgOf(s.data_timeout_arg[i], s.sliding_window[i])
        /\ b \in 0 .. Len(str)
    BY <1>1 DEF Matches
  <2> DEFINE k == b + i + 1
  <2>3. k \in b + 1 .. Len(str) /\ k - b - 1 = i
    BY <1>2, <2>1, <2>2 DEF Slot
  <2>4. p = DataPacket(x, str, k)
    BY <2>1, <2>2
  <2> HIDE DEF k
  <2>5. s.data_timeout_arg[k - b - 1] # NULL
    BY <1>1, <2>3, <2>4 DEF Refused
  <2> QED BY <2>1, <2>2, <2>3, <2>4, <2>5 DEF Timed, ArgOf
<1>4. CASE s.status = "SYN_SENT" /\ p = create_rudp_packet("SYN", s.seqno, NoPayload)
  <2>1. p.type = "SYN"
    BY <1>4 DEF create_rudp_packet
  <2>2. s.syn_timeout_arg # NULL
    BY <1>1, <1>4, <2>1 DEF Refused
  <2> QED BY <1>1, <1>4, <2>2 DEF Matches, ArgOf, Timed
<1>5. CASE /\ s.status = "FIN_SENT" /\ ~ s.session_finished
           /\ p = create_rudp_packet("FIN", s.seqno, NoPayload)
  <2>1. p.type = "FIN"
    BY <1>5 DEF create_rudp_packet
  <2>2. s.fin_timeout_arg # NULL
    BY <1>1, <1>5, <2>1 DEF Refused
  <2> QED BY <1>1, <1>5, <2>2 DEF Matches, ArgOf, Timed
<1> QED BY <1>1, <1>3, <1>4, <1>5 DEF Unacked

LEMMA TimedUnacked ==
    ASSUME NEW s \in SenderSession, NEW x \in SeqNo, NEW str \in Seq(Message),
           Len(str) <= MaxSend, NEW b \in Nat, Matches(s, x, str, b),
           NEW p, Timed(s, x, str, b, p)
    PROVE  p \in Unacked(s)
<1>1. CASE \E k \in b + 1 .. Len(str) : p = DataPacket(x, str, k)
  <2>1. PICK k \in b + 1 .. Len(str) : p = DataPacket(x, str, k)
    BY <1>1
  <2>2. k - b - 1 \in Slot /\ s.sliding_window[k - b - 1] = p
    BY <2>1, WindowFacts
  <2>3. b \in Nat /\ Len(str) \in Nat
    BY LenProperties DEF Matches
  <2>4. k \in 1 .. Len(str)
    BY <2>3
  <2>5. p # NULL
    BY <2>1, <2>4, DataPacketType
  <2> QED BY <2>2, <2>5 DEF Unacked, Outstanding
<1>2. CASE ~ \E k \in b + 1 .. Len(str) : p = DataPacket(x, str, k)
  BY <1>2 DEF Timed, Unacked
<1> QED BY <1>1, <1>2

(***************************************************************************)
(* A step of the sender of a flow: from s to t, with b2 messages           *)
(* acknowledged, all of which the receiver has taken.                      *)
(***************************************************************************)
SenderMoves(n, m, b, b2, e) ==
    LET s == sender[n][m]
        t == sender'[n][m]
        x == isn[n][m]
        str == stream[n][m]
        str2 == stream'[n][m]
    IN /\ b2 \in b .. e
       /\ Matches(t, x, str2, b2)
       /\ AllKept(t, str2, handed'[n][m])
       /\ Len(str) <= Len(str2)
       /\ \A k \in 1 .. Len(str) : str2[k] = str[k]
       /\ s.status = "FIN_SENT" => t.status = "FIN_SENT" /\ t.seqno = s.seqno /\ str2 = str
       /\ t.status = "FIN_SENT" /\ s.status # "FIN_SENT" => t.data_queue = << >>
       /\ t.status # "SYN_SENT" => receiver[m][n] # NULL
       /\ t.session_finished => Finished(n, m)
       /\ \A k \in b2 + 1 .. Len(str) :
             t.data_timeout_arg[k - b2 - 1] = NULL => s.data_timeout_arg[k - b - 1] = NULL
       /\ t.status = "SYN_SENT" =>
             s.status = "SYN_SENT" /\ t.syn_timeout_arg = s.syn_timeout_arg
       /\ t.status = "FIN_SENT" /\ s.status = "FIN_SENT" =>
             t.fin_timeout_arg = s.fin_timeout_arg
       /\ \A p \in net'[n][m] : p \in Out(n, m) \/ p.type = "ACK" \/ Timed(t, x, str2, b2, p)
       /\ \A p \in events'[n][m] : Timed(t, x, str2, b2, p)

LEMMA TransferSender ==
    ASSUME TypeInv, TypeInv', NEW n \in Node, NEW m \in Node, FlowInv(n, m), FlowInv(n, m)',
           NEW b \in Nat, NEW b2 \in Nat, NEW e \in Nat, TransferAt(n, m, b, e),
           sender[n][m] # NULL, sender'[n][m] # NULL,
           SenderMoves(n, m, b, b2, e),
           receiver'[m][n] = receiver[m][n],
           delivered'[m][n] = delivered[m][n],
           isn'[n][m] = isn[n][m],
           \A p \in net'[m][n] : p.type = "ACK" => p \in net[m][n]
    PROVE  TransferAt(n, m, b2, e)'
<1> DEFINE s == sender[n][m]
           t == sender'[n][m]
           x == isn[n][m]
           str == stream[n][m]
           str2 == stream'[n][m]
           L == Len(str)
           L2 == Len(str2)
<1>1. /\ s \in SenderSession /\ x \in SeqNo /\ str \in Seq(Message)
      /\ L \in Nat /\ L <= MaxSend /\ L + 2 < SeqMod
      /\ x \in SeqNo /\ SeqMod \in Nat
  BY FlowTypes, SeqModAssumption
<1>2. /\ t \in SenderSession /\ str2 \in Seq(Message)
      /\ L2 \in Nat /\ L2 <= MaxSend /\ L2 + 2 < SeqMod
  <2> DEFINE q == Len(t.data_queue)
             h == handed'[n][m]
  <2>1. t \in SenderSession /\ str2 \in Seq(Message) /\ h \in 0 .. MaxSend
    BY DEF TypeInv, TypeOK
  <2>2. q \in Nat /\ L2 \in Nat
    BY <2>1 DEF SenderSession
  <2>3. L2 + q = h
    BY DEF FlowInv, Numbering
  <2> HIDE DEF q, h, L2
  <2>4. L2 <= MaxSend /\ L2 + 2 < SeqMod
    BY <2>1, <2>2, <2>3, SessionAssumption, SeqModAssumption
  <2> QED BY <2>1, <2>2, <2>4
<1>3. Finished(n, m)' = Finished(n, m) /\ (Ended(n, m) <=> s.status = "FIN_SENT")
      /\ (Ended(n, m)' <=> t.status = "FIN_SENT")
  BY DEF Finished, Ended
<1>4. \A p \in Out(n, m)' :
         p \in Out(n, m) \/ p.type = "ACK" \/ Timed(t, x, str2, b2, p)
  BY DEF Out, SenderMoves
<1>5. Sending(n, m, b2)'
  <2>1. \A p \in events'[n][m] : p \in Unacked(t)
    BY <1>1, <1>2, TimedUnacked DEF SenderMoves
  <2> QED BY <2>1 DEF Sending, SenderMoves
<1>6. Taking(n, m, e)'
  <2>1. Taking(n, m, e) /\ L <= L2 /\ (s.status = "FIN_SENT" => t.status = "FIN_SENT")
    BY DEF TransferAt, SenderMoves
  <2>2. e \in 0 .. L2
    BY <1>1, <1>2, <2>1 DEF Taking
  <2> QED BY <1>3, <2>1, <2>2 DEF Taking
<1>7. Acks(n, m, e)'
  <2>1. Finished(n, m) => str2 = str
    BY <1>3 DEF TransferAt, Taking, SenderMoves
  <2> QED BY <1>3, <2>1 DEF TransferAt, Acks
<1>8. \A k : DataPacket(x, str2, k).type = "DATA"
  BY DEF DataPacket, create_rudp_packet
<1>9. \A p : Timed(t, x, str2, b2, p) => p.type \in {"DATA", "SYN", "FIN"}
             /\ (p.type = "SYN" => t.status = "SYN_SENT" /\ t.syn_timeout_arg = p)
             /\ (p.type = "FIN" => t.status = "FIN_SENT" /\ t.fin_timeout_arg = p
                                   /\ p.seqno = t.seqno)
  BY <1>8 DEF Timed, create_rudp_packet
<1>10. Phases(n, m)'
  <2>1. ASSUME NEW p \in Out(n, m)', p.type = "FIN"
        PROVE  t.status = "FIN_SENT" /\ p.seqno = t.seqno
    <3>1. CASE p \in Out(n, m)
      BY <1>3, <2>1, <3>1 DEF TransferAt, Phases, SenderMoves
    <3>2. CASE p \notin Out(n, m)
      BY <1>4, <1>9, <2>1, <3>2
    <3> QED BY <3>1, <3>2
  <2> QED BY <1>3, <2>1 DEF Phases, SenderMoves
<1>11. b \in Nat /\ b2 \in Nat /\ b2 >= b /\ e <= L
  BY <1>1 DEF SenderMoves, TransferAt, Taking
<1>12. ASSUME NEW k \in b2 + 1 .. L2, t.data_timeout_arg[k - b2 - 1] = NULL
       PROVE  e < k /\ DataPacket(x, str2, k) \notin Out(n, m)'
  <2>1. k \in 1 .. L2 /\ k \in 0 .. SeqMod - 1
    BY <1>1, <1>2, <1>11
  <2>2. DataPacket(x, str2, k) # NULL
    BY <1>1, <1>2, <2>1, DataPacketType
  <2>3. ~ Timed(t, x, str2, b2, DataPacket(x, str2, k))
    <3> SUFFICES ASSUME NEW j \in b2 + 1 .. L2,
                        DataPacket(x, str2, k) = DataPacket(x, str2, j),
                        t.data_timeout_arg[j - b2 - 1] = DataPacket(x, str2, k)
                 PROVE  FALSE
      BY <1>8 DEF Timed, create_rudp_packet
    <3>1. j \in 0 .. SeqMod - 1
      BY <1>1, <1>2, <1>11
    <3>2. k = j
      BY <1>1, <2>1, <3>1, DataInjective
    <3> QED BY <1>12, <2>2, <3>2
  <2>4. e < k /\ DataPacket(x, str2, k) \notin Out(n, m)
    <3>1. CASE k <= L
      <4>1. k \in b + 1 .. L /\ k \in b2 + 1 .. L
        BY <1>1, <1>2, <1>11, <3>1
      <4>2. s.data_timeout_arg[k - b - 1] = NULL /\ str2[k] = str[k]
        BY <1>12, <2>1, <3>1, <4>1 DEF SenderMoves
      <4>3. DataPacket(x, str2, k) = DataPacket(x, str, k)
        BY <4>2 DEF DataPacket
      <4> QED BY <4>1, <4>2, <4>3 DEF TransferAt, Refused
    <3>2. CASE k > L
      <4>1. e < k
        BY <1>1, <1>11, <2>1, <3>2
      <4>2. ASSUME DataPacket(x, str2, k) \in Out(n, m) PROVE FALSE
        <5>1. OfStream(n, m, DataPacket(x, str2, k))
          BY <1>8, <4>2 DEF FlowInv, Genuine, Out
        <5>2. PICK j \in 1 .. L : SeqAdd(x, k) = SeqAdd(x, j)
          BY <5>1 DEF OfStream, DataPacket, create_rudp_packet
        <5>3. j \in 0 .. SeqMod - 1
          BY <1>1
        <5>4. k = j
          BY <1>1, <2>1, <5>2, <5>3, SeqInjective
        <5> QED BY <1>1, <3>2, <5>4
      <4> QED BY <4>1, <4>2
    <3> QED BY <1>1, <2>1, <3>1, <3>2
  <2> QED BY <1>4, <1>8, <2>3, <2>4
<1>13. ASSUME t.status = "SYN_SENT", t.syn_timeout_arg = NULL
       PROVE  receiver[m][n] = NULL /\ \A p \in Out(n, m)' : p.type # "SYN"
  <2>1. /\ receiver[m][n] = NULL
        /\ \A p \in Out(n, m) : p.type # "SYN"
    BY <1>13 DEF SenderMoves, TransferAt, Refused
  <2>2. \A p : Timed(t, x, str2, b2, p) => p # NULL
    BY <1>1, <1>2, TimedType
  <2> QED BY <1>4, <1>9, <1>13, <2>1, <2>2
<1>14. ASSUME t.status = "FIN_SENT", t.fin_timeout_arg = NULL
       PROVE  ~ Finished(n, m) /\ \A p \in Out(n, m)' : p.type # "FIN"
  <2>1. ~ Finished(n, m) /\ \A p \in Out(n, m) : p.type # "FIN"
    <3>1. CASE s.status = "FIN_SENT"
      BY <1>14, <3>1 DEF SenderMoves, TransferAt, Refused
    <3>2. CASE s.status # "FIN_SENT"
      BY <1>3, <3>2 DEF TransferAt, Taking, Phases
    <3> QED BY <3>1, <3>2
  <2>2. \A p : Timed(t, x, str2, b2, p) => p # NULL
    BY <1>1, <1>2, TimedType
  <2> QED BY <1>4, <1>9, <1>14, <2>1, <2>2
<1>15. Refused(n, m, b2, e)'
  BY <1>3, <1>12, <1>13, <1>14 DEF Refused
<1>16. b2 <= e
  BY DEF SenderMoves
<1> QED BY <1>5, <1>6, <1>7, <1>10, <1>15, <1>16 DEF TransferAt

-----------------------------------------------------------------------------
(***************************************************************************)
(* A step of the receiver of a flow: it has taken e2 packets, and any ACK  *)
(* it sends is for one of them, for the SYN or for the FIN.                *)
(***************************************************************************)
ReceiverMoves(n, m, b, e, e2) ==
    /\ e <= e2
    /\ Taking(n, m, e2)'
    /\ receiver'[m][n] # NULL
    /\ Finished(n, m) => Finished(n, m)'
    /\ \A p \in net'[m][n] : p.type = "ACK" =>
          \/ p \in net[m][n]
          \/ \E k \in 0 .. e2 : p.seqno = SeqAdd(isn[n][m], k + 1)
          \/ Finished(n, m)' /\ p.seqno = SeqAdd(isn[n][m], Len(stream[n][m]) + 2)
    /\ \A k \in e + 1 .. e2 : DataPacket(isn[n][m], stream[n][m], k) \in Out(n, m)
    /\ receiver[m][n] = NULL => \E p \in Out(n, m) : p.type = "SYN"
    /\ Finished(n, m)' /\ ~ Finished(n, m) => \E p \in Out(n, m) : p.type = "FIN"

LEMMA TransferReceiver ==
    ASSUME NEW n \in Node, NEW m \in Node, NEW b \in Nat, NEW e \in Nat, NEW e2 \in Nat,
           TransferAt(n, m, b, e), ReceiverMoves(n, m, b, e, e2),
           sender'[n][m] = sender[n][m],
           stream'[n][m] = stream[n][m],
           isn'[n][m] = isn[n][m],
           handed'[n][m] = handed[n][m],
           events'[n][m] = events[n][m],
           net'[n][m] \subseteq net[n][m]
    PROVE  TransferAt(n, m, b, e2)'
<1> USE DEF TransferAt, ReceiverMoves
<1>1. Out(n, m)' \subseteq Out(n, m)
  BY DEF Out
<1>2. b <= e2
  OBVIOUS
<1>3. Sending(n, m, b)'
  <2>1. sender'[n][m] # NULL => events'[n][m] \subseteq Unacked(sender'[n][m])
    BY DEF Sending
  <2> QED BY <2>1 DEF Sending
<1>4. Acks(n, m, e2)'
  <2> SUFFICES ASSUME NEW p \in net'[m][n], p.type = "ACK"
               PROVE  \/ \E k \in 0 .. e2 : p.seqno = SeqAdd(isn[n][m], k + 1)
                      \/ Finished(n, m)' /\ p.seqno = SeqAdd(isn[n][m], Len(stream[n][m]) + 2)
    BY DEF Acks
  <2>1. 0 .. e \subseteq 0 .. e2
    OBVIOUS
  <2> QED BY <2>1 DEF Acks
<1>5. Phases(n, m)'
  <2>1. Ended(n, m)' = Ended(n, m)
    BY DEF Ended
  <2> QED BY <1>1, <2>1 DEF Phases
<1>6. Refused(n, m, b, e2)'
  <2> SUFFICES ASSUME sender[n][m] # NULL PROVE Refused(n, m, b, e2)'
    BY DEF Refused
  <2> DEFINE s == sender[n][m]
             x == isn[n][m]
             str == stream[n][m]
  <2>1. ASSUME NEW k \in b + 1 .. Len(str), s.data_timeout_arg[k - b - 1] = NULL
        PROVE  e2 < k /\ DataPacket(x, str, k) \notin Out(n, m)'
    <3>1. e < k /\ DataPacket(x, str, k) \notin Out(n, m)
      BY <2>1 DEF Refused
    <3>2. k \notin e + 1 .. e2
      BY <3>1
    <3> QED BY <1>1, <3>1, <3>2
  <2>2. ~ (s.status = "SYN_SENT" /\ s.syn_timeout_arg = NULL)
    BY DEF Refused
  <2>3. s.status = "FIN_SENT" /\ s.fin_timeout_arg = NULL =>
           ~ Finished(n, m) /\ \A p \in Out(n, m) : p.type # "FIN"
    BY DEF Refused
  <2> QED BY <1>1, <2>1, <2>2, <2>3 DEF Refused
<1> QED BY <1>2, <1>3, <1>4, <1>5, <1>6

-----------------------------------------------------------------------------
\* The steps of one process, seen by all flows.  A flow that a sender's step
\* does not take further is kept as it is.
Moves(n, y) ==
    /\ sender[n][y] # NULL /\ sender'[n][y] # NULL
    /\ \A b, e \in 0 .. MaxSend : TransferAt(n, y, b, e) =>
          \E b2 \in 0 .. MaxSend : SenderMoves(n, y, b, b2, e)

FlowKept(n, y) ==
    /\ sender'[n][y] = sender[n][y]
    /\ stream'[n][y] = stream[n][y]
    /\ handed'[n][y] = handed[n][y]

Forward ==
    /\ UNCHANGED delivered
    /\ \A x, y \in Node : FlowKept(x, y) \/ Moves(x, y)

LEMMA TransferQuietStep ==
    ASSUME TransferInv, UNCHANGED <<sender, receiver, history>>,
           \A x, y \in Node : events'[x][y] \subseteq events[x][y],
           \A x, y \in Node : \A q \in net'[x][y] :
              q \in Out(x, y) /\ (q.type = "ACK" => q \in net[x][y]),
           \A x \in Node : net'[x][x] = {}
    PROVE  TransferInv' /\ Forward
<1>1. \A x \in Node : NoLoop(x)'
  BY DEF TransferInv, NoLoop
<1>2. ASSUME NEW x \in Node, NEW y \in Node
      PROVE  \E b, e \in 0 .. MaxSend : TransferAt(x, y, b, e)'
  <2>1. PICK b \in 0 .. MaxSend, e \in 0 .. MaxSend : TransferAt(x, y, b, e)
    BY DEF TransferInv
  <2>2. TransferAt(x, y, b, e)'
    BY <2>1, TransferQuiet DEF history
  <2> QED BY <2>2
<1>3. Forward
  BY DEF Forward, FlowKept, history
<1> QED BY <1>1, <1>2, <1>3 DEF TransferInv

\* No process receives what it sent.
LEMMA TwoEnds ==
    ASSUME TransferInv, NEW n \in Node, NEW m \in Node, NEW p \in net[m][n]
    PROVE  n # m
BY DEF TransferInv, NoLoop

LEMMA TransferConsumed ==
    ASSUME TypeInv, TransferInv, NEW n \in Node, NEW m \in Node, NEW p \in net[m][n],
           Consume(n, m, p, Nothing), UNCHANGED <<sender, receiver, history>>,
           \A x, y \in Node : events'[x][y] \subseteq events[x][y]
    PROVE  TransferInv' /\ Forward
<1>1. p \in Packet /\ net \in [Node -> [Node -> SUBSET Packet]]
      /\ Nothing \in [Node -> SUBSET Packet] /\ \A h \in Node : Nothing[h] = {}
  BY NothingType DEF TypeInv, TypeOK
<1>2. \A x, y \in Node : net'[x][y] \subseteq net[x][y]
  <2>1. /\ \A x, y \in Node : x # n => net'[x][y] \subseteq net[x][y]
        /\ \A y \in Node : net'[n][y] \subseteq net[n][y] \cup Nothing[y]
    BY <1>1, ConsumeNet
  <2> QED BY <1>1, <2>1
<1>3. \A x \in Node : net'[x][x] = {}
  BY <1>2 DEF TransferInv, NoLoop
<1> QED BY <1>2, <1>3, TransferQuietStep DEF Out

LEMMA ReceiverStep ==
    ASSUME TypeInv, TransferInv, NEW n \in Node, NEW m \in Node, NEW p \in net[m][n],
           NEW a \in SeqNo, Consume(n, m, p, Ack(m, a)),
           UNCHANGED <<sender, events, handed, stream, isn>>,
           \A x, y \in Node : <<x, y>> # <<n, m>> =>
              receiver'[x][y] = receiver[x][y] /\ delivered'[x][y] = delivered[x][y],
           NEW b \in 0 .. MaxSend, NEW e \in 0 .. MaxSend, NEW e2 \in 0 .. MaxSend,
           TransferAt(m, n, b, e),
           e <= e2, Taking(m, n, e2)', receiver'[n][m] # NULL,
           Finished(m, n) => Finished(m, n)',
           \/ \E k \in 0 .. e2 : a = SeqAdd(isn[m][n], k + 1)
           \/ Finished(m, n)' /\ a = SeqAdd(isn[m][n], Len(stream[m][n]) + 2),
           \A k \in e + 1 .. e2 : DataPacket(isn[m][n], stream[m][n], k) = p,
           receiver[n][m] = NULL => p.type = "SYN",
           Finished(m, n)' /\ ~ Finished(m, n) => p.type = "FIN"
    PROVE  TransferInv'
<1> DEFINE out == Ack(m, a)
<1>1. n # m
  BY TwoEnds
<1>2. /\ out \in [Node -> SUBSET Packet]
      /\ \A h \in Node : \A q \in out[h] : q.type = "ACK" /\ q.seqno = a /\ h = m
  BY AckType DEF Ack, Only, create_rudp_packet
<1>3. p \in Packet /\ net \in [Node -> [Node -> SUBSET Packet]]
  BY DEF TypeInv, TypeOK
<1> HIDE DEF out
<1>4. /\ \A x, y \in Node : x # n => net'[x][y] \subseteq net[x][y]
      /\ \A y \in Node : net'[n][y] \subseteq net[n][y] \cup out[y]
  BY <1>2, <1>3, ConsumeNet DEF out
<1>5. \A x, y \in Node : \A q \in net'[x][y] :
         q \in net[x][y] \/ (x = n /\ y = m /\ q.type = "ACK" /\ q.seqno = a)
  BY <1>2, <1>4
<1>6. \A x \in Node : NoLoop(x)'
  <2>1. \A x \in Node : sender[x][x] = NULL /\ net[x][x] = {}
    BY DEF TransferInv, NoLoop
  <2>2. \A x \in Node : net'[x][x] = {}
    BY <1>1, <1>5, <2>1
  <2> QED BY <2>1, <2>2 DEF NoLoop
<1>7. p \in Out(m, n)
  BY DEF Out
<1>8. ASSUME NEW x \in Node, NEW y \in Node
      PROVE  \E b1, e1 \in 0 .. MaxSend : TransferAt(x, y, b1, e1)'
  <2>1. CASE x = m /\ y = n
    <3>1. ReceiverMoves(m, n, b, e, e2)
      BY <1>5, <1>7 DEF ReceiverMoves
    <3>2. net'[m][n] \subseteq net[m][n]
      BY <1>1, <1>5
    <3>3. b \in Nat /\ e \in Nat /\ e2 \in Nat
      OBVIOUS
    <3>4. TransferAt(m, n, b, e2)'
      BY <3>1, <3>2, <3>3, TransferReceiver
    <3> QED BY <2>1, <3>4
  <2>2. CASE ~ (x = m /\ y = n)
    <3>1. PICK b1 \in 0 .. MaxSend, e1 \in 0 .. MaxSend : TransferAt(x, y, b1, e1)
      BY DEF TransferInv
    <3>2. /\ \A q \in net'[x][y] : q \in Out(x, y) \/ q.type = "ACK"
          /\ \A q \in net'[y][x] : q.type = "ACK" => q \in net[y][x]
      BY <1>5, <2>2 DEF Out
    <3>3. receiver'[y][x] = receiver[y][x] /\ delivered'[y][x] = delivered[y][x]
      BY <2>2
    <3>4. TransferAt(x, y, b1, e1)'
      BY <3>1, <3>2, <3>3, TransferQuiet
    <3> QED BY <3>4
  <2> QED BY <2>1, <2>2
<1> QED BY <1>6, <1>8 DEF TransferInv

-----------------------------------------------------------------------------
(***************************************************************************)
(* The handlers of the receiver, one lemma per action.                     *)
(***************************************************************************)
LEMMA SynTransfer ==
    ASSUME TypeInv, TypeInv', StreamInv, TransferInv,
           NEW n \in Node, NEW m \in Node, NEW p \in net[m][n], p.type = "SYN",
           MayRestart(receiver[n][m]),
           receiver' = [receiver EXCEPT ![n][m] = create_receiver_session(SeqNext(p.seqno))],
           Consume(n, m, p, Ack(m, SeqNext(p.seqno))),
           UNCHANGED <<sender, events, history>>
    PROVE  TransferInv'
<1> DEFINE x == isn[m][n]
           r == receiver[n][m]
           r2 == create_receiver_session(SeqNext(p.seqno))
<1>1. PICK b \in 0 .. MaxSend, e \in 0 .. MaxSend : TransferAt(m, n, b, e)
  BY DEF TransferInv
<1>2. /\ x \in SeqNo /\ p.seqno = x
      /\ Len(stream[m][n]) \in Nat
      /\ receiver \in [Node -> [Node -> ReceiverSession \cup {NULL}]]
  <2>1. Genuine(m, n, p) /\ FlowInv(m, n)
    BY DEF StreamInv, FlowInv
  <2>2. x # NULL /\ p.seqno = x
    BY <2>1 DEF Genuine
  <2> QED BY <2>1, <2>2, FlowTypes DEF TypeInv, TypeOK
<1>3. /\ SeqNext(p.seqno) \in SeqNo
      /\ SeqNext(p.seqno) = SeqAdd(x, 0 + 1)
  BY <1>2, SeqArithmetic, SeqModAssumption
<1>4. e = 0 /\ ~ Finished(m, n)
  BY <1>1 DEF TransferAt, Taking, Finished, MayRestart
<1>5. /\ \A i, j \in Node : <<i, j>> # <<n, m>> =>
            receiver'[i][j] = receiver[i][j] /\ delivered'[i][j] = delivered[i][j]
      /\ receiver'[n][m] = r2
  BY <1>2 DEF history
<1>6. r2 # NULL
  BY <1>3, CreateReceiverType, NullAssumption
<1>7. ~ Finished(m, n)'
  BY <1>5 DEF Finished, create_receiver_session
<1>8. Taking(m, n, 0)'
  <2>1. n \in RecvHandler => Len(delivered'[n][m]) = 0
    BY <1>1, <1>4 DEF TransferAt, Taking, history
  <2>2. isn'[m][n] = x /\ stream'[m][n] = stream[m][n]
    BY DEF history
  <2>3. r2.expected_seqno = SeqAdd(x, 0 + 1) /\ ~ r2.session_finished
    BY <1>3 DEF create_receiver_session
  <2>4. x # NULL
    BY <1>2, NullAssumption
  <2>5. 0 \in 0 .. Len(stream'[m][n])
    BY <1>2, <2>2
  <2> QED BY <1>5, <1>6, <1>7, <2>1, <2>2, <2>3, <2>4, <2>5 DEF Taking
<1> DEFINE a == SeqNext(p.seqno)
<1>9. /\ a \in SeqNo
      /\ Consume(n, m, p, Ack(m, a))
      /\ \E k \in 0 .. 0 : a = SeqAdd(x, k + 1)
  BY <1>3
<1>10. /\ UNCHANGED <<sender, events, handed, stream, isn>>
       /\ 0 \in 0 .. MaxSend
       /\ receiver'[n][m] # NULL
  BY <1>5, <1>6, SessionAssumption DEF history
<1> HIDE DEF a
<1> QED BY <1>1, <1>4, <1>5, <1>7, <1>8, <1>9, <1>10, ReceiverStep

LEMMA ReceiveNoSessionTransfer ==
    ASSUME FaithfulNumbers, TypeInv, TypeInv', StreamInv, TransferInv,
           NEW n \in Node, NEW m \in Node, NEW p \in net[m][n],
           ReceiveNoSession(n, m, p)
    PROVE  TransferInv'
<1>1. CASE UNCHANGED <<sender, receiver>> /\ Consume(n, m, p, Nothing)
  <2>1. UNCHANGED <<sender, receiver, history>> /\ events' = events
    BY <1>1 DEF ReceiveNoSession
  <2> QED BY <1>1, <2>1, TransferConsumed
<1>2. CASE ~ (UNCHANGED <<sender, receiver>> /\ Consume(n, m, p, Nothing))
  <2> DEFINE seqno == SeqNext(p.seqno)
  <2>1. /\ p.type = "SYN"
        /\ receiver' = [receiver EXCEPT ![n][m] = create_receiver_session(seqno)]
        /\ Consume(n, m, p, Only(m, {create_rudp_packet(SynReply(n), seqno, NoPayload)}))
        /\ UNCHANGED <<sender, events, history>>
    BY <1>2 DEF ReceiveNoSession, session
  <2>2. SynReply(n) = "ACK"
    BY DEF SynReply, SynLine, FaithfulNumbers
  <2>3. Consume(n, m, p, Ack(m, seqno))
    BY <2>1, <2>2 DEF Ack
  <2>4. MayRestart(receiver[n][m])
    BY DEF ReceiveNoSession, HasSession, MayRestart
  <2> QED BY <2>1, <2>3, <2>4, SynTransfer
<1> QED BY <1>1, <1>2

LEMMA ReceiveSynTransfer ==
    ASSUME TypeInv, TypeInv', StreamInv, TransferInv,
           NEW n \in Node, NEW m \in Node, NEW p \in net[m][n], ReceiveSyn(n, m, p)
    PROVE  TransferInv'
<1>1. CASE MayRestart(receiver[n][m])
  BY <1>1, SynTransfer DEF ReceiveSyn
<1>2. CASE ~ MayRestart(receiver[n][m])
  <2>1. /\ UNCHANGED <<sender, receiver, history>> /\ events' = events
        /\ Consume(n, m, p, Nothing)
    BY <1>2 DEF ReceiveSyn
  <2> QED BY <2>1, TransferConsumed
<1> QED BY <1>1, <1>2

LEMMA ReceiveMissingHalfTransfer ==
    ASSUME TypeInv, TransferInv,
           NEW n \in Node, NEW m \in Node, NEW p \in net[m][n], ReceiveMissingHalf(n, m, p)
    PROVE  TransferInv' /\ Forward
<1>1. /\ UNCHANGED <<sender, receiver, history>> /\ events' = events
      /\ Consume(n, m, p, Nothing)
  BY DEF ReceiveMissingHalf, session
<1> QED BY <1>1, TransferConsumed

\* A number at most a window ahead that SEQ_LT puts before the expected one
\* was taken: here the window has to be at most half of all the numbers.
LEMMA LastWindow ==
    ASSUME NEW x \in SeqNo, NEW k \in Nat, NEW e \in Nat,
           k < SeqMod, e + 1 < SeqMod, k <= e + RUDP_WINDOW,
           SEQ_LT(SeqAdd(x, k), SeqAdd(x, e + 1))
    PROVE  k <= e
<1>1. SUFFICES ASSUME e + 1 <= k PROVE FALSE
  OBVIOUS
<1>2. SeqSub(SeqAdd(x, k), SeqAdd(x, e + 1)) = k - e - 1
  BY <1>1, SeqModAssumption DEF SeqAdd, SeqSub, SeqNo
<1>3. 2 * (k - e - 1) >= SeqMod
  BY <1>2 DEF SEQ_LT
<1> QED BY <1>3, SessionAssumption, SeqModAssumption

\* A DATA packet in flight is one of the stream, at most a window ahead of
\* what the receiver has taken.
LEMMA DataInFlight ==
    ASSUME TypeInv, NEW n \in Node, NEW m \in Node, FlowInv(n, m),
           NEW b \in Nat, NEW e \in Nat, TransferAt(n, m, b, e),
           NEW p \in net[n][m], p.type = "DATA"
    PROVE  /\ isn[n][m] \in SeqNo
           /\ e <= Len(stream[n][m])
           /\ \E k \in 1 .. Len(stream[n][m]) :
                 /\ p = DataPacket(isn[n][m], stream[n][m], k)
                 /\ p.seqno = SeqAdd(isn[n][m], k)
                 /\ k <= e + RUDP_WINDOW
<1> DEFINE x == isn[n][m]
           str == stream[n][m]
           L == Len(str)
<1>1. /\ str \in Seq(Message) /\ L \in Nat /\ p \in Packet
      /\ sender[n][m] # NULL => x \in SeqNo /\ sender[n][m] \in SenderSession
      /\ L <= MaxSend
  BY FlowTypes
<1>2. PICK k \in 1 .. L : p.seqno = SeqAdd(x, k) /\ p.payload = str[k]
  BY DEF FlowInv, Genuine, OfStream
<1>3. sender[n][m] # NULL
  <2>1. str # << >>
    BY <1>1, <1>2
  <2> QED BY <2>1 DEF FlowInv, Unopened
<1>4. p = DataPacket(x, str, k)
  BY <1>1, <1>2 DEF DataPacket, create_rudp_packet, Packet
<1>5. b <= e /\ e <= L /\ L - b <= RUDP_WINDOW
  BY <1>3 DEF TransferAt, Sending, Matches, Taking
<1>6. k <= e + RUDP_WINDOW
  <2> HIDE DEF L
  <2> QED BY <1>1, <1>2, <1>5, SessionAssumption
<1> QED BY <1>1, <1>2, <1>3, <1>4, <1>5, <1>6

LEMMA ReceiveDataTransfer ==
    ASSUME TypeInv, TypeInv', StreamInv, TransferInv,
           NEW n \in Node, NEW m \in Node, NEW p \in net[m][n], ReceiveData(n, m, p)
    PROVE  TransferInv'
<1> DEFINE r == receiver[n][m]
           r2 == [r EXCEPT !.status = "OPEN", !.expected_seqno = SeqNext(p.seqno)]
           x == isn[m][n]
           str == stream[m][n]
           L == Len(str)
           a == SeqNext(p.seqno)
<1>1. PICK b \in 0 .. MaxSend, e \in 0 .. MaxSend : TransferAt(m, n, b, e)
  BY DEF TransferInv
<1>2. b \in Nat /\ e \in Nat /\ MaxSend \in Nat
  BY SessionAssumption
<1>3. FlowInv(m, n) /\ p.type = "DATA" /\ r # NULL
  BY DEF StreamInv, ReceiveData
<1>4. /\ L \in Nat /\ L <= MaxSend /\ L + 2 < SeqMod /\ x \in SeqNo /\ e <= L
      /\ r \in ReceiverSession
  <2>1. r \in ReceiverSession
    BY <1>3 DEF TypeInv, TypeOK
  <2>2. L \in Nat /\ L <= MaxSend /\ L + 2 < SeqMod
    BY <1>3, FlowTypes
  <2>3. x \in SeqNo /\ e <= L
    BY <1>1, <1>2, <1>3, DataInFlight
  <2> QED BY <2>1, <2>2, <2>3
<1>5. PICK k \in 1 .. L : /\ p = DataPacket(x, str, k)
                          /\ p.seqno = SeqAdd(x, k)
                          /\ k <= e + RUDP_WINDOW
  BY <1>1, <1>2, <1>3, DataInFlight
<1>6. r.expected_seqno = SeqAdd(x, e + 1)
  BY <1>1, <1>3 DEF TransferAt, Taking
<1>7. a = SeqAdd(x, k + 1) /\ a \in SeqNo
  <2>1. k \in Nat /\ k + 1 < SeqMod /\ k + 1 \in 0 .. SeqMod - 1
    BY <1>4, SeqModAssumption
  <2>2. SeqNext(SeqAdd(x, k)) = SeqAdd(x, k + 1) /\ SeqAdd(x, k + 1) \in SeqNo
    BY <1>4, <2>1, SeqSteps, SeqArithmetic
  <2> QED BY <1>5, <2>2
<1>8. UNCHANGED <<sender, events, handed, stream, isn>>
  BY DEF ReceiveData
<1>9. CASE InSequence(r, p)
  <2>1. k = e + 1
    <3>1. SeqAdd(x, k) = SeqAdd(x, e + 1)
      BY <1>5, <1>6, <1>9 DEF InSequence
    <3>2. k \in 0 .. SeqMod - 1 /\ e + 1 \in 0 .. SeqMod - 1
      BY <1>2, <1>4, SeqModAssumption
    <3> HIDE DEF x
    <3> QED BY <1>4, <3>1, <3>2, SeqInjective
  <2>2. /\ receiver' = [receiver EXCEPT ![n][m] = r2]
        /\ Consume(n, m, p, Ack(m, a))
        /\ IF n \in RecvHandler
           THEN delivered' = [delivered EXCEPT ![n][m] = Append(@, p.payload)]
           ELSE UNCHANGED delivered
    BY <1>9 DEF ReceiveData
  <2>3. /\ r2 \in ReceiverSession /\ r2 # NULL
        /\ r2.expected_seqno = SeqAdd(x, (e + 1) + 1)
        /\ r2.status = "OPEN" /\ r2.session_finished = r.session_finished
    <3>1. r2 \in ReceiverSession
      BY <1>4, <1>7 DEF ReceiverSession
    <3>2. r2 # NULL
      BY <3>1, NullAssumption
    <3>3. /\ r2.expected_seqno = a
          /\ r2.status = "OPEN" /\ r2.session_finished = r.session_finished
      BY <1>4 DEF ReceiverSession
    <3> QED BY <1>7, <2>1, <3>1, <3>2, <3>3
  <2> HIDE DEF r2
  <2>4. /\ \A i, j \in Node : <<i, j>> # <<n, m>> => receiver'[i][j] = receiver[i][j]
        /\ receiver'[n][m] = r2
    <3>1. receiver \in [Node -> [Node -> ReceiverSession \cup {NULL}]]
      BY DEF TypeInv, TypeOK
    <3> QED BY <2>2, <3>1
  <2>5. /\ \A i, j \in Node : <<i, j>> # <<n, m>> => delivered'[i][j] = delivered[i][j]
        /\ n \in RecvHandler => Len(delivered'[n][m]) = Len(delivered[n][m]) + 1
    <3>1. delivered \in [Node -> [Node -> Seq(Message \cup {NoPayload})]]
      BY DEF TypeInv, TypeOK
    <3>2. CASE n \in RecvHandler
      <4> DEFINE d == Append(delivered[n][m], p.payload)
      <4>1. delivered' = [delivered EXCEPT ![n][m] = d]
        BY <2>2, <3>2
      <4>2. Len(d) = Len(delivered[n][m]) + 1
        BY <3>1
      <4> HIDE DEF d
      <4>3. /\ \A i, j \in Node : <<i, j>> # <<n, m>> => delivered'[i][j] = delivered[i][j]
            /\ delivered'[n][m] = d
        BY <3>1, <4>1
      <4> QED BY <3>2, <4>2, <4>3
    <3>3. CASE n \notin RecvHandler
      BY <2>2, <3>3
    <3> QED BY <3>2, <3>3
  <2>6. Finished(m, n)' = Finished(m, n)
    BY <1>3, <2>3, <2>4 DEF Finished
  <2>7. Taking(m, n, e + 1)'
    <3>1. e + 1 \in 0 .. L
      BY <1>2, <1>4, <2>1, <1>5
    <3>2. n \in RecvHandler => Len(delivered'[n][m]) = e + 1
      BY <1>1, <2>5 DEF TransferAt, Taking
    <3>3. Finished(m, n)' => Ended(m, n)'
      BY <1>1, <1>8, <2>6 DEF TransferAt, Taking, Ended
    <3>4. isn'[m][n] = x /\ x # NULL /\ Len(stream'[m][n]) = L
      BY <1>4, <1>8, NullAssumption
    <3> QED BY <2>3, <2>4, <3>1, <3>2, <3>3, <3>4 DEF Taking
  <2>8. /\ \E j \in 0 .. e + 1 : a = SeqAdd(x, j + 1)
        /\ \A j \in e + 1 .. e + 1 : DataPacket(x, str, j) = p
        /\ e + 1 \in 0 .. MaxSend /\ e <= e + 1
        /\ receiver'[n][m] # NULL
    BY <1>2, <1>4, <1>5, <1>7, <2>1, <2>3, <2>4
  <2> DEFINE e2 == e + 1
  <2>9. /\ e2 \in 0 .. MaxSend /\ e <= e2 /\ Taking(m, n, e2)'
        /\ \E j \in 0 .. e2 : a = SeqAdd(x, j + 1)
        /\ \A j \in e + 1 .. e2 : DataPacket(x, str, j) = p
    BY <2>7, <2>8
  <2> HIDE DEF e2, a
  <2> QED BY <1>1, <1>3, <1>7, <1>8, <2>2, <2>4, <2>5, <2>6, <2>8, <2>9, ReceiverStep, SMTT(30)
<1>10. CASE ~ InSequence(r, p) /\ OfLastWindow(r, p)
  <2>1. /\ Consume(n, m, p, Ack(m, a))
        /\ UNCHANGED <<receiver, delivered>>
    BY <1>10 DEF ReceiveData
  <2>2. k <= e
    <3>1. SEQ_LT(SeqAdd(x, k), SeqAdd(x, e + 1))
      BY <1>5, <1>6, <1>10 DEF OfLastWindow
    <3>2. k \in Nat /\ k < SeqMod /\ e + 1 < SeqMod
      BY <1>2, <1>4, SeqModAssumption
    <3> HIDE DEF x
    <3> QED BY <1>2, <1>4, <1>5, <3>1, <3>2, LastWindow
  <2>3. \E j \in 0 .. e : a = SeqAdd(x, j + 1)
    BY <1>2, <1>7, <2>2
  <2>4. Finished(m, n)' = Finished(m, n) /\ Ended(m, n)' = Ended(m, n)
    BY <1>8, <2>1 DEF Finished, Ended
  <2>5. Taking(m, n, e)'
    BY <1>1, <1>8, <2>1, <2>4 DEF TransferAt, Taking
  <2>6. /\ receiver'[n][m] # NULL
        /\ \A i, j \in Node : receiver'[i][j] = receiver[i][j] /\ delivered'[i][j] = delivered[i][j]
        /\ \A j \in e + 1 .. e : DataPacket(x, str, j) = p
        /\ e <= e
    BY <1>2, <1>3, <2>1
  <2> HIDE DEF a
  <2> QED BY <1>1, <1>3, <1>7, <1>8, <2>1, <2>3, <2>4, <2>5, <2>6, ReceiverStep
<1>11. CASE ~ InSequence(r, p) /\ ~ OfLastWindow(r, p)
  <2>1. /\ UNCHANGED <<sender, receiver, history>> /\ events' = events
        /\ Consume(n, m, p, Nothing)
    BY <1>11 DEF ReceiveData, history
  <2> QED BY <2>1, TransferConsumed
<1> QED BY <1>9, <1>10, <1>11

LEMMA ReceiveFinTransfer ==
    ASSUME TypeInv, TypeInv', StreamInv, TransferInv,
           NEW n \in Node, NEW m \in Node, NEW p \in net[m][n], ReceiveFin(n, m, p)
    PROVE  TransferInv'
<1> DEFINE r == receiver[n][m]
           r2 == [r EXCEPT !.session_finished = TRUE]
           x == isn[m][n]
           L == Len(stream[m][n])
           a == SeqNext(r.expected_seqno)
<1>1. PICK b \in 0 .. MaxSend, e \in 0 .. MaxSend : TransferAt(m, n, b, e)
  BY DEF TransferInv
<1>2. b \in Nat /\ e \in Nat /\ MaxSend \in Nat
  BY SessionAssumption
<1>3. FlowInv(m, n) /\ p.type = "FIN" /\ r # NULL /\ r \in ReceiverSession
  BY DEF StreamInv, ReceiveFin, TypeInv, TypeOK
<1>4. CASE r.status = "OPEN" /\ InSequence(r, p)
  <2>1. /\ receiver' = [receiver EXCEPT ![n][m] = r2]
        /\ Consume(n, m, p, Ack(m, a))
        /\ UNCHANGED <<sender, events, history>>
    BY <1>4 DEF ReceiveFin
  <2>2. Ended(m, n) /\ p.seqno = sender[m][n].seqno
    BY <1>1, <1>3 DEF TransferAt, Phases, Out
  <2>3. /\ L \in Nat /\ L <= MaxSend /\ L + 2 < SeqMod /\ x \in SeqNo
    BY <1>3, <2>2, FlowTypes DEF Ended
  <2>4. p.seqno = SeqAdd(x, L + 1)
    BY <1>1, <2>2 DEF TransferAt, Sending, Matches, Ended
  <2>5. r.expected_seqno = SeqAdd(x, e + 1) /\ e \in 0 .. L
    BY <1>1, <1>3 DEF TransferAt, Taking
  <2>6. a = SeqAdd(x, L + 2) /\ a \in SeqNo
    <3>1. r.expected_seqno = SeqAdd(x, L + 1)
      BY <1>4, <2>4 DEF InSequence
    <3>2. /\ L + 1 \in Nat /\ (L + 1) + 1 < SeqMod /\ L + 2 \in 0 .. SeqMod - 1
          /\ L + 2 = (L + 1) + 1
      BY <2>3, SeqModAssumption
    <3>3. SeqNext(SeqAdd(x, L + 1)) = SeqAdd(x, (L + 1) + 1)
      BY <2>3, <3>2, SeqSteps
    <3>4. SeqAdd(x, L + 2) \in SeqNo
      BY <2>3, <3>2, SeqArithmetic
    <3> HIDE DEF L, x
    <3> QED BY <3>1, <3>2, <3>3, <3>4
  <2>7. /\ r2 # NULL /\ r2.session_finished
        /\ r2.expected_seqno = r.expected_seqno /\ r2.status = "OPEN"
    <3>1. r2 \in ReceiverSession
      BY <1>3 DEF ReceiverSession
    <3> QED BY <1>3, <1>4, <3>1, NullAssumption DEF ReceiverSession
  <2> HIDE DEF r2
  <2>8. /\ \A i, j \in Node : <<i, j>> # <<n, m>> => receiver'[i][j] = receiver[i][j]
        /\ receiver'[n][m] = r2
    <3>1. receiver \in [Node -> [Node -> ReceiverSession \cup {NULL}]]
      BY DEF TypeInv, TypeOK
    <3> QED BY <2>1, <3>1
  <2>9. Finished(m, n)' /\ Ended(m, n)'
    BY <2>1, <2>2, <2>7, <2>8 DEF Finished, Ended
  <2>10. Taking(m, n, e)'
    <3>1. /\ isn'[m][n] = x /\ Len(stream'[m][n]) = L /\ delivered'[n][m] = delivered[n][m]
          /\ x # NULL
      BY <2>1, <2>3, NullAssumption DEF history
    <3>2. n \in RecvHandler => Len(delivered[n][m]) = e
      BY <1>1 DEF TransferAt, Taking
    <3> QED BY <2>5, <2>7, <2>8, <2>9, <3>1, <3>2 DEF Taking
  <2>11. /\ e <= e /\ receiver'[n][m] # NULL
         /\ \A k \in e + 1 .. e : DataPacket(x, stream[m][n], k) = p
         /\ UNCHANGED <<sender, events, handed, stream, isn>>
         /\ \A i, j \in Node : <<i, j>> # <<n, m>> =>
              receiver'[i][j] = receiver[i][j] /\ delivered'[i][j] = delivered[i][j]
    BY <1>2, <2>1, <2>7, <2>8 DEF history
  <2> HIDE DEF a
  <2> QED BY <1>1, <1>3, <2>1, <2>6, <2>9, <2>10, <2>11, ReceiverStep
<1>5. CASE ~ (r.status = "OPEN" /\ InSequence(r, p))
  <2>1. /\ UNCHANGED <<sender, receiver, history>> /\ events' = events
        /\ Consume(n, m, p, Nothing)
    BY <1>5 DEF ReceiveFin
  <2> QED BY <2>1, TransferConsumed
<1> QED BY <1>4, <1>5

-----------------------------------------------------------------------------
\* What the network does, and rudp_close, which only leaves a note.
LEMMA LoseTransfer ==
    ASSUME TypeInv, TransferInv, NEW n \in Node, NEW m \in Node, Lose(n, m)
    PROVE  TransferInv' /\ Forward
<1>1. net \in [Node -> [Node -> SUBSET Packet]]
  BY DEF TypeInv, TypeOK
<1>2. PICK p \in net[n][m] : net' = [net EXCEPT ![n][m] = @ \ {p}]
  BY DEF Lose
<1>3. \A x, y \in Node : net'[x][y] \subseteq net[x][y]
  BY <1>1, <1>2
<1>4. \A x \in Node : net'[x][x] = {}
  BY <1>3 DEF TransferInv, NoLoop
<1> QED BY <1>3, <1>4, TransferQuietStep DEF Lose, session, Out

LEMMA CloseTransfer ==
    ASSUME TransferInv, NEW n \in Node, rudp_close(n)
    PROVE  TransferInv' /\ Forward
<1>1. \A x \in Node : net'[x][x] = {}
  BY DEF TransferInv, NoLoop, rudp_close
<1> QED BY <1>1, TransferQuietStep DEF rudp_close, session, Out

LEMMA TransferInit == Init => TransferInv
<1> SUFFICES ASSUME Init PROVE TransferInv
  OBVIOUS
<1>1. \A n \in Node : NoLoop(n)
  BY DEF Init, NoLoop
<1>2. ASSUME NEW n \in Node, NEW m \in Node
      PROVE  TransferAt(n, m, 0, 0)
  <2>1. /\ sender[n][m] = NULL /\ receiver[m][n] = NULL
        /\ net[n][m] = {} /\ net[m][n] = {} /\ events[n][m] = {}
        /\ stream[n][m] = << >> /\ delivered[m][n] = << >>
    BY DEF Init
  <2>2. ~ Finished(n, m)
    BY <2>1 DEF Finished
  <2> QED BY <2>1, <2>2 DEF TransferAt, Sending, Taking, Acks, Phases, Refused, Out
<1>3. 0 \in 0 .. MaxSend
  BY SessionAssumption
<1> QED BY <1>1, <1>2, <1>3 DEF TransferInv

-----------------------------------------------------------------------------
(***************************************************************************)
(* The steps of a sender, seen by all flows.  A call or callback of n may  *)
(* change several of its sender sessions at once.                          *)
(***************************************************************************)
\* What n leaves alone on its way to y, packets lost or repeated apart.
LeavesAlone(n, y) ==
    /\ sender'[n][y] = sender[n][y]
    /\ stream'[n][y] = stream[n][y]
    /\ handed'[n][y] = handed[n][y]
    /\ events'[n][y] \subseteq events[n][y]
    /\ \A q \in net'[n][y] : q \in Out(n, y)

LEMMA SenderStep ==
    ASSUME TypeInv, TypeInv', StreamInv, StreamInv', TransferInv, NEW n \in Node,
           UNCHANGED <<receiver, delivered, isn>>,
           \A x, y \in Node : x # n =>
              /\ sender'[x][y] = sender[x][y]
              /\ stream'[x][y] = stream[x][y]
              /\ handed'[x][y] = handed[x][y]
              /\ events'[x][y] = events[x][y]
              /\ net'[x][y] \subseteq net[x][y],
           \A y \in Node : LeavesAlone(n, y) \/ Moves(n, y),
           \A y \in Node : \A q \in net'[n][y] : q.type = "ACK" => q \in net[n][y]
    PROVE  TransferInv' /\ Forward
<1>1. \A x \in Node : sender[x][x] = NULL /\ net[x][x] = {} /\ events[x][x] = {}
  BY DEF TransferInv, NoLoop, TypeInv, NoTimers
<1>2. \A x \in Node : NoLoop(x)'
  BY <1>1 DEF NoLoop, LeavesAlone, Moves, Out
<1>3. MaxSend \in Nat
  BY SessionAssumption
<1>4. ASSUME NEW x \in Node, NEW y \in Node
      PROVE  \E b, e \in 0 .. MaxSend : TransferAt(x, y, b, e)'
  <2>1. PICK b \in 0 .. MaxSend, e \in 0 .. MaxSend : TransferAt(x, y, b, e)
    BY DEF TransferInv
  <2>2. b \in Nat /\ e \in Nat
    BY <1>3
  <2>3. FlowInv(x, y) /\ FlowInv(x, y)'
    BY DEF StreamInv
  <2>4. \A q \in net'[y][x] : q.type = "ACK" => q \in net[y][x]
    OBVIOUS
  <2>5. CASE x # n \/ LeavesAlone(x, y)
    <3>1. \A q \in net'[x][y] : q \in Out(x, y)
      BY <2>5 DEF LeavesAlone, Out
    <3>2. /\ sender'[x][y] = sender[x][y] /\ stream'[x][y] = stream[x][y]
          /\ handed'[x][y] = handed[x][y] /\ events'[x][y] \subseteq events[x][y]
      BY <2>5 DEF LeavesAlone
    <3>3. TransferAt(x, y, b, e)'
      BY <2>1, <2>4, <3>1, <3>2, TransferQuiet
    <3> QED BY <3>3
  <2>6. CASE x = n /\ Moves(n, y)
    <3>1. PICK b2 \in 0 .. MaxSend : SenderMoves(n, y, b, b2, e)
      BY <2>1, <2>6 DEF Moves
    <3>2. b2 \in Nat
      BY <1>3
    <3>3. TransferAt(n, y, b2, e)'
      BY <2>1, <2>2, <2>3, <2>4, <2>6, <3>1, <3>2, TransferSender DEF Moves
    <3> QED BY <2>6, <3>3
  <2> QED BY <2>5, <2>6
<1>5. Forward
  BY DEF Forward, FlowKept, LeavesAlone
<1> QED BY <1>2, <1>4, <1>5 DEF TransferInv

\* A step that only counts, queues or sends again.
LEMMA SameMoves ==
    ASSUME TypeInv, NEW n \in Node, NEW m \in Node, FlowInv(n, m),
           NEW b \in Nat, NEW e \in Nat, TransferAt(n, m, b, e),
           sender[n][m] # NULL, NEW t, sender'[n][m] = t,
           t.status = sender[n][m].status, t.seqno = sender[n][m].seqno,
           t.session_finished = sender[n][m].session_finished,
           t.sliding_window = sender[n][m].sliding_window,
           t.data_timeout_arg = sender[n][m].data_timeout_arg,
           t.syn_timeout_arg = sender[n][m].syn_timeout_arg,
           t.fin_timeout_arg = sender[n][m].fin_timeout_arg,
           stream'[n][m] = stream[n][m],
           AllKept(t, stream[n][m], handed'[n][m]),
           events'[n][m] \subseteq events[n][m],
           \A q \in net'[n][m] : q \in Out(n, m)
    PROVE  SenderMoves(n, m, b, b, e)
<1> DEFINE s == sender[n][m]
           x == isn[n][m]
           str == stream[n][m]
<1>1. Matches(s, x, str, b) /\ b <= e /\ Phases(n, m)
  BY DEF TransferAt, Sending
<1>2. Matches(t, x, str, b)
  BY <1>1, SameMatches
<1>3. \A q \in events'[n][m] : Timed(s, x, str, b, q)
  BY EventsTimed
<1>4. \A q \in events'[n][m] : Timed(t, x, str, b, q)
  BY <1>3 DEF Timed
<1>5. Len(str) \in Nat /\ b \in b .. e
  BY <1>1, FlowTypes
<1>6. /\ t.status # "SYN_SENT" => receiver[m][n] # NULL
      /\ t.session_finished => Finished(n, m)
  BY <1>1 DEF Phases
<1> QED BY <1>2, <1>4, <1>5, <1>6 DEF SenderMoves

LEMMA TimeoutTransfer ==
    ASSUME TypeInv, TypeInv', StreamInv, StreamInv', TransferInv,
           NEW n \in Node, NEW m \in Node, timeout_callback(n, m)
    PROVE  TransferInv' /\ Forward
<1> DEFINE s == sender[n][m]
<1>1. /\ sender \in [Node -> [Node -> SenderSession \cup {NULL}]]
      /\ events \in [Node -> [Node -> SUBSET Packet]]
      /\ net \in [Node -> [Node -> SUBSET Packet]]
  BY DEF TypeInv, TypeOK
<1>2. UNCHANGED <<receiver, handed, stream, isn, delivered>>
  BY DEF timeout_callback, Expires, history
<1>3. \A x \in Node : net[x][x] = {}
  BY DEF TransferInv, NoLoop
<1>4. CASE UNCHANGED <<sender, net>> /\ \A x, y \in Node : events'[x][y] \subseteq events[x][y]
  BY <1>2, <1>3, <1>4, TransferQuietStep DEF history, Out
<1>5. ASSUME NEW p \in events[n][m], NEW sent, sent \subseteq {p}, RetriesLeft(s, p),
             sender' = [sender EXCEPT ![n][m] = CountAttempt(s, p)],
             events' = [events EXCEPT ![n][m] = (@ \ {p}) \cup sent],
             Transmit(n, m, sent)
      PROVE  TransferInv' /\ Forward
  <2> DEFINE t == CountAttempt(s, p)
  <2>1. s # NULL /\ s \in SenderSession /\ p \in Packet
    BY <1>1 DEF TypeInv, NoTimers
  <2>2. /\ t.status = s.status /\ t.seqno = s.seqno
        /\ t.data_queue = s.data_queue
        /\ t.session_finished = s.session_finished
        /\ t.sliding_window = s.sliding_window
        /\ t.data_timeout_arg = s.data_timeout_arg
        /\ t.syn_timeout_arg = s.syn_timeout_arg
        /\ t.fin_timeout_arg = s.fin_timeout_arg
    BY <2>1, CountFields
  <2>3. t # NULL
    BY <1>5, <2>1, CountAttemptType, NullAssumption
  <2>4. sender' = [sender EXCEPT ![n][m] = t]
    BY <1>5
  <2> HIDE DEF t
  <2>5. /\ sender'[n][m] = t
        /\ \A x, y \in Node : <<x, y>> # <<n, m>> => sender'[x][y] = sender[x][y]
    BY <1>1, <2>4
  <2>6. /\ events'[n][m] \subseteq events[n][m]
        /\ \A x, y \in Node : <<x, y>> # <<n, m>> => events'[x][y] = events[x][y]
    BY <1>1, <1>5
  <2>7. /\ \A q \in net'[n][m] : q \in Out(n, m)
        /\ \A x, y \in Node : <<x, y>> # <<n, m>> => net'[x][y] = net[x][y]
    BY <1>1, <1>5 DEF Transmit, Out
  <2>8. \A y \in Node : y # m => LeavesAlone(n, y)
    BY <1>2, <2>5, <2>6, <2>7 DEF LeavesAlone, Out
  <2>9. Moves(n, m)
    <3>1. ASSUME NEW b \in 0 .. MaxSend, NEW e \in 0 .. MaxSend, TransferAt(n, m, b, e)
          PROVE  SenderMoves(n, m, b, b, e)
      <4>1. b \in Nat /\ e \in Nat
        BY SessionAssumption
      <4>2. AllKept(s, stream[n][m], handed[n][m])
        BY <2>1, <3>1 DEF TransferAt, Sending
      <4>3. AllKept(t, stream[n][m], handed'[n][m])
        BY <1>2, <2>2, <4>2 DEF AllKept
      <4>4. FlowInv(n, m) /\ stream'[n][m] = stream[n][m]
        BY <1>2 DEF StreamInv
      <4> QED BY <2>1, <2>2, <2>5, <2>6, <2>7, <3>1, <4>1, <4>3, <4>4, SameMoves
    <3> QED BY <2>1, <2>3, <2>5, <3>1 DEF Moves
  <2>10. \A y \in Node : \A q \in net'[n][y] : q.type = "ACK" => q \in net[n][y]
    <3>1. ASSUME NEW q \in net'[n][m], q.type = "ACK" PROVE q \in net[n][m]
      <4>1. PICK b \in 0 .. MaxSend, e \in 0 .. MaxSend : TransferAt(n, m, b, e)
        BY DEF TransferInv
      <4>2. Timed(s, isn[n][m], stream[n][m], b, p)
        BY <2>1, <4>1, EventsTimed, SessionAssumption DEF StreamInv
      <4>3. p.type # "ACK"
        BY <4>2 DEF Timed, DataPacket, create_rudp_packet
      <4>4. q \in net[n][m] \cup {p}
        BY <1>1, <1>5 DEF Transmit
      <4> QED BY <3>1, <4>3, <4>4
    <3> QED BY <2>7, <3>1
  <2> QED BY <1>2, <2>5, <2>6, <2>7, <2>8, <2>9, <2>10, SenderStep
<1>6. PICK p \in events[n][m] :
        IF p.type = "DATA" /\ SlotsOf(s, p) = {}
        THEN Enter(n, "undefined") /\ UNCHANGED <<sender, events, net>>
        ELSE IF RetriesLeft(s, p)
        THEN /\ sender' = [sender EXCEPT ![n][m] = CountAttempt(s, p)]
             /\ \E sent \in Sent({p}) :
                  /\ events' = [events EXCEPT ![n][m] = (@ \ {p}) \cup sent]
                  /\ Transmit(n, m, sent)
             /\ UNCHANGED mode
        ELSE /\ events' = [events EXCEPT ![n][m] = @ \ {p}]
             /\ IF n \in Handler THEN Enter(n, "exited") ELSE UNCHANGED mode
             /\ UNCHANGED <<sender, net>>
  BY DEF Register, timeout_callback, Expires
<1>7. CASE \/ UNCHANGED <<sender, events, net>>
           \/ events' = [events EXCEPT ![n][m] = @ \ {p}] /\ UNCHANGED <<sender, net>>
  <2>1. \A x, y \in Node : events'[x][y] \subseteq events[x][y]
    <3>1. CASE events' = events
      BY <3>1
    <3>2. CASE events' = [events EXCEPT ![n][m] = @ \ {p}]
      BY <1>1, <3>2
    <3> QED BY <1>7, <3>1, <3>2
  <2> QED BY <1>4, <1>7, <2>1
<1>8. CASE /\ RetriesLeft(s, p)
           /\ sender' = [sender EXCEPT ![n][m] = CountAttempt(s, p)]
           /\ \E sent \in Sent({p}) :
                  /\ events' = [events EXCEPT ![n][m] = (@ \ {p}) \cup sent]
                  /\ Transmit(n, m, sent)
  BY <1>5, <1>8, SentType
<1> QED BY <1>6, <1>7, <1>8

(***************************************************************************)
(* A step that numbers messages or ends the session: v is the session      *)
(* before send_packet has met with the packets that sendto refuses.        *)
(***************************************************************************)
Grows(n, m, b, b2, e, v, str2, out, sent) ==
    LET s == sender[n][m]
        x == isn[n][m]
        str == stream[n][m]
    IN /\ b2 \in b .. e
       /\ v \in SenderSession /\ str2 \in Seq(Message) /\ Len(str2) <= MaxSend
       /\ Matches(v, x, str2, b2)
       /\ stream'[n][m] = str2
       /\ Len(str) <= Len(str2)
       /\ \A k \in 1 .. Len(str) : str2[k] = str[k]
       /\ AllKept(v, str2, handed'[n][m])
       /\ sent \subseteq out /\ (SendtoFails \/ sent = out)
       /\ \A p \in out : Timed(v, x, str2, b2, p)
       /\ \A p \in out : p.type = "DATA" =>
             \E k \in Len(str) + 1 .. Len(str2) : p = DataPacket(x, str2, k)
       /\ sender'[n][m] = Untimed(v, out \ sent)
       /\ s.status # "FIN_SENT" /\ v.status # "SYN_SENT"
       /\ receiver[m][n] # NULL /\ ~ v.session_finished
       /\ v.status = "FIN_SENT" => v.data_queue = << >>
       /\ \A k \in b2 + 1 .. Len(str) :
             v.data_timeout_arg[k - b2 - 1] = s.data_timeout_arg[k - b - 1]
       /\ \A p \in net'[n][m] : p \in Out(n, m) \cup sent
       /\ \A p \in events'[n][m] :
             \/ p \in sent
             \/ \E k \in b2 + 1 .. Len(str) :
                   p = DataPacket(x, str, k) /\ s.data_timeout_arg[k - b - 1] = p

LEMMA GrowMoves ==
    ASSUME TypeInv, NEW n \in Node, NEW m \in Node, FlowInv(n, m),
           NEW b \in Nat, NEW b2 \in Nat, NEW e \in Nat, TransferAt(n, m, b, e),
           sender[n][m] # NULL, NEW v, NEW str2, NEW out, NEW sent,
           Grows(n, m, b, b2, e, v, str2, out, sent)
    PROVE  SenderMoves(n, m, b, b2, e)
<1> DEFINE s == sender[n][m]
           t == Untimed(v, out \ sent)
           x == isn[n][m]
           str == stream[n][m]
           L == Len(str)
           L2 == Len(str2)
<1>0. /\ b2 \in b .. e
      /\ v \in SenderSession /\ str2 \in Seq(Message) /\ Len(str2) <= MaxSend
      /\ Matches(v, x, str2, b2)
      /\ stream'[n][m] = str2
      /\ L <= L2
      /\ \A k \in 1 .. L : str2[k] = str[k]
      /\ AllKept(v, str2, handed'[n][m])
      /\ sent \subseteq out /\ (SendtoFails \/ sent = out)
      /\ \A p \in out : Timed(v, x, str2, b2, p)
      /\ \A p \in out : p.type = "DATA" => \E k \in L + 1 .. L2 : p = DataPacket(x, str2, k)
      /\ sender'[n][m] = t
      /\ s.status # "FIN_SENT" /\ v.status # "SYN_SENT"
      /\ receiver[m][n] # NULL /\ ~ v.session_finished
      /\ v.status = "FIN_SENT" => v.data_queue = << >>
      /\ \A k \in b2 + 1 .. L : v.data_timeout_arg[k - b2 - 1] = s.data_timeout_arg[k - b - 1]
      /\ \A p \in net'[n][m] : p \in Out(n, m) \cup sent
      /\ \A p \in events'[n][m] :
            \/ p \in sent
            \/ \E k \in b2 + 1 .. L : p = DataPacket(x, str, k) /\ s.data_timeout_arg[k - b - 1] = p
  BY DEF Grows
<1>1. /\ x \in SeqNo /\ str \in Seq(Message) /\ L \in Nat /\ L <= MaxSend
      /\ L2 \in Nat /\ MaxSend + 2 < SeqMod /\ MaxSend \in Nat /\ SeqMod \in Nat
  BY <1>0, FlowTypes, LenProperties, SessionAssumption, SeqModAssumption
<1>2. /\ Matches(t, x, str2, b2)
      /\ \A p \in sent : Timed(t, x, str2, b2, p)
      /\ \A k \in b2 + 1 .. L2 :
            \/ t.data_timeout_arg[k - b2 - 1] = v.data_timeout_arg[k - b2 - 1]
            \/ DataPacket(x, str2, k) \in out
  <2> DEFINE unsent == out \ sent
  <2>1. /\ SendtoFails \/ unsent = {}
        /\ \A p \in unsent : Timed(v, x, str2, b2, p)
        /\ \A p \in sent : Timed(v, x, str2, b2, p) /\ p \notin unsent
        /\ t = Untimed(v, unsent)
        /\ unsent \subseteq out
    BY <1>0
  <2>2. /\ v \in SenderSession /\ str2 \in Seq(Message) /\ b2 \in Nat
        /\ Len(str2) <= MaxSend /\ Matches(v, x, str2, b2)
    BY <1>0
  <2> HIDE DEF unsent, t, x
  <2>3. Matches(t, x, str2, b2)
    BY ONLY <1>1, <2>1, <2>2, UntimedMatches
  <2>4. \A p : Timed(v, x, str2, b2, p) /\ p \notin unsent => Timed(t, x, str2, b2, p)
    BY ONLY <1>1, <2>1, <2>2, UntimedMatches
  <2>5. \A k \in b2 + 1 .. Len(str2) :
            \/ t.data_timeout_arg[k - b2 - 1] = v.data_timeout_arg[k - b2 - 1]
            \/ DataPacket(x, str2, k) \in unsent
    BY ONLY <1>1, <2>1, <2>2, UntimedMatches
  <2> QED BY <2>1, <2>3, <2>4, <2>5
<1>3. /\ t.status = v.status /\ t.data_queue = v.data_queue
      /\ t.session_finished = v.session_finished
  BY <1>0, UntimedType
<1> HIDE DEF t
<1>4. AllKept(t, str2, handed'[n][m])
  BY <1>0, <1>3 DEF AllKept
<1>5. ASSUME NEW k \in b2 + 1 .. L
      PROVE  /\ t.data_timeout_arg[k - b2 - 1] = s.data_timeout_arg[k - b - 1]
             /\ DataPacket(x, str2, k) = DataPacket(x, str, k)
             /\ k \in b2 + 1 .. L2
  <2>1. k \in b2 + 1 .. L2 /\ k \in 1 .. L /\ k \in 0 .. SeqMod - 1
    BY <1>0, <1>1
  <2>2. DataPacket(x, str2, k).type = "DATA"
    BY DEF DataPacket, create_rudp_packet
  <2>3. DataPacket(x, str2, k) \notin out
    <3> SUFFICES ASSUME NEW j \in L + 1 .. L2, DataPacket(x, str2, k) = DataPacket(x, str2, j)
                 PROVE  FALSE
      BY <1>0, <2>2
    <3>1. j \in 0 .. SeqMod - 1
      BY <1>0, <1>1
    <3>2. k = j
      BY <1>1, <2>1, <3>1, DataInjective
    <3> QED BY <1>1, <2>1, <3>2
  <2>4. DataPacket(x, str2, k) = DataPacket(x, str, k)
    BY <1>0, <2>1 DEF DataPacket
  <2>5. t.data_timeout_arg[k - b2 - 1] = v.data_timeout_arg[k - b2 - 1]
    BY <1>2, <2>1, <2>3
  <2>6. v.data_timeout_arg[k - b2 - 1] = s.data_timeout_arg[k - b - 1]
    BY <1>0
  <2> QED BY <2>1, <2>4, <2>5, <2>6
<1>6. \A p \in events'[n][m] : Timed(t, x, str2, b2, p)
  <2> SUFFICES ASSUME NEW p \in events'[n][m], p \notin sent PROVE Timed(t, x, str2, b2, p)
    BY <1>2
  <2>1. PICK k \in b2 + 1 .. L : p = DataPacket(x, str, k) /\ s.data_timeout_arg[k - b - 1] = p
    BY <1>0
  <2> QED BY <1>5, <2>1 DEF Timed
<1>7. \A p \in net'[n][m] : p \in Out(n, m) \/ p.type = "ACK" \/ Timed(t, x, str2, b2, p)
  BY <1>0, <1>2
<1> QED BY <1>0, <1>2, <1>3, <1>4, <1>5, <1>6, <1>7 DEF SenderMoves, t

LEMMA SentChoice ==
    ASSUME NEW packets, NEW sent \in Sent(packets)
    PROVE  sent \subseteq packets /\ (SendtoFails \/ sent = packets)
BY DEF Sent

-----------------------------------------------------------------------------
(***************************************************************************)
(* rudp_sendto.                                                            *)
(***************************************************************************)
\* A message sent at once: what becomes of the session, apart from the variables.
LEMMA DirectGrows ==
    ASSUME NEW s \in SenderSession, NEW x \in SeqNo, NEW str \in Seq(Message),
           NEW b \in Nat, NEW h \in Nat, h + 1 \in Message, Len(str) < MaxSend,
           b <= Len(str), Matches(s, x, str, b), AllKept(s, str, h), s.status = "OPEN",
           NEW i \in Free(s), \A j \in Free(s) : i <= j
    PROVE  LET v == SendDirect(s, i, h + 1)
               str2 == Append(str, h + 1)
               p == v.sliding_window[i]
           IN /\ v \in SenderSession /\ v.status = "OPEN" /\ ~ v.session_finished
              /\ str2 \in Seq(Message) /\ Len(str2) = Len(str) + 1 /\ Len(str2) <= MaxSend
              /\ Matches(v, x, str2, b)
              /\ \A k \in 1 .. Len(str) : str2[k] = str[k]
              /\ AllKept(v, str2, h + 1)
              /\ p = DataPacket(x, str2, Len(str) + 1) /\ p.type = "DATA"
              /\ Timed(v, x, str2, b, p)
              /\ \A k \in b + 1 .. Len(str) :
                    v.data_timeout_arg[k - b - 1] = s.data_timeout_arg[k - b - 1]
<1> DEFINE item == h + 1
           v == SendDirect(s, i, item)
           str2 == Append(str, item)
           p == v.sliding_window[i]
<1>1. Len(str) \in Nat /\ MaxSend \in Nat /\ item \in Message /\ i \in Slot
  BY SessionAssumption DEF Free
<1>2. /\ Matches(v, x, str2, b)
      /\ Len(str2) = Len(str) + 1
      /\ \A k \in 1 .. Len(str) : str2[k] = str[k]
      /\ p = DataPacket(x, str2, Len(str) + 1)
      /\ v.data_timeout_arg[Len(str2) - b - 1] = DataPacket(x, str2, Len(str) + 1)
      /\ \A k \in b + 1 .. Len(str) :
            v.data_timeout_arg[k - b - 1] = s.data_timeout_arg[k - b - 1]
  <2> HIDE DEF item
  <2> QED BY <1>1, DirectMatches
<1>3. v \in SenderSession /\ v.status = "OPEN" /\ v.data_queue = s.data_queue
  <2> HIDE DEF item
  <2> QED BY <1>1, SendDirectType
<1>4. str2 \in Seq(Message) /\ Len(str2) <= MaxSend
  <2>1. str2 \in Seq(Message)
    BY <1>1
  <2> HIDE DEF str2
  <2> QED BY <1>1, <1>2, <2>1
<1>5. AllKept(v, str2, h + 1)
  <2> HIDE DEF v
  <2> QED BY <1>3, DirectKeeps
<1> HIDE DEF v, str2, p, item
<1>6. ~ v.session_finished
  BY <1>2, <1>3 DEF Matches
<1>7. p.type = "DATA"
  BY <1>2 DEF DataPacket, create_rudp_packet
<1>8. Timed(v, x, str2, b, p)
  <2> DEFINE k == Len(str) + 1
  <2>1. k \in b + 1 .. Len(str2) /\ k = Len(str2)
    BY <1>1, <1>2
  <2>2. p = DataPacket(x, str2, k) /\ v.data_timeout_arg[k - b - 1] = p
    BY <1>2, <2>1
  <2> HIDE DEF k
  <2> QED BY <2>1, <2>2 DEF Timed
<1> QED BY <1>2, <1>3, <1>4, <1>5, <1>6, <1>7, <1>8 DEF v, str2, p, item

LEMMA DirectMoves ==
    ASSUME TypeInv, NEW n \in Node, NEW m \in Node, FlowInv(n, m),
           NEW b \in Nat, NEW e \in Nat, TransferAt(n, m, b, e),
           sender[n][m] # NULL, sender[n][m].status = "OPEN", handed[n][m] < MaxSend,
           NEW i \in Free(sender[n][m]), \A j \in Free(sender[n][m]) : i <= j,
           NEW v, v = SendDirect(sender[n][m], i, handed[n][m] + 1),
           NEW sent \in Sent({v.sliding_window[i]}),
           sender'[n][m] = Untimed(v, {v.sliding_window[i]} \ sent),
           events'[n][m] = events[n][m] \cup sent,
           net'[n][m] = net[n][m] \cup sent,
           stream'[n][m] = Append(stream[n][m], handed[n][m] + 1),
           handed'[n][m] = handed[n][m] + 1
    PROVE  /\ SenderMoves(n, m, b, b, e)
           /\ \A q \in sent : q.type # "ACK"
<1> DEFINE s == sender[n][m]
           x == isn[n][m]
           str == stream[n][m]
           h == handed[n][m]
           str2 == Append(str, h + 1)
           L == Len(str)
           out == {v.sliding_window[i]}
<1>1. /\ s \in SenderSession /\ x \in SeqNo /\ str \in Seq(Message) /\ L \in Nat
      /\ h \in Nat /\ L + Len(s.data_queue) = h /\ MaxSend \in Nat
  BY FlowTypes, SessionAssumption
<1>2. L < MaxSend /\ h + 1 \in Message /\ i \in Slot
  <2> DEFINE q == Len(s.data_queue)
  <2>1. q \in Nat
    BY <1>1 DEF SenderSession
  <2>2. h < MaxSend /\ L + q = h
    BY <1>1
  <2>3. i \in Slot
    BY DEF Free
  <2> HIDE DEF L, s, h, q
  <2>4. L < MaxSend /\ h + 1 \in Message
    BY <1>1, <2>1, <2>2 DEF Message
  <2> QED BY <2>3, <2>4
<1>3. /\ Matches(s, x, str, b) /\ AllKept(s, str, h) /\ b <= e /\ b <= L
      /\ receiver[m][n] # NULL
  BY DEF TransferAt, Sending, Phases, Matches
<1>4. /\ v \in SenderSession /\ v.status = "OPEN" /\ ~ v.session_finished
      /\ str2 \in Seq(Message) /\ Len(str2) = L + 1 /\ Len(str2) <= MaxSend
      /\ Matches(v, x, str2, b)
      /\ \A k \in 1 .. L : str2[k] = str[k]
      /\ AllKept(v, str2, h + 1)
      /\ v.sliding_window[i] = DataPacket(x, str2, L + 1)
      /\ v.sliding_window[i].type = "DATA"
      /\ Timed(v, x, str2, b, v.sliding_window[i])
      /\ \A k \in b + 1 .. L : v.data_timeout_arg[k - b - 1] = s.data_timeout_arg[k - b - 1]
  <2>1. /\ s \in SenderSession /\ x \in SeqNo /\ str \in Seq(Message)
        /\ b \in Nat /\ h \in Nat /\ h + 1 \in Message /\ Len(str) < MaxSend
        /\ b <= Len(str) /\ Matches(s, x, str, b) /\ AllKept(s, str, h) /\ s.status = "OPEN"
        /\ i \in Free(s) /\ (\A j \in Free(s) : i <= j)
        /\ v = SendDirect(s, i, h + 1)
    BY <1>1, <1>2, <1>3
  <2> HIDE DEF s, x, str, h
  <2> QED BY ONLY <2>1, DirectGrows DEF str2, L
<1>5. sent \subseteq out /\ (SendtoFails \/ sent = out)
  <2>1. sent \in Sent(out)
    OBVIOUS
  <2> HIDE DEF out
  <2> QED BY ONLY <2>1, SentChoice
<1>6. \A p \in out : /\ p = DataPacket(x, str2, L + 1) /\ p.type = "DATA"
                     /\ Timed(v, x, str2, b, p)
  BY ONLY <1>4 DEF out
<1>7. \A p \in events[n][m] :
          \E k \in b + 1 .. L : p = DataPacket(x, str, k) /\ s.data_timeout_arg[k - b - 1] = p
  BY EventsTimed DEF Timed
<1>8. \A p \in net'[n][m] : p \in Out(n, m) \cup sent
  BY DEF Out
<1>9. \A p \in out : p.type = "DATA" => \E k \in L + 1 .. Len(str2) : p = DataPacket(x, str2, k)
  <2>1. L + 1 \in L + 1 .. Len(str2)
    BY ONLY <1>1, <1>4
  <2> QED BY ONLY <1>6, <2>1
<1>10. b \in b .. e /\ L <= Len(str2)
  <2>1. b \in Nat /\ e \in Nat
    OBVIOUS
  <2> QED BY ONLY <1>1, <1>3, <1>4, <2>1
<1>11. /\ sender'[n][m] = Untimed(v, out \ sent) /\ stream'[n][m] = str2
       /\ handed'[n][m] = h + 1 /\ s.status = "OPEN"
       /\ \A p \in events'[n][m] : p \in sent \/ p \in events[n][m]
  OBVIOUS
<1>12. Grows(n, m, b, b, e, v, str2, out, sent)
  <2> HIDE DEF str2, out
  <2>1. \A p \in events'[n][m] :
            \/ p \in sent
            \/ \E k \in b + 1 .. L :
                  p = DataPacket(x, str, k) /\ s.data_timeout_arg[k - b - 1] = p
    BY ONLY <1>7, <1>11
  <2> QED BY ONLY <1>3, <1>4, <1>5, <1>6, <1>8, <1>9, <1>10, <1>11, <2>1 DEF Grows
<1>13. SenderMoves(n, m, b, b, e)
  <2> HIDE DEF str2, out
  <2> QED BY <1>12, GrowMoves
<1> QED BY <1>5, <1>6, <1>13

LEMMA SendtoSessionTransfer ==
    ASSUME TypeInv, TypeInv', StreamInv, StreamInv', TransferInv,
           NEW n \in Node, NEW m \in Node,
           handed[n][m] < MaxSend, SendtoSession(n, m), UNCHANGED delivered
    PROVE  TransferInv' /\ Forward
<1> DEFINE s == sender[n][m]
           h == handed[n][m]
<1>1. /\ sender \in [Node -> [Node -> SenderSession \cup {NULL}]]
      /\ events \in [Node -> [Node -> SUBSET Packet]]
      /\ net \in [Node -> [Node -> SUBSET Packet]]
      /\ handed \in [Node -> [Node -> 0 .. MaxSend]]
      /\ stream \in [Node -> [Node -> Seq(Message)]]
  BY DEF TypeInv, TypeOK
<1>2. s # NULL /\ s \in SenderSession /\ UNCHANGED <<receiver, delivered, isn>>
  BY <1>1 DEF SendtoSession
<1>3. h \in Nat /\ h + 1 \in Message /\ FlowInv(n, m)
  BY <1>1, SessionAssumption DEF StreamInv, Message
<1>4. /\ handed'[n][m] = h + 1
      /\ \A x, y \in Node : <<x, y>> # <<n, m>> => handed'[x][y] = handed[x][y]
  <2>1. handed' = [handed EXCEPT ![n][m] = h + 1]
    BY DEF SendtoSession
  <2> HIDE DEF h
  <2> QED BY <1>1, <2>1
<1>5. ASSUME NEW i \in Free(s), \A j \in Free(s) : i <= j,
             s.status = "OPEN", NEW v, v = SendDirect(s, i, h + 1),
             NEW sent \in Sent({v.sliding_window[i]}),
             sender' = [sender EXCEPT ![n][m] = Untimed(v, {v.sliding_window[i]} \ sent)],
             events' = [events EXCEPT ![n][m] = @ \cup sent],
             Transmit(n, m, sent),
             stream' = [stream EXCEPT ![n][m] = Append(@, h + 1)]
      PROVE  TransferInv' /\ Forward
  <2> DEFINE t == Untimed(v, {v.sliding_window[i]} \ sent)
             str2 == Append(stream[n][m], h + 1)
  <2>1. v \in SenderSession
    BY <1>2, <1>3, <1>5, SendDirectType DEF Free
  <2>2. t # NULL
    BY <2>1, UntimedType
  <2>3. sender' = [sender EXCEPT ![n][m] = t] /\ stream' = [stream EXCEPT ![n][m] = str2]
    BY <1>5
  <2> HIDE DEF t, str2
  <2>4. /\ sender'[n][m] = t
        /\ \A x, y \in Node : <<x, y>> # <<n, m>> => sender'[x][y] = sender[x][y]
    BY <1>1, <2>3
  <2>5. /\ stream'[n][m] = str2
        /\ \A x, y \in Node : <<x, y>> # <<n, m>> => stream'[x][y] = stream[x][y]
    BY <1>1, <2>3
  <2>6. /\ events'[n][m] = events[n][m] \cup sent
        /\ \A x, y \in Node : <<x, y>> # <<n, m>> => events'[x][y] = events[x][y]
    BY <1>1, <1>5
  <2>7. /\ net'[n][m] = net[n][m] \cup sent
        /\ \A x, y \in Node : <<x, y>> # <<n, m>> => net'[x][y] = net[x][y]
    BY <1>1, <1>5 DEF Transmit
  <2>8. \A y \in Node : y # m => LeavesAlone(n, y)
    BY <1>4, <2>4, <2>5, <2>6, <2>7 DEF LeavesAlone, Out
  <2>9. ASSUME NEW b \in 0 .. MaxSend, NEW e \in 0 .. MaxSend, TransferAt(n, m, b, e)
        PROVE  SenderMoves(n, m, b, b, e) /\ \A q \in sent : q.type # "ACK"
    <3>1. b \in Nat /\ e \in Nat
      BY SessionAssumption
    <3>2. /\ sender'[n][m] = Untimed(v, {v.sliding_window[i]} \ sent)
          /\ stream'[n][m] = Append(stream[n][m], h + 1)
      BY <2>4, <2>5 DEF t, str2
    <3>3. /\ FlowInv(n, m) /\ TransferAt(n, m, b, e) /\ s # NULL /\ s.status = "OPEN"
          /\ h < MaxSend /\ (\A j \in Free(s) : i <= j)
          /\ v = SendDirect(s, i, h + 1)
          /\ events'[n][m] = events[n][m] \cup sent
          /\ net'[n][m] = net[n][m] \cup sent
          /\ handed'[n][m] = h + 1
      BY <1>2, <1>3, <1>4, <1>5, <2>6, <2>7, <2>9
    <3> QED BY <3>1, <3>2, <3>3, DirectMoves
  <2>10. Moves(n, m)
    BY <1>2, <2>2, <2>4, <2>9 DEF Moves
  <2>11. \A y \in Node : \A q \in net'[n][y] : q.type = "ACK" => q \in net[n][y]
    <3>1. PICK b \in 0 .. MaxSend, e \in 0 .. MaxSend : TransferAt(n, m, b, e)
      BY DEF TransferInv
    <3> QED BY <2>7, <2>9, <3>1
  <2> QED BY <1>2, <1>4, <2>4, <2>5, <2>6, <2>7, <2>8, <2>10, <2>11, SenderStep
<1>6. ASSUME sender' = [sender EXCEPT ![n][m] = Enqueue(s, h + 1)],
             UNCHANGED <<events, net, stream>>
      PROVE  TransferInv' /\ Forward
  <2> DEFINE t == Enqueue(s, h + 1)
  <2>1. /\ t.status = s.status /\ t.seqno = s.seqno
        /\ t.session_finished = s.session_finished
        /\ t.sliding_window = s.sliding_window
        /\ t.data_timeout_arg = s.data_timeout_arg
        /\ t.syn_timeout_arg = s.syn_timeout_arg
        /\ t.fin_timeout_arg = s.fin_timeout_arg
        /\ t # NULL
    BY <1>2, <1>3, EnqueueMatches, NullAssumption
  <2>2. ASSUME NEW b \in 0 .. MaxSend, NEW e \in 0 .. MaxSend, TransferAt(n, m, b, e)
        PROVE  AllKept(t, stream[n][m], h + 1)
    <3>1. AllKept(s, stream[n][m], h)
      BY <1>2, <2>2 DEF TransferAt, Sending
    <3> QED BY <1>2, <1>3, <3>1, EnqueueKeeps
  <2>3. sender' = [sender EXCEPT ![n][m] = t]
    BY <1>6
  <2> HIDE DEF t
  <2>4. /\ sender'[n][m] = t
        /\ \A x, y \in Node : <<x, y>> # <<n, m>> => sender'[x][y] = sender[x][y]
    BY <1>1, <2>3
  <2>5. \A y \in Node : y # m => LeavesAlone(n, y)
    BY <1>4, <1>6, <2>4 DEF LeavesAlone, Out
  <2>6. Moves(n, m)
    <3>1. ASSUME NEW b \in 0 .. MaxSend, NEW e \in 0 .. MaxSend, TransferAt(n, m, b, e)
          PROVE  SenderMoves(n, m, b, b, e)
      <4>1. b \in Nat /\ e \in Nat
        BY SessionAssumption
      <4>2. AllKept(t, stream[n][m], handed'[n][m])
        BY <1>4, <2>2, <3>1
      <4>3. \A q \in net'[n][m] : q \in Out(n, m)
        BY <1>6, SMTT(30) DEF Out
      <4> QED BY <1>2, <1>3, <1>6, <2>1, <2>4, <3>1, <4>1, <4>2, <4>3, SameMoves
    <3> QED BY <1>2, <2>1, <2>4, <3>1 DEF Moves
  <2> QED BY <1>2, <1>4, <1>6, <2>4, <2>5, <2>6, SenderStep
<1>7. \/ \E i \in Free(s) :
            LET v == SendDirect(s, i, h + 1)
            IN /\ \A j \in Free(s) : i <= j
               /\ s.status = "OPEN"
               /\ \E sent \in Sent({v.sliding_window[i]}) :
                     /\ sender' = [sender EXCEPT ![n][m] = Untimed(v, {v.sliding_window[i]} \ sent)]
                     /\ events' = [events EXCEPT ![n][m] = @ \cup sent]
                     /\ Transmit(n, m, sent)
               /\ stream' = [stream EXCEPT ![n][m] = Append(@, h + 1)]
      \/ /\ sender' = [sender EXCEPT ![n][m] = Enqueue(s, h + 1)]
         /\ UNCHANGED <<events, net, stream>>
  BY DEF SendtoSession, Register
<1> QED BY <1>5, <1>6, <1>7

\* A step of n by which only the flow from n to m may change: the sender
\* session is new, or the process fails.
LEMMA OpeningStep ==
    ASSUME TypeInv, TransferInv, NEW n \in Node, NEW m \in Node, n # m,
           UNCHANGED <<receiver, delivered, stream>>,
           \A x, y \in Node : <<x, y>> # <<n, m>> =>
              /\ sender'[x][y] = sender[x][y]
              /\ handed'[x][y] = handed[x][y]
              /\ isn'[x][y] = isn[x][y]
              /\ events'[x][y] = events[x][y]
              /\ net'[x][y] = net[x][y],
           \A q \in net'[n][m] : q.type = "ACK" => q \in net[n][m],
           \E b, e \in 0 .. MaxSend : TransferAt(n, m, b, e)'
    PROVE  TransferInv'
<1>1. \A x \in Node : NoLoop(x)'
  BY DEF TransferInv, NoLoop
<1>2. ASSUME NEW x \in Node, NEW y \in Node, <<x, y>> # <<n, m>>
      PROVE  \E b, e \in 0 .. MaxSend : TransferAt(x, y, b, e)'
  <2>1. PICK b \in 0 .. MaxSend, e \in 0 .. MaxSend : TransferAt(x, y, b, e)
    BY DEF TransferInv
  <2>2. /\ sender'[x][y] = sender[x][y] /\ handed'[x][y] = handed[x][y]
        /\ isn'[x][y] = isn[x][y] /\ events'[x][y] = events[x][y]
        /\ net'[x][y] = net[x][y]
    BY <1>2
  <2>3. \A q \in net'[y][x] : q.type = "ACK" => q \in net[y][x]
    OBVIOUS
  <2>4. TransferAt(x, y, b, e)'
    BY <2>1, <2>2, <2>3, TransferQuiet DEF Out
  <2> QED BY <2>4
<1> QED BY <1>1, <1>2 DEF TransferInv

\* Before its first message a flow knows of nothing.
LEMMA BeforeOpening ==
    ASSUME NEW n \in Node, NEW m \in Node, FlowInv(n, m),
           NEW b, NEW e, TransferAt(n, m, b, e), TypeInv,
           mode[n] = "up", sender[n][m] = NULL
    PROVE  /\ isn[n][m] = NULL /\ receiver[m][n] = NULL
           /\ stream[n][m] = << >> /\ events[n][m] = {}
           /\ e = 0
           /\ m \in RecvHandler => Len(delivered[m][n]) = 0
           /\ \A p \in net[m][n] : p.type # "ACK"
           /\ \A p \in net[n][m] : p.type \notin {"SYN", "FIN"}
           /\ receiver[n][m] = NULL => handed[n][m] = 0
<1>1. /\ isn[n][m] = NULL /\ stream[n][m] = << >> /\ events[n][m] = {}
      /\ receiver[n][m] = NULL => handed[n][m] = 0
  BY DEF FlowInv, Unopened, TypeInv, NoTimers
<1>2. receiver[m][n] = NULL /\ e = 0 /\ (m \in RecvHandler => Len(delivered[m][n]) = 0)
  BY <1>1 DEF TransferAt, Taking
<1>3. \A p \in net[m][n] : p.type # "ACK"
  BY <1>2 DEF TransferAt, Acks
<1>4. \A p \in net[n][m] : p.type \notin {"SYN", "FIN"}
  BY <1>1 DEF FlowInv, Genuine, TransferAt, Phases, Ended, Out
<1> QED BY <1>1, <1>2, <1>3, <1>4

LEMMA SendtoReceiverOnlyTransfer ==
    ASSUME TypeInv, StreamInv, TransferInv, NEW n \in Node, NEW m \in Node, n # m,
           mode[n] = "up", SendtoReceiverOnly(n, m), UNCHANGED delivered
    PROVE  TransferInv'
<1>1. /\ net \in [Node -> [Node -> SUBSET Packet]]
      /\ handed \in [Node -> [Node -> 0 .. MaxSend]]
      /\ isn \in [Node -> [Node -> SeqNo \cup {NULL}]]
  BY DEF TypeInv, TypeOK
<1>2. /\ UNCHANGED <<sender, receiver, events, stream, delivered>>
      /\ sender[n][m] = NULL
  BY DEF SendtoReceiverOnly
<1>3. /\ \A x, y \in Node : <<x, y>> # <<n, m>> =>
            /\ handed'[x][y] = handed[x][y]
            /\ isn'[x][y] = isn[x][y]
            /\ net'[x][y] = net[x][y]
      /\ \A q \in net'[n][m] : q \in net[n][m] \/ q.type = "SYN"
  <2>1. CASE \E seqno \in InitialSeqno :
                /\ Transmit(n, m, {create_rudp_packet("SYN", seqno, NoPayload)})
                /\ isn' = [isn EXCEPT ![n][m] = seqno]
                /\ UNCHANGED handed
    BY <1>1, <2>1 DEF Transmit, create_rudp_packet
  <2>2. CASE handed' = [handed EXCEPT ![n][m] = @ + 1] /\ UNCHANGED <<net, isn>>
    BY <1>1, <2>2
  <2> QED BY <2>1, <2>2 DEF SendtoReceiverOnly
<1>4. PICK b \in 0 .. MaxSend, e \in 0 .. MaxSend : TransferAt(n, m, b, e)
  BY DEF TransferInv
<1>5. receiver[m][n] = NULL
  BY <1>2, <1>4, BeforeOpening DEF StreamInv
<1>6. net'[m][n] = net[m][n]
  BY <1>3
<1>7. TransferAt(n, m, b, e)'
  BY <1>2, <1>3, <1>4, <1>5, <1>6, TransferQuiet DEF Out
<1> QED BY <1>2, <1>3, <1>7, OpeningStep

LEMMA SendtoOpensTransfer ==
    ASSUME TypeInv, StreamInv, TransferInv, NEW n \in Node, NEW m \in Node, n # m,
           mode[n] = "up", handed[n][m] < MaxSend, SendtoOpens(n, m), UNCHANGED delivered
    PROVE  TransferInv'
<1>1. /\ sender \in [Node -> [Node -> SenderSession \cup {NULL}]]
      /\ events \in [Node -> [Node -> SUBSET Packet]]
      /\ net \in [Node -> [Node -> SUBSET Packet]]
      /\ handed \in [Node -> [Node -> 0 .. MaxSend]]
      /\ isn \in [Node -> [Node -> SeqNo \cup {NULL}]]
  BY DEF TypeInv, TypeOK
<1>2. UNCHANGED <<receiver, delivered, stream>> /\ sender[n][m] = NULL /\ receiver[n][m] = NULL
  BY DEF SendtoOpens, HasSession
<1>3. PICK b \in 0 .. MaxSend, e \in 0 .. MaxSend : TransferAt(n, m, b, e)
  BY DEF TransferInv
<1>4. /\ isn[n][m] = NULL /\ receiver[m][n] = NULL
      /\ stream[n][m] = << >> /\ events[n][m] = {}
      /\ m \in RecvHandler => Len(delivered[m][n]) = 0
      /\ \A p \in net[m][n] : p.type # "ACK"
      /\ \A p \in net[n][m] : p.type \notin {"SYN", "FIN"}
      /\ handed[n][m] = 0
  BY <1>2, <1>3, BeforeOpening DEF StreamInv
<1>5. PICK x \in InitialSeqno :
         LET s == create_sender_session(x, handed[n][m] + 1)
             syn == {s.syn_timeout_arg}
         IN \E sent \in Sent(syn) :
            /\ sender' = [sender EXCEPT ![n][m] = Untimed(s, syn \ sent)]
            /\ events' = [events EXCEPT ![n][m] = @ \cup sent]
            /\ Transmit(n, m, sent)
            /\ isn' = [isn EXCEPT ![n][m] = x]
  BY DEF SendtoOpens, Register
<1> DEFINE s == create_sender_session(x, handed[n][m] + 1)
           syn == s.syn_timeout_arg
<1>6. PICK sent \in Sent({syn}) :
            /\ sender' = [sender EXCEPT ![n][m] = Untimed(s, {syn} \ sent)]
            /\ events' = [events EXCEPT ![n][m] = @ \cup sent]
            /\ Transmit(n, m, sent)
            /\ isn' = [isn EXCEPT ![n][m] = x]
  BY <1>5
<1>7. sent \subseteq {syn} /\ (SendtoFails \/ sent = {syn})
  BY SentChoice
<1>8. /\ x \in SeqNo /\ handed[n][m] + 1 = 1 /\ 1 \in Message
  BY <1>4, NodeAssumption, SessionAssumption DEF Message
<1>9. /\ s \in SenderSession
      /\ Matches(s, x, << >>, 0) /\ Timed(s, x, << >>, 0, syn)
      /\ syn = create_rudp_packet("SYN", x, NoPayload)
      /\ s.status = "SYN_SENT" /\ ~ s.session_finished /\ s.data_queue = <<1>>
  BY <1>8, CreateSenderType, CreateMatches
<1> DEFINE unsent == {syn} \ sent
           t == Untimed(s, unsent)
<1>10. /\ t \in SenderSession /\ t # NULL
       /\ t.status = s.status /\ t.data_queue = s.data_queue
       /\ t.session_finished = s.session_finished
  BY <1>9, UntimedType
<1>11. /\ Matches(t, x, << >>, 0)
       /\ \A p : Timed(s, x, << >>, 0, p) /\ p \notin unsent => Timed(t, x, << >>, 0, p)
  <2>1. /\ SendtoFails \/ unsent = {}
        /\ \A p \in unsent : Timed(s, x, << >>, 0, p)
        /\ << >> \in Seq(Message) /\ Len(<< >>) <= MaxSend /\ 0 \in Nat
    BY <1>7, <1>9, SessionAssumption
  <2>2. s \in SenderSession /\ x \in SeqNo /\ Matches(s, x, << >>, 0)
    BY <1>8, <1>9
  <2> HIDE DEF s, unsent
  <2> QED BY ONLY <2>1, <2>2, UntimedMatches
<1>12. /\ sender'[n][m] = t
       /\ \A i, j \in Node : <<i, j>> # <<n, m>> => sender'[i][j] = sender[i][j]
  <2>1. sender' = [sender EXCEPT ![n][m] = t]
    BY <1>6
  <2> HIDE DEF t
  <2> QED BY <1>1, <2>1
<1> HIDE DEF s, syn, t
<1>13. /\ events'[n][m] = sent
       /\ \A i, j \in Node : <<i, j>> # <<n, m>> => events'[i][j] = events[i][j]
  BY <1>1, <1>4, <1>6
<1>14. /\ net'[n][m] = net[n][m] \cup sent
       /\ \A i, j \in Node : <<i, j>> # <<n, m>> => net'[i][j] = net[i][j]
  BY <1>1, <1>6 DEF Transmit
<1>15. /\ isn'[n][m] = x
       /\ \A i, j \in Node : <<i, j>> # <<n, m>> => isn'[i][j] = isn[i][j]
  BY <1>1, <1>6
<1>16. /\ handed'[n][m] = 1
       /\ \A i, j \in Node : <<i, j>> # <<n, m>> => handed'[i][j] = handed[i][j]
  <2>1. handed' = [handed EXCEPT ![n][m] = handed[n][m] + 1]
    BY DEF SendtoOpens
  <2> QED BY <1>1, <1>8, <2>1
<1>17. \A p \in sent : p = syn /\ p.type = "SYN"
  BY <1>7, <1>9 DEF create_rudp_packet
<1>18. t.syn_timeout_arg = NULL => sent = {}
  <2>1. syn \in sent => Timed(t, x, << >>, 0, syn)
    BY <1>9, <1>11
  <2>2. syn \in sent => t.syn_timeout_arg # NULL
    <3>1. syn \in Packet
      BY <1>8, <1>9, PacketType
    <3> QED BY <1>9, <1>17, <2>1, <3>1, NullAssumption
              DEF Timed, create_rudp_packet, DataPacket
  <2> QED BY <1>17, <2>2
<1>19. TransferAt(n, m, 0, 0)'
  <2>1. stream'[n][m] = << >> /\ receiver'[m][n] = NULL /\ net'[m][n] = net[m][n]
    BY <1>2, <1>4, <1>14
  <2>2. ~ Finished(n, m)' /\ 0 \in 0 .. 0
    BY <2>1 DEF Finished
  <2>3. Sending(n, m, 0)'
    <3>1. AllKept(t, << >>, 1)
      BY <1>9, <1>10 DEF AllKept
    <3>2. sent \subseteq Unacked(t)
      <4>1. t.seqno = x
        BY <1>9, <1>10, <1>11, SeqModAssumption, <1>8 DEF Matches, SeqAdd, SeqNo
      <4> QED BY <1>9, <1>10, <1>17, <4>1 DEF Unacked
    <3> QED BY <1>11, <1>12, <1>13, <1>15, <1>16, <2>1, <3>1, <3>2 DEF Sending
  <2>4. Taking(n, m, 0)'
    BY <1>2, <1>4, <2>1, <2>2 DEF Taking
  <2>5. Acks(n, m, 0)'
    BY <1>4, <2>1 DEF Acks
  <2>6. \A p \in Out(n, m)' : p.type # "FIN" /\ (p.type = "SYN" => p \in sent)
    BY <1>4, <1>13, <1>14, <1>17 DEF Out
  <2>7. Phases(n, m)'
    BY <1>9, <1>10, <1>12, <2>6 DEF Phases
  <2>8. Refused(n, m, 0, 0)'
    <3>1. \A k \in 0 + 1 .. Len(<< >>) : FALSE
      OBVIOUS
    <3> QED BY <1>9, <1>10, <1>12, <1>18, <2>1, <2>6, <3>1 DEF Refused
  <2> QED BY <2>3, <2>4, <2>5, <2>7, <2>8 DEF TransferAt
<1>20. \A q \in net'[n][m] : q.type = "ACK" => q \in net[n][m]
  BY <1>14, <1>17
<1>21. \E b1, e1 \in 0 .. MaxSend : TransferAt(n, m, b1, e1)'
  BY <1>19, SessionAssumption
<1> QED BY <1>2, <1>12, <1>13, <1>14, <1>15, <1>16, <1>20, <1>21, OpeningStep

LEMMA SendtoTransfer ==
    ASSUME TypeInv, TypeInv', StreamInv, StreamInv', TransferInv,
           NEW n \in Node, NEW m \in Node, rudp_sendto(n, m)
    PROVE  TransferInv'
<1>1. n # m /\ mode[n] = "up" /\ handed[n][m] < MaxSend /\ UNCHANGED delivered
  BY NodeAssumption DEF rudp_sendto
<1> QED BY <1>1, SendtoOpensTransfer, SendtoReceiverOnlyTransfer, SendtoSessionTransfer
        DEF rudp_sendto

-----------------------------------------------------------------------------
(***************************************************************************)
(* The ACKs.  What is queued is flushed by an open session.                *)
(***************************************************************************)
Flushable(u, x, str, b, h) ==
    /\ u \in SenderSession /\ x \in SeqNo /\ str \in Seq(Message)
    /\ b \in Nat /\ Len(str) <= MaxSend /\ Matches(u, x, str, b)
    /\ u.status # "FIN_SENT" /\ 613 \notin AsWritten
    /\ Len(str) + Len(u.data_queue) <= MaxSend /\ AllKept(u, str, h)

Flushed(u, x, str, b, h, v, str2, out) ==
    /\ v \in SenderSession /\ v.status # "SYN_SENT" /\ ~ v.session_finished
    /\ v.status = "FIN_SENT" => v.data_queue = << >>
    /\ str2 \in Seq(Message) /\ Len(str2) <= MaxSend /\ Len(str) <= Len(str2)
    /\ \A k \in 1 .. Len(str) : str2[k] = str[k]
    /\ Matches(v, x, str2, b)
    /\ AllKept(v, str2, h)
    /\ \A p \in out :
          /\ p.type # "ACK"
          /\ Timed(v, x, str2, b, p)
          /\ p.type = "DATA" => \E k \in Len(str) + 1 .. Len(str2) : p = DataPacket(x, str2, k)
    /\ \A k \in b + 1 .. Len(str) :
          v.data_timeout_arg[k - b - 1] = u.data_timeout_arg[k - b - 1]

LEMMA FlushFacts ==
    ASSUME NEW u, NEW x, NEW str, NEW b, NEW h, Flushable(u, x, str, b, h)
    PROVE  Flushed(u, x, str, b, h, OpenSession(u), str \o Moved(u), NewPackets(u))
<1> DEFINE v == OpenSession(u)
           str2 == str \o Moved(u)
           out == NewPackets(u)
           L == Len(str)
           L2 == Len(str2)
<1>0. /\ u \in SenderSession /\ x \in SeqNo /\ str \in Seq(Message)
      /\ b \in Nat /\ L <= MaxSend /\ Matches(u, x, str, b)
      /\ u.status # "FIN_SENT" /\ 613 \notin AsWritten
      /\ L + Len(u.data_queue) <= MaxSend /\ AllKept(u, str, h)
  BY DEF Flushable
<1>1. /\ str2 \in Seq(Message)
      /\ L2 = L + Len(Moved(u))
      /\ L2 <= MaxSend
      /\ \A k \in 1 .. L : str2[k] = str[k]
      /\ Matches(v, x, str2, b)
      /\ out = {DataPacket(x, str2, k) : k \in L + 1 .. L2}
      /\ \A k \in b + 1 .. L : v.data_timeout_arg[k - b - 1] = u.data_timeout_arg[k - b - 1]
      /\ \A k \in L + 1 .. L2 : v.data_timeout_arg[k - b - 1] = DataPacket(x, str2, k)
  BY <1>0, OpenMatches
<1>2. v \in SenderSession /\ v.status = "OPEN" /\ v.data_queue = Remaining(u)
  BY <1>0, OpenSessionType
<1>3. AllKept(v, str2, h)
  BY <1>0, <1>2, OpenKeeps
<1> HIDE DEF v, str2, out
<1>4. L \in Nat /\ L2 \in Nat /\ b <= L /\ L <= L2
  <2>1. Moved(u) \in Seq(Message)
    BY <1>0, QueueSplit
  <2>2. Len(Moved(u)) \in Nat /\ L \in Nat
    BY ONLY <1>0, <2>1, LenProperties
  <2>3. b <= L
    BY <1>0 DEF Matches
  <2> HIDE DEF L, L2
  <2> QED BY ONLY <1>1, <2>2, <2>3
<1>5. ~ v.session_finished
  BY <1>1, <1>2 DEF Matches
<1>6. ASSUME NEW p \in out
      PROVE  /\ p.type = "DATA"
             /\ Timed(v, x, str2, b, p)
             /\ \E k \in L + 1 .. L2 : p = DataPacket(x, str2, k)
  <2>1. PICK k \in L + 1 .. L2 : p = DataPacket(x, str2, k)
    BY <1>1
  <2>2. k \in b + 1 .. L2 /\ v.data_timeout_arg[k - b - 1] = p
    BY <1>0, <1>1, <1>4, <2>1
  <2>3. p.type = "DATA"
    BY <2>1 DEF DataPacket, create_rudp_packet
  <2>4. Timed(v, x, str2, b, p)
    BY <2>1, <2>2, <2>3 DEF Timed
  <2> QED BY <2>1, <2>3, <2>4
<1>7. Flushed(u, x, str, b, h, v, str2, out)
  BY <1>0, <1>1, <1>2, <1>3, <1>4, <1>5, <1>6 DEF Flushed
<1> QED BY <1>7 DEF v, str2, out

\* A drained session sends its FIN.
LEMMA FinFlushed ==
    ASSUME NEW u, NEW x \in SeqNo, NEW str \in Seq(Message), NEW b \in Nat, NEW h,
           NEW v, NEW str2, NEW out,
           Flushed(u, x, str, b, h, v, str2, out), Drained(v)
    PROVE  Flushed(u, x, str, b, h, SendFin(v), str2, out \cup {FinPacket(v)})
<1> DEFINE t == SendFin(v)
           fin == FinPacket(v)
<1>1. /\ v \in SenderSession /\ ~ v.session_finished
      /\ str2 \in Seq(Message) /\ Len(str2) <= MaxSend /\ Len(str) <= Len(str2)
      /\ \A k \in 1 .. Len(str) : str2[k] = str[k]
      /\ Matches(v, x, str2, b) /\ AllKept(v, str2, h)
      /\ \A p \in out :
            /\ p.type # "ACK" /\ Timed(v, x, str2, b, p)
            /\ p.type = "DATA" => \E k \in Len(str) + 1 .. Len(str2) : p = DataPacket(x, str2, k)
      /\ \A k \in b + 1 .. Len(str) :
            v.data_timeout_arg[k - b - 1] = u.data_timeout_arg[k - b - 1]
  BY DEF Flushed
<1>2. /\ t \in SenderSession /\ t.status = "FIN_SENT" /\ t.data_queue = v.data_queue
      /\ fin \in Packet /\ v.status = "OPEN" /\ v.data_queue = << >>
  BY <1>1, SendFinType DEF Drained
<1>3. /\ Matches(t, x, str2, b)
      /\ t.data_timeout_arg = v.data_timeout_arg
      /\ t.fin_timeout_arg = create_rudp_packet("FIN", t.seqno, NoPayload)
      /\ fin = t.fin_timeout_arg
      /\ ~ t.session_finished
  BY <1>1, FinMatches
<1> HIDE DEF t, fin
<1>4. fin.type = "FIN" /\ Timed(t, x, str2, b, fin)
  BY <1>2, <1>3 DEF Timed, create_rudp_packet
<1>5. \A p \in out : Timed(t, x, str2, b, p)
  BY <1>1, <1>2, <1>3 DEF Timed
<1>6. AllKept(t, str2, h)
  BY <1>1, <1>2 DEF AllKept
<1>7. Flushed(u, x, str, b, h, t, str2, out \cup {fin})
  BY <1>1, <1>2, <1>3, <1>4, <1>5, <1>6 DEF Flushed
<1> QED BY <1>7 DEF t, fin

\* How such a session v comes to be: u is n's session for m before the flush,
\* with b2 messages acknowledged, and sendto takes sent of the packets out.
FlushSends(n, m, b, b2, e, u, v, out, sent) ==
    LET s == sender[n][m]
        x == isn[n][m]
        str == stream[n][m]
    IN /\ s.status # "FIN_SENT" /\ b2 \in b .. e /\ receiver[m][n] # NULL
       /\ Flushed(u, x, str, b2, handed[n][m], v, stream'[n][m], out)
       /\ \A k \in b2 + 1 .. Len(str) :
             u.data_timeout_arg[k - b2 - 1] = s.data_timeout_arg[k - b - 1]
       /\ sent \subseteq out /\ (SendtoFails \/ sent = out)
       /\ sender'[n][m] = Untimed(v, out \ sent)
       /\ handed'[n][m] = handed[n][m]
       /\ net'[n][m] \subseteq net[n][m] \cup sent
       /\ \A p \in events'[n][m] :
             \/ p \in sent
             \/ \E k \in b2 + 1 .. Len(str) :
                   p = DataPacket(x, str, k) /\ s.data_timeout_arg[k - b - 1] = p

LEMMA FlushedMoves ==
    ASSUME TypeInv, NEW n \in Node, NEW m \in Node, FlowInv(n, m),
           NEW b \in Nat, NEW b2 \in Nat, NEW e \in Nat, TransferAt(n, m, b, e),
           sender[n][m] # NULL, NEW u, NEW v, NEW out, NEW sent,
           FlushSends(n, m, b, b2, e, u, v, out, sent)
    PROVE  SenderMoves(n, m, b, b2, e) /\ \A q \in sent : q.type # "ACK"
<1> DEFINE str2 == stream'[n][m]
<1>1. \A p \in net'[n][m] : p \in Out(n, m) \cup sent
  BY DEF Out, FlushSends
<1>2. stream'[n][m] = str2
  OBVIOUS
<1> HIDE DEF str2
<1>3. Grows(n, m, b, b2, e, v, str2, out, sent)
  BY <1>1, <1>2 DEF Grows, Flushed, FlushSends
<1>4. SenderMoves(n, m, b, b2, e)
  BY <1>3, GrowMoves
<1> QED BY <1>4 DEF Flushed, FlushSends

\* An ACK for a session that exists and for something its peer has taken.
LEMMA AckFacts ==
    ASSUME TypeInv, StreamInv, NEW n \in Node, NEW m \in Node, NEW p \in net[m][n],
           p.type = "ACK", sender[n][m] # NULL,
           NEW b, NEW e, TransferAt(n, m, b, e)
    PROVE  /\ receiver[m][n] # NULL /\ p.seqno \in SeqNo
           /\ isn[n][m] \in SeqNo /\ stream[n][m] \in Seq(Message)
           /\ Len(stream[n][m]) \in Nat /\ Len(stream[n][m]) <= MaxSend
           /\ Len(stream[n][m]) + 2 < SeqMod
           /\ sender[n][m] \in SenderSession
           /\ Len(stream[n][m]) + Len(sender[n][m].data_queue) <= MaxSend
           /\ Matches(sender[n][m], isn[n][m], stream[n][m], b)
           /\ AllKept(sender[n][m], stream[n][m], handed[n][m])
           /\ b \in Nat /\ e \in Nat /\ b <= e /\ e <= Len(stream[n][m]) /\ b <= Len(stream[n][m])
           /\ \/ \E k \in 0 .. e : p.seqno = SeqAdd(isn[n][m], k + 1)
              \/ Finished(n, m) /\ p.seqno = SeqAdd(isn[n][m], Len(stream[n][m]) + 2)
<1>1. FlowInv(n, m) /\ p.seqno \in SeqNo
  BY DEF StreamInv, TypeInv, TypeOK, Packet
<1>2. /\ receiver[m][n] # NULL
      /\ \/ \E k \in 0 .. e : p.seqno = SeqAdd(isn[n][m], k + 1)
         \/ Finished(n, m) /\ p.seqno = SeqAdd(isn[n][m], Len(stream[n][m]) + 2)
  BY DEF TransferAt, Acks
<1>3. /\ Matches(sender[n][m], isn[n][m], stream[n][m], b)
      /\ AllKept(sender[n][m], stream[n][m], handed[n][m])
      /\ b <= e /\ b \in 0 .. Len(stream[n][m]) /\ e \in 0 .. Len(stream[n][m])
  BY DEF TransferAt, Sending, Taking, Matches
<1>4. /\ isn[n][m] \in SeqNo /\ stream[n][m] \in Seq(Message)
      /\ Len(stream[n][m]) \in Nat /\ Len(stream[n][m]) <= MaxSend
      /\ Len(stream[n][m]) + 2 < SeqMod
      /\ sender[n][m] \in SenderSession
      /\ Len(stream[n][m]) + Len(sender[n][m].data_queue) = handed[n][m]
      /\ handed[n][m] <= MaxSend
  BY <1>1, FlowTypes
<1>5. Len(stream[n][m]) + Len(sender[n][m].data_queue) <= MaxSend
  BY ONLY <1>4
<1>6. b \in Nat /\ e \in Nat /\ e <= Len(stream[n][m]) /\ b <= Len(stream[n][m])
  BY ONLY <1>3, <1>4
<1> QED BY ONLY <1>1, <1>2, <1>3, <1>4, <1>5, <1>6

\* What n has sent to its peers once it consumed p, which came from m.
LEMMA ConsumeFacts ==
    ASSUME TypeInv, TransferInv, NEW n \in Node, NEW m \in Node, NEW p \in net[m][n],
           NEW out \in [Node -> SUBSET Packet], Consume(n, m, p, out)
    PROVE  /\ \A x, y \in Node : x # n => net'[x][y] \subseteq net[x][y]
           /\ \A y \in Node : net'[n][y] \subseteq net[n][y] \cup out[y]
<1>1. p \in Packet /\ net \in [Node -> [Node -> SUBSET Packet]]
  BY DEF TypeInv, TypeOK
<1> QED BY <1>1, ConsumeNet

LEMMA ReceiveAckSynSentTransfer ==
    ASSUME FaithfulNumbers, TypeInv, TypeInv', StreamInv, StreamInv', TransferInv,
           NEW n \in Node, NEW m \in Node, NEW p \in net[m][n], ReceiveAckSynSent(n, m, p)
    PROVE  TransferInv' /\ Forward
<1> DEFINE s == sender[n][m]
           v == OpenSession(s)
           out == NewPackets(s)
<1>1. /\ sender \in [Node -> [Node -> SenderSession \cup {NULL}]]
      /\ events \in [Node -> [Node -> SUBSET Packet]]
      /\ stream \in [Node -> [Node -> Seq(Message)]]
  BY DEF TypeInv, TypeOK
<1>2. /\ p.type = "ACK" /\ s # NULL /\ s.status = "SYN_SENT" /\ s \in SenderSession
      /\ UNCHANGED <<receiver, handed, isn, delivered>>
  BY <1>1 DEF ReceiveAckSynSent, ReceiveAck
<1>3. CASE SeqPrev(p.seqno) = s.seqno
  <2>1. PICK sent \in Sent(out) :
            /\ sender' = [sender EXCEPT ![n][m] = Untimed(v, out \ sent)]
            /\ events' = [events EXCEPT ![n][m] = (@ \ {s.syn_timeout_arg}) \cup sent]
            /\ Consume(n, m, p, Only(m, sent))
    BY <1>3 DEF ReceiveAckSynSent, Register, Cancel
  <2> DEFINE str2 == stream[n][m] \o Moved(s)
             t == Untimed(v, out \ sent)
  <2>2. stream' = [stream EXCEPT ![n][m] = str2]
    BY <1>3 DEF ReceiveAckSynSent
  <2>3. sent \subseteq out /\ (SendtoFails \/ sent = out)
    BY SentChoice
  <2>4. sent \subseteq Packet
    <3>1. out \subseteq Packet
      BY <1>2, FlushQueueType
    <3> QED BY <2>3, <3>1
  <2>5. v \in SenderSession
    BY <1>2, OpenSessionType
  <2>6. t # NULL
    BY <2>5, UntimedType
  <2>7. sender' = [sender EXCEPT ![n][m] = t]
    BY <2>1
  <2> HIDE DEF t, str2
  <2>8. /\ sender'[n][m] = t
        /\ \A x, y \in Node : <<x, y>> # <<n, m>> => sender'[x][y] = sender[x][y]
    BY <1>1, <2>7
  <2>9. /\ stream'[n][m] = str2
        /\ \A x, y \in Node : <<x, y>> # <<n, m>> => stream'[x][y] = stream[x][y]
    BY <1>1, <2>2
  <2>10. /\ events'[n][m] = (events[n][m] \ {s.syn_timeout_arg}) \cup sent
         /\ \A x, y \in Node : <<x, y>> # <<n, m>> => events'[x][y] = events[x][y]
    BY <1>1, <2>1
  <2>11. /\ \A x, y \in Node : x # n => net'[x][y] \subseteq net[x][y]
         /\ \A y \in Node : y # m => net'[n][y] \subseteq net[n][y]
         /\ net'[n][m] \subseteq net[n][m] \cup sent
    <3> DEFINE only == Only(m, sent)
    <3>1. /\ only \in [Node -> SUBSET Packet] /\ only[m] = sent
          /\ \A h \in Node : h # m => only[h] = {}
      BY <2>4, OnlyType
    <3> HIDE DEF only
    <3>2. Consume(n, m, p, only)
      BY <2>1 DEF only
    <3>3. /\ \A x, y \in Node : x # n => net'[x][y] \subseteq net[x][y]
          /\ \A y \in Node : net'[n][y] \subseteq net[n][y] \cup only[y]
      BY <3>1, <3>2, ConsumeFacts
    <3> QED BY <3>1, <3>3
  <2>12. \A y \in Node : y # m => LeavesAlone(n, y)
    BY <1>2, <2>8, <2>9, <2>10, <2>11 DEF LeavesAlone, Out
  <2>13. ASSUME NEW b \in 0 .. MaxSend, NEW e \in 0 .. MaxSend, TransferAt(n, m, b, e)
         PROVE  SenderMoves(n, m, b, b, e) /\ \A q \in sent : q.type # "ACK"
    <3> DEFINE x == isn[n][m]
               str == stream[n][m]
    <3>1. /\ receiver[m][n] # NULL /\ x \in SeqNo /\ str \in Seq(Message)
          /\ Len(str) \in Nat /\ Len(str) <= MaxSend
          /\ Len(str) + Len(s.data_queue) <= MaxSend
          /\ Matches(s, x, str, b) /\ AllKept(s, str, handed[n][m])
          /\ b \in Nat /\ e \in Nat /\ b <= e /\ FlowInv(n, m)
      BY <1>2, <2>13, AckFacts DEF StreamInv
    <3>2. Len(str) = 0 /\ s.status # "FIN_SENT" /\ 613 \notin AsWritten
      BY <1>2, <3>1 DEF Matches, FaithfulNumbers
    <3>3. Flushed(s, x, str, b, handed[n][m], v, str2, out)
      <4> DEFINE h == handed[n][m]
      <4>1. /\ s \in SenderSession /\ x \in SeqNo /\ str \in Seq(Message)
            /\ b \in Nat /\ Len(str) <= MaxSend /\ Matches(s, x, str, b)
            /\ s.status # "FIN_SENT" /\ 613 \notin AsWritten
            /\ Len(str) + Len(s.data_queue) <= MaxSend /\ AllKept(s, str, h)
            /\ v = OpenSession(s) /\ str2 = str \o Moved(s) /\ out = NewPackets(s)
        BY <1>2, <3>1, <3>2 DEF str2
      <4> HIDE DEF s, x, str, v, out, h
      <4>2. Flushable(s, x, str, b, h)
        BY ONLY <4>1 DEF Flushable
      <4>3. Flushed(s, x, str, b, h, v, str2, out)
        BY ONLY <4>1, <4>2, FlushFacts
      <4> QED BY ONLY <4>3 DEF h
    <3>4. \A q \in events'[n][m] : q \in sent
      <4>1. ASSUME NEW q \in events[n][m] PROVE q = s.syn_timeout_arg
        <5>1. Timed(s, x, str, b, q)
          BY <1>2, <2>13, <3>1, EventsTimed
        <5>2. \A k \in b + 1 .. Len(str) : FALSE
          BY <3>1, <3>2
        <5> QED BY <1>2, <5>1, <5>2 DEF Timed
      <4> QED BY <2>10, <4>1
    <3>5. Flushed(s, isn[n][m], stream[n][m], b, handed[n][m], v, stream'[n][m], out)
      BY <2>9, <3>3
    <3>6. /\ FlowInv(n, m) /\ b \in Nat /\ e \in Nat /\ TransferAt(n, m, b, e)
          /\ sender[n][m] # NULL /\ sender[n][m].status # "FIN_SENT" /\ b \in b .. e
          /\ receiver[m][n] # NULL
          /\ \A k \in b + 1 .. Len(stream[n][m]) :
                s.data_timeout_arg[k - b - 1] = sender[n][m].data_timeout_arg[k - b - 1]
          /\ sent \subseteq out /\ (SendtoFails \/ sent = out)
          /\ sender'[n][m] = Untimed(v, out \ sent) /\ handed'[n][m] = handed[n][m]
          /\ net'[n][m] \subseteq net[n][m] \cup sent
      BY <1>2, <2>3, <2>8, <2>11, <2>13, <3>1 DEF t
    <3>7. \A q \in events'[n][m] :
              \/ q \in sent
              \/ \E k \in b + 1 .. Len(stream[n][m]) :
                    /\ q = DataPacket(isn[n][m], stream[n][m], k)
                    /\ sender[n][m].data_timeout_arg[k - b - 1] = q
      BY <3>4
    <3> HIDE DEF v, out, s
    <3>8. FlushSends(n, m, b, b, e, s, v, out, sent)
      BY ONLY <3>5, <3>6, <3>7 DEF FlushSends, s
    <3> QED BY ONLY TypeInv, <3>6, <3>8, FlushedMoves
  <2>14. Moves(n, m)
    BY <1>2, <2>6, <2>8, <2>13 DEF Moves
  <2>15. \A y \in Node : \A q \in net'[n][y] : q.type = "ACK" => q \in net[n][y]
    <3>1. PICK b \in 0 .. MaxSend, e \in 0 .. MaxSend : TransferAt(n, m, b, e)
      BY DEF TransferInv
    <3> QED BY <2>11, <2>13, <3>1
  <2> QED BY <1>2, <2>8, <2>9, <2>10, <2>11, <2>12, <2>14, <2>15, SenderStep
<1>4. CASE SeqPrev(p.seqno) # s.seqno
  <2>1. /\ UNCHANGED <<sender, receiver, history>> /\ events' = events
        /\ Consume(n, m, p, Nothing)
    BY <1>4 DEF ReceiveAckSynSent, history
  <2> QED BY <2>1, TransferConsumed
<1> QED BY <1>3, <1>4

\* The oldest packet of the window is acknowledged only if it was taken.
LEMMA OldestTaken ==
    ASSUME TypeInv, StreamInv, NEW n \in Node, NEW m \in Node, NEW p \in net[m][n],
           p.type = "ACK", sender[n][m] # NULL, sender[n][m].status = "OPEN",
           AcksOldest(sender[n][m], p),
           NEW b, NEW e, TransferAt(n, m, b, e)
    PROVE  b + 1 \in b .. e /\ b + 1 <= Len(stream[n][m])
<1> DEFINE s == sender[n][m]
           x == isn[n][m]
           str == stream[n][m]
           L == Len(str)
<1>1. /\ p.seqno \in SeqNo /\ x \in SeqNo /\ str \in Seq(Message) /\ L \in Nat /\ L <= MaxSend
      /\ L + 2 < SeqMod /\ s \in SenderSession /\ Matches(s, x, str, b)
      /\ b \in Nat /\ e \in Nat /\ b <= e /\ e <= L /\ b <= L
      /\ \/ \E k \in 0 .. e : p.seqno = SeqAdd(x, k + 1)
         \/ p.seqno = SeqAdd(x, L + 2)
  BY AckFacts
<1>2. /\ s.sliding_window[0] # NULL /\ s.sliding_window[0].seqno = SeqPrev(p.seqno)
  BY DEF AcksOldest
<1>3. /\ b + 1 \in 0 .. L /\ s.sliding_window[0] = DataPacket(x, str, b + 1)
  BY <1>1, <1>2, ShiftMatches
<1>4. SeqPrev(p.seqno) = SeqAdd(x, b + 1)
  BY <1>2, <1>3 DEF DataPacket, create_rudp_packet
<1>5. SeqMod \in Nat
  BY SeqModAssumption
<1> HIDE DEF L
<1>6. CASE \E k \in 0 .. e : p.seqno = SeqAdd(x, k + 1)
  <2>1. PICK k \in 0 .. e : p.seqno = SeqAdd(x, k + 1)
    BY <1>6
  <2>2. k \in Nat /\ k + 1 < SeqMod /\ k \in 0 .. SeqMod - 1 /\ b + 1 \in 0 .. SeqMod - 1
    BY <1>1, <1>3, <1>5
  <2>3. SeqAdd(x, k) = SeqAdd(x, b + 1)
    BY <1>1, <1>4, <2>1, <2>2, SeqSteps
  <2>4. k = b + 1
    BY <1>1, <2>2, <2>3, SeqInjective
  <2>5. b + 1 <= e
    BY <2>1, <2>4
  <2> QED BY <1>1, <1>3, <2>5 DEF L
<1>7. CASE p.seqno = SeqAdd(x, L + 2)
  <2>1. /\ L + 1 \in Nat /\ (L + 1) + 1 < SeqMod /\ L + 1 \in 0 .. SeqMod - 1
        /\ b + 1 \in 0 .. SeqMod - 1 /\ (L + 1) + 1 = L + 2
    BY <1>1, <1>3, <1>5
  <2>2. SeqPrev(SeqAdd(x, (L + 1) + 1)) = SeqAdd(x, L + 1)
    BY <1>1, <2>1, SeqSteps
  <2>3. SeqAdd(x, L + 1) = SeqAdd(x, b + 1)
    BY <1>4, <1>7, <2>1, <2>2
  <2>4. L + 1 = b + 1
    BY <1>1, <2>1, <2>3, SeqInjective
  <2> QED BY <1>1, <1>3, <2>4
<1> QED BY <1>1, <1>6, <1>7

\* A drained session on which nothing but the FIN is sent.
LEMMA DrainedMoves ==
    ASSUME TypeInv, NEW n \in Node, NEW m \in Node, FlowInv(n, m),
           NEW b \in Nat, NEW e \in Nat, TransferAt(n, m, b, e),
           sender[n][m] # NULL, Drained(sender[n][m]),
           NEW sent, sent \subseteq {FinPacket(sender[n][m])},
           SendtoFails \/ sent = {FinPacket(sender[n][m])},
           sender'[n][m] = Untimed(SendFin(sender[n][m]), {FinPacket(sender[n][m])} \ sent),
           stream'[n][m] = stream[n][m], handed'[n][m] = handed[n][m],
           events'[n][m] \subseteq events[n][m] \cup sent,
           net'[n][m] \subseteq net[n][m] \cup sent
    PROVE  SenderMoves(n, m, b, b, e) /\ \A q \in sent : q.type # "ACK"
<1> DEFINE s == sender[n][m]
           x == isn[n][m]
           str == stream[n][m]
           h == handed[n][m]
           v == SendFin(s)
           out == {} \cup {FinPacket(s)}
<1>1. /\ s \in SenderSession /\ x \in SeqNo /\ str \in Seq(Message)
      /\ Len(str) \in Nat /\ Len(str) <= MaxSend
  BY FlowTypes
<1>2. /\ s.status = "OPEN" /\ ~ s.session_finished /\ Matches(s, x, str, b)
      /\ AllKept(s, str, h) /\ receiver[m][n] # NULL /\ b \in b .. e
  BY DEF Drained, TransferAt, Sending, Phases
<1>3. \A q \in events[n][m] :
         \E k \in b + 1 .. Len(str) :
            q = DataPacket(x, str, k) /\ s.data_timeout_arg[k - b - 1] = q
  BY <1>2, EventsTimed DEF Timed
<1>4. Flushed(s, x, str, b, h, s, str, {})
  <2> HIDE DEF s, x, str, h
  <2> QED BY <1>1, <1>2 DEF Flushed
<1>5. Flushed(s, x, str, b, h, v, str, out)
  <2> DEFINE none == {}
  <2>1. Flushed(s, x, str, b, h, s, str, none) /\ Drained(s)
    BY <1>4
  <2> HIDE DEF s, x, str, h, none
  <2>2. Flushed(s, x, str, b, h, SendFin(s), str, none \cup {FinPacket(s)})
    BY <1>1, <2>1, FinFlushed
  <2> QED BY <2>2 DEF none
<1>6. /\ sent \subseteq out /\ (SendtoFails \/ sent = out)
      /\ sender'[n][m] = Untimed(v, out \ sent)
  <2>1. out = {FinPacket(s)}
    OBVIOUS
  <2> HIDE DEF out
  <2> QED BY <2>1
<1>7. \A p \in events'[n][m] :
         \/ p \in sent
         \/ \E k \in b + 1 .. Len(str) :
               p = DataPacket(x, str, k) /\ s.data_timeout_arg[k - b - 1] = p
  BY <1>3
<1> HIDE DEF v, out
<1>8. FlushSends(n, m, b, b, e, s, v, out, sent)
  BY <1>2, <1>5, <1>6, <1>7 DEF FlushSends
<1> HIDE DEF s
<1> QED BY <1>8, FlushedMoves

\* The session whose window slides, and whose FIN may follow at once.
SlideSends(n, m, u, v, out, sent) ==
    LET s == sender[n][m]
        w == FlushQueue(u)
    IN /\ s.status = "OPEN" /\ s.sliding_window[0] # NULL
       /\ u = ShiftWindow(s)
       /\ \/ v = w /\ out = NewPackets(u)
          \/ Drained(w) /\ v = SendFin(w) /\ out = NewPackets(u) \cup {FinPacket(w)}
       /\ sent \subseteq out /\ (SendtoFails \/ sent = out)
       /\ sender'[n][m] = Untimed(v, out \ sent)
       /\ stream'[n][m] = stream[n][m] \o Moved(u)
       /\ handed'[n][m] = handed[n][m]
       /\ events'[n][m] \subseteq (events[n][m] \ {s.data_timeout_arg[0]}) \cup sent
       /\ net'[n][m] \subseteq net[n][m] \cup sent

LEMMA SlideMoves ==
    ASSUME FaithfulNumbers, TypeInv, NEW n \in Node, NEW m \in Node, FlowInv(n, m),
           NEW b \in Nat, NEW e \in Nat, TransferAt(n, m, b, e),
           sender[n][m] # NULL, b + 1 \in b .. e,
           NEW u, NEW v, NEW out, NEW sent, SlideSends(n, m, u, v, out, sent)
    PROVE  SenderMoves(n, m, b, b + 1, e) /\ \A q \in sent : q.type # "ACK"
<1> DEFINE s == sender[n][m]
           x == isn[n][m]
           str == stream[n][m]
           str2 == stream'[n][m]
           h == handed[n][m]
           w == FlushQueue(u)
           L == Len(str)
<1>0. /\ s.status = "OPEN" /\ s.sliding_window[0] # NULL /\ u = ShiftWindow(s)
      /\ \/ v = w /\ out = NewPackets(u)
         \/ Drained(w) /\ v = SendFin(w) /\ out = NewPackets(u) \cup {FinPacket(w)}
      /\ sent \subseteq out /\ (SendtoFails \/ sent = out)
      /\ sender'[n][m] = Untimed(v, out \ sent)
      /\ str2 = str \o Moved(u)
      /\ handed'[n][m] = h
      /\ events'[n][m] \subseteq (events[n][m] \ {s.data_timeout_arg[0]}) \cup sent
      /\ net'[n][m] \subseteq net[n][m] \cup sent
  BY DEF SlideSends
<1>1. /\ s \in SenderSession /\ x \in SeqNo /\ str \in Seq(Message)
      /\ L \in Nat /\ L <= MaxSend /\ h <= MaxSend /\ h \in Nat
      /\ L + Len(s.data_queue) = h
  BY FlowTypes
<1>2. /\ Matches(s, x, str, b) /\ AllKept(s, str, h) /\ receiver[m][n] # NULL
  BY <1>0 DEF TransferAt, Sending, Phases
<1>3. /\ u \in SenderSession /\ u.status = "OPEN" /\ u.data_queue = s.data_queue
  BY <1>0, <1>1, ShiftWindowType
<1>4. /\ b + 1 \in 0 .. L /\ Matches(u, x, str, b + 1)
      /\ \A k \in b + 2 .. L : u.data_timeout_arg[k - (b + 1) - 1] = s.data_timeout_arg[k - b - 1]
  BY <1>0, <1>1, <1>2, ShiftMatches
<1>5. Flushed(u, x, str, b + 1, h, w, str2, NewPackets(u))
  <2> DEFINE c == b + 1
  <2>1. L + Len(u.data_queue) <= MaxSend
    <3> DEFINE q == Len(s.data_queue)
    <3>1. L + q <= MaxSend
      <4> HIDE DEF L, q, h
      <4> QED BY <1>1 DEF h, L, q
    <3> QED BY <1>3, <3>1
  <2>2. AllKept(u, str, h)
    BY <1>2, <1>3 DEF AllKept
  <2>3. c \in Nat /\ 613 \notin AsWritten /\ u.status # "FIN_SENT"
    BY <1>3 DEF FaithfulNumbers
  <2>4. OpenSession(u) = w
    BY <1>3, <2>3, FlushIsOpen
  <2>5. Matches(u, x, str, c) /\ str2 = str \o Moved(u)
    BY <1>0, <1>4
  <2> HIDE DEF c, s, x, str, h, w, str2
  <2>6. Flushable(u, x, str, c, h)
    BY <1>1, <1>3, <2>1, <2>2, <2>3, <2>5 DEF Flushable
  <2>7. Flushed(u, x, str, c, h, OpenSession(u), str \o Moved(u), NewPackets(u))
    BY <2>6, FlushFacts
  <2> QED BY <2>4, <2>5, <2>7 DEF c
<1>6. Flushed(u, x, str, b + 1, h, v, str2, out)
  <2> DEFINE c == b + 1
             fresh == NewPackets(u)
  <2>1. /\ Flushed(u, x, str, c, h, w, str2, fresh) /\ c \in Nat
        /\ x \in SeqNo /\ str \in Seq(Message)
    BY <1>1, <1>5
  <2>2. \/ v = w /\ out = fresh
        \/ Drained(w) /\ v = SendFin(w) /\ out = fresh \cup {FinPacket(w)}
    BY <1>0
  <2> HIDE DEF c, s, x, str, h, w, str2, fresh
  <2>3. Drained(w) => Flushed(u, x, str, c, h, SendFin(w), str2, fresh \cup {FinPacket(w)})
    BY <2>1, FinFlushed
  <2>4. Flushed(u, x, str, c, h, v, str2, out)
    BY <2>1, <2>2, <2>3
  <2> QED BY <2>4 DEF c
<1>7. \A p \in events'[n][m] :
         \/ p \in sent
         \/ \E k \in b + 2 .. L :
               p = DataPacket(x, str, k) /\ s.data_timeout_arg[k - b - 1] = p
  <2> SUFFICES ASSUME NEW p \in events[n][m], p # s.data_timeout_arg[0]
               PROVE  \E k \in b + 2 .. L :
                         p = DataPacket(x, str, k) /\ s.data_timeout_arg[k - b - 1] = p
    BY <1>0
  <2>1. Timed(s, x, str, b, p)
    BY EventsTimed
  <2>2. PICK k \in b + 1 .. L : p = DataPacket(x, str, k) /\ s.data_timeout_arg[k - b - 1] = p
    BY <1>0, <2>1 DEF Timed
  <2>3. k # b + 1
    <3>1. (b + 1) - b - 1 = 0
      OBVIOUS
    <3> QED BY <2>2, <3>1
  <2>4. k \in b + 2 .. L
    BY <1>1, <2>2, <2>3
  <2> QED BY <2>2, <2>4
<1> DEFINE c == b + 1
<1>8. /\ c \in Nat /\ c \in b .. e /\ c + 1 = b + 2
  OBVIOUS
<1>9. FlushSends(n, m, b, c, e, u, v, out, sent)
  <2>1. Flushed(u, x, str, c, h, v, str2, out)
    BY <1>6
  <2>2. /\ \A k \in c + 1 .. L : u.data_timeout_arg[k - c - 1] = s.data_timeout_arg[k - b - 1]
        /\ \A p \in events'[n][m] :
              \/ p \in sent
              \/ \E k \in c + 1 .. L :
                    p = DataPacket(x, str, k) /\ s.data_timeout_arg[k - b - 1] = p
    BY <1>4, <1>7, <1>8
  <2> HIDE DEF c
  <2> QED BY <1>0, <1>2, <1>8, <2>1, <2>2 DEF FlushSends
<1>10. SenderMoves(n, m, b, c, e) /\ \A q \in sent : q.type # "ACK"
  <2> HIDE DEF c
  <2> QED BY <1>8, <1>9, FlushedMoves
<1> QED BY <1>10

\* A session for which there was nothing to send keeps its arguments.
LEMMA UntimedNothing ==
    ASSUME NEW s \in SenderSession
    PROVE  LET t == Untimed(s, {}) IN
           /\ t.data_timeout_arg = s.data_timeout_arg
           /\ t.syn_timeout_arg = s.syn_timeout_arg
           /\ t.fin_timeout_arg = s.fin_timeout_arg
<1> DEFINE args == [i \in Slot |-> s.data_timeout_arg[i]]
           t == [s EXCEPT !.syn_timeout_arg = s.syn_timeout_arg,
                          !.fin_timeout_arg = s.fin_timeout_arg,
                          !.data_timeout_arg = args]
<1>1. Untimed(s, {}) = t
  BY DEF Untimed
<1>2. args = s.data_timeout_arg
  BY DEF SenderSession
<1> HIDE DEF args
<1>3. /\ t.data_timeout_arg = args
      /\ t.syn_timeout_arg = s.syn_timeout_arg
      /\ t.fin_timeout_arg = s.fin_timeout_arg
  BY DEF SenderSession
<1> HIDE DEF t
<1> QED BY <1>1, <1>2, <1>3

LEMMA SlideAndFillTransfer ==
    ASSUME FaithfulNumbers, TypeInv, TypeInv', StreamInv, StreamInv', TransferInv,
           NEW n \in Node, NEW m \in Node, NEW p \in net[m][n], p.type = "ACK",
           sender[n][m] # NULL, sender[n][m].status = "OPEN",
           AcksOldest(sender[n][m], p), SlideAndFill(n, m, p),
           UNCHANGED <<sessions_list, receiver, handed, isn, delivered>>
    PROVE  TransferInv' /\ Forward
<1> DEFINE u == ShiftWindow(sender[n][m])
           w == FlushQueue(u)
           slid == [sender[n] EXCEPT ![m] = w]
           fins == {h \in Visited(n) : close_requested[n] /\ Drained(slid[h])}
           out == [h \in Node |-> (IF h = m THEN NewPackets(u) ELSE {})
                                  \cup (IF h \in fins THEN {FinPacket(slid[h])} ELSE {})]
           done == [events[n] EXCEPT ![m] = Cancel(@, sender[n][m].data_timeout_arg[0])]
           after == [h \in Node |-> IF h \in fins THEN SendFin(slid[h]) ELSE slid[h]]
<1>1. /\ sender \in [Node -> [Node -> SenderSession \cup {NULL}]]
      /\ events \in [Node -> [Node -> SUBSET Packet]]
      /\ net \in [Node -> [Node -> SUBSET Packet]]
      /\ stream \in [Node -> [Node -> Seq(Message)]]
      /\ sender[n][m] \in SenderSession
  BY SMTT(30) DEF TypeInv, TypeOK
<1>2. u \in SenderSession /\ w \in SenderSession /\ NewPackets(u) \subseteq Packet
  BY <1>1, ShiftWindowType, FlushQueueType
<1>3. /\ \E sent \in SentTo(out) :
            /\ sender' = [sender EXCEPT ![n] =
                   [h \in Node |-> IF after[h] = NULL THEN NULL
                                   ELSE Untimed(after[h], out[h] \ sent[h])]]
            /\ events' = [events EXCEPT ![n] = [h \in Node |-> done[h] \cup sent[h]]]
            /\ Consume(n, m, p, sent)
      /\ stream' = [stream EXCEPT ![n][m] = @ \o Moved(u)]
  BY DEF Register, SlideAndFill
<1>4. \A h \in fins : sender[n][h] # NULL
  <2> TAKE h \in fins
  <2>1. PICK i \in DOMAIN sessions_list[n] :
          h = sessions_list[n][i] /\ \A j \in 1 .. i : sender[n][sessions_list[n][j]] # NULL
    BY DEF Visited
  <2>2. i \in 1 .. i
    <3>1. sessions_list[n] \in Seq(Node)
      BY DEF TypeInv, TypeOK
    <3>2. DOMAIN sessions_list[n] = 1 .. Len(sessions_list[n]) /\ Len(sessions_list[n]) \in Nat
      BY <3>1, LenProperties
    <3> QED BY <3>2
  <2> QED BY <2>1, <2>2
<1>5. \A h \in fins : Drained(slid[h])
  OBVIOUS
<1> HIDE DEF u, w
<1>6. /\ slid[m] = w
      /\ \A h \in Node : h # m => slid[h] = sender[n][h]
      /\ \A h \in Node : sender[n][h] # NULL => slid[h] \in SenderSession
  BY <1>1, <1>2
<1> HIDE DEF slid, fins
<1>7. /\ m \in fins => after[m] = SendFin(w) /\ out[m] = NewPackets(u) \cup {FinPacket(w)}
      /\ m \notin fins => after[m] = w /\ out[m] = NewPackets(u)
  BY <1>6
<1>8. \A h \in Node : h # m =>
         /\ h \in fins => after[h] = SendFin(sender[n][h]) /\ out[h] = {FinPacket(sender[n][h])}
         /\ h \notin fins => after[h] = sender[n][h] /\ out[h] = {}
  BY <1>6
<1>9. out \in [Node -> SUBSET Packet]
  <2>1. \A h \in fins \cap Node : FinPacket(slid[h]) \in Packet
    BY <1>4, <1>6, SendFinType
  <2> QED BY <1>2, <2>1
<1>10. /\ done[m] = events[n][m] \ {sender[n][m].data_timeout_arg[0]}
       /\ \A h \in Node : h # m => done[h] = events[n][h]
  BY <1>1 DEF Cancel
<1>11. \A h \in Node : after[h] # NULL => after[h] \in SenderSession
  <2>1. \A h \in Node : slid[h] # NULL => slid[h] \in SenderSession
    BY <1>1, <1>2, <1>6
  <2>2. \A h \in fins \cap Node : SendFin(slid[h]) \in SenderSession
    BY <1>4, <1>6, SendFinType
  <2> QED BY <2>1, <2>2
<1>12. after[m] # NULL /\ \A h \in fins \cap Node : after[h] # NULL
  <2>1. \A h \in fins \cap Node : SendFin(slid[h]) \in SenderSession
    BY <1>4, <1>6, SendFinType
  <2> QED BY <1>2, <1>6, <2>1, NullAssumption
<1> HIDE DEF out, done, after
<1>13. PICK sent \in SentTo(out) :
         /\ sender' = [sender EXCEPT ![n] =
                [h \in Node |-> IF after[h] = NULL THEN NULL
                                ELSE Untimed(after[h], out[h] \ sent[h])]]
         /\ events' = [events EXCEPT ![n] = [h \in Node |-> done[h] \cup sent[h]]]
         /\ Consume(n, m, p, sent)
  BY <1>3
<1>14. /\ sent \in [Node -> SUBSET Packet]
       /\ \A h \in Node : sent[h] \subseteq out[h] /\ (SendtoFails \/ sent[h] = out[h])
  BY <1>9, <1>13, SentToType DEF SentTo
<1> DEFINE row == [h \in Node |-> IF after[h] = NULL THEN NULL
                                  ELSE Untimed(after[h], out[h] \ sent[h])]
           timers == [h \in Node |-> done[h] \cup sent[h]]
<1>15. /\ \A h \in Node : after[h] = NULL => row[h] = NULL
       /\ \A h \in Node : after[h] # NULL => row[h] = Untimed(after[h], out[h] \ sent[h])
       /\ \A h \in Node : timers[h] = done[h] \cup sent[h]
  OBVIOUS
<1>16. sender' = [sender EXCEPT ![n] = row] /\ events' = [events EXCEPT ![n] = timers]
  BY <1>13
<1> HIDE DEF row, timers
<1>17. /\ \A x, y \in Node : x # n => sender'[x][y] = sender[x][y] /\ events'[x][y] = events[x][y]
       /\ \A y \in Node : sender'[n][y] = row[y] /\ events'[n][y] = done[y] \cup sent[y]
  <2>1. /\ \A x, y \in Node : x # n => sender'[x][y] = sender[x][y]
        /\ \A y \in Node : sender'[n][y] = row[y]
    BY <1>1, <1>16
  <2>2. /\ \A x, y \in Node : x # n => events'[x][y] = events[x][y]
        /\ \A y \in Node : events'[n][y] = timers[y]
    BY <1>1, <1>16
  <2> QED BY <1>15, <2>1, <2>2
<1>18. /\ \A x, y \in Node : x # n => net'[x][y] \subseteq net[x][y]
       /\ \A y \in Node : net'[n][y] \subseteq net[n][y] \cup sent[y]
  BY <1>13, <1>14, ConsumeFacts
<1>19. /\ stream'[n][m] = stream[n][m] \o Moved(u)
       /\ \A x, y \in Node : <<x, y>> # <<n, m>> => stream'[x][y] = stream[x][y]
  <2> DEFINE str2 == stream[n][m] \o Moved(u)
  <2>1. stream' = [stream EXCEPT ![n][m] = str2]
    BY <1>3
  <2> HIDE DEF str2
  <2>2. /\ stream'[n][m] = str2
        /\ \A x, y \in Node : <<x, y>> # <<n, m>> => stream'[x][y] = stream[x][y]
    BY <1>1, <2>1
  <2> QED BY <2>2 DEF str2
<1>20. \A h \in Node : FlowInv(n, h)
  BY DEF StreamInv
<1>21. \A b, e \in 0 .. MaxSend : b \in Nat /\ e \in Nat
  BY SessionAssumption
<1>22. ASSUME NEW b \in 0 .. MaxSend, NEW e \in 0 .. MaxSend, TransferAt(n, m, b, e)
       PROVE  /\ SenderMoves(n, m, b, b + 1, e) /\ b + 1 \in 0 .. MaxSend
              /\ \A q \in sent[m] : q.type # "ACK"
  <2>1. /\ b + 1 \in b .. e /\ b + 1 <= Len(stream[n][m]) /\ b \in Nat /\ e \in Nat
    BY <1>21, <1>22, OldestTaken
  <2>2. b + 1 \in 0 .. MaxSend
    BY <2>1, SessionAssumption
  <2>3. sender[n][m].sliding_window[0] # NULL
    BY DEF AcksOldest
  <2>4. /\ \/ after[m] = w /\ out[m] = NewPackets(u)
           \/ Drained(w) /\ after[m] = SendFin(w) /\ out[m] = NewPackets(u) \cup {FinPacket(w)}
    BY <1>5, <1>6, <1>7
  <2>5. u = ShiftWindow(sender[n][m]) /\ w = FlushQueue(u)
    BY DEF u, w
  <2> DEFINE v == after[m]
             om == out[m]
             sm == sent[m]
  <2>6. /\ sm \subseteq om /\ (SendtoFails \/ sm = om)
        /\ net'[n][m] \subseteq net[n][m] \cup sm
    BY <1>14, <1>18
  <2>7. sender'[n][m] = Untimed(v, om \ sm)
    BY <1>12, <1>15, <1>17
  <2>8. events'[n][m] \subseteq (events[n][m] \ {sender[n][m].data_timeout_arg[0]}) \cup sm
    BY <1>10, <1>17
  <2>9. handed'[n][m] = handed[n][m]
    OBVIOUS
  <2> HIDE DEF v, om, sm
  <2>10. SlideSends(n, m, u, v, om, sm)
    BY <1>19, <2>3, <2>4, <2>5, <2>6, <2>7, <2>8, <2>9 DEF SlideSends, v, om
  <2>11. SenderMoves(n, m, b, b + 1, e) /\ \A q \in sm : q.type # "ACK"
    BY <1>20, <1>22, <2>1, <2>10, SlideMoves
  <2> QED BY <2>2, <2>11 DEF sm
<1>23. ASSUME NEW h \in Node, h # m, h \in fins,
              NEW b \in 0 .. MaxSend, NEW e \in 0 .. MaxSend, TransferAt(n, h, b, e)
       PROVE  SenderMoves(n, h, b, b, e) /\ \A q \in sent[h] : q.type # "ACK"
  <2> DEFINE sh == sent[h]
  <2>1. sender[n][h] # NULL /\ Drained(sender[n][h])
    BY <1>4, <1>5, <1>6, <1>23
  <2>4. /\ after[h] = SendFin(sender[n][h]) /\ out[h] = {FinPacket(sender[n][h])}
        /\ after[h] # NULL /\ done[h] = events[n][h]
    BY <1>8, <1>10, <1>12, <1>23
  <2>5. /\ sh \subseteq out[h] /\ (SendtoFails \/ sh = out[h])
        /\ sender'[n][h] = Untimed(after[h], out[h] \ sh)
    BY <1>14, <1>15, <1>17, <2>4
  <2>6. stream'[n][h] = stream[n][h] /\ handed'[n][h] = handed[n][h]
    BY <1>19, <1>23
  <2>7. /\ events'[n][h] \subseteq events[n][h] \cup sh
        /\ net'[n][h] \subseteq net[n][h] \cup sh
    BY <1>17, <1>18, <2>4
  <2> HIDE DEF sh
  <2>2. /\ sh \subseteq {FinPacket(sender[n][h])}
        /\ SendtoFails \/ sh = {FinPacket(sender[n][h])}
        /\ sender'[n][h] = Untimed(SendFin(sender[n][h]), {FinPacket(sender[n][h])} \ sh)
        /\ stream'[n][h] = stream[n][h] /\ handed'[n][h] = handed[n][h]
        /\ events'[n][h] \subseteq events[n][h] \cup sh
        /\ net'[n][h] \subseteq net[n][h] \cup sh
    BY <2>4, <2>5, <2>6, <2>7
  <2>3. SenderMoves(n, h, b, b, e) /\ \A q \in sh : q.type # "ACK"
    BY <1>20, <1>21, <1>23, <2>1, <2>2, DrainedMoves
  <2> QED BY <2>3 DEF sh
<1>24. ASSUME NEW h \in Node, h # m, h \notin fins
       PROVE  /\ sent[h] = {} /\ stream'[n][h] = stream[n][h] /\ handed'[n][h] = handed[n][h]
              /\ events'[n][h] = events[n][h] /\ net'[n][h] \subseteq net[n][h]
              /\ sender[n][h] = NULL => sender'[n][h] = NULL
              /\ sender[n][h] # NULL => sender'[n][h] = Untimed(sender[n][h], {})
  <2>1. after[h] = sender[n][h] /\ out[h] = {} /\ sent[h] = {} /\ done[h] = events[n][h]
    BY <1>8, <1>10, <1>14, <1>24
  <2>2. out[h] \ sent[h] = {}
    BY <2>1
  <2>3. /\ sender[n][h] = NULL => sender'[n][h] = NULL
        /\ sender[n][h] # NULL => sender'[n][h] = Untimed(sender[n][h], {})
    BY <1>15, <1>17, <2>1, <2>2, ZenonT(30)
  <2>4. events'[n][h] = events[n][h] /\ net'[n][h] \subseteq net[n][h]
    BY <1>17, <1>18, <2>1, ZenonT(30)
  <2>5. stream'[n][h] = stream[n][h] /\ handed'[n][h] = handed[n][h]
    BY <1>19, <1>24
  <2> QED BY <2>1, <2>3, <2>4, <2>5
<1>25. ASSUME NEW h \in Node, h # m, h \notin fins, sender[n][h] # NULL,
              NEW b \in 0 .. MaxSend, NEW e \in 0 .. MaxSend, TransferAt(n, h, b, e)
       PROVE  SenderMoves(n, h, b, b, e)
  <2> DEFINE s == sender[n][h]
             t == Untimed(s, {})
  <2>1. s \in SenderSession
    BY <1>1, <1>25
  <2>2. /\ t.status = s.status /\ t.seqno = s.seqno /\ t.data_queue = s.data_queue
        /\ t.session_finished = s.session_finished /\ t.sliding_window = s.sliding_window
        /\ t.data_timeout_arg = s.data_timeout_arg /\ t.syn_timeout_arg = s.syn_timeout_arg
        /\ t.fin_timeout_arg = s.fin_timeout_arg
    BY <2>1, UntimedType, UntimedNothing
  <2>3. sender'[n][h] = t
    BY <1>24, <1>25
  <2> HIDE DEF t
  <2>4. AllKept(s, stream[n][h], handed[n][h])
    BY <1>25 DEF TransferAt, Sending
  <2>5. AllKept(t, stream[n][h], handed'[n][h])
    BY <1>24, <1>25, <2>2, <2>4 DEF AllKept
  <2>6. /\ stream'[n][h] = stream[n][h] /\ events'[n][h] \subseteq events[n][h]
        /\ \A q \in net'[n][h] : q \in Out(n, h)
    BY <1>24, <1>25 DEF Out
  <2> QED BY <1>20, <1>21, <1>25, <2>2, <2>3, <2>5, <2>6, SameMoves
<1>26. Moves(n, m)
  <2>1. sender'[n][m] # NULL
    <3>1. sender'[n][m] = Untimed(after[m], out[m] \ sent[m]) /\ after[m] \in SenderSession
      BY <1>11, <1>12, <1>15, <1>17
    <3> QED BY <3>1, UntimedType
  <2> QED BY <1>22, <2>1 DEF Moves
<1>27. \A h \in Node : LeavesAlone(n, h) \/ Moves(n, h)
  <2> SUFFICES ASSUME NEW h \in Node, h # m PROVE LeavesAlone(n, h) \/ Moves(n, h)
    BY <1>26
  <2>1. CASE h \in fins
    <3>1. sender'[n][h] # NULL /\ sender[n][h] # NULL
      <4>1. sender'[n][h] = Untimed(after[h], out[h] \ sent[h]) /\ after[h] \in SenderSession
        BY <1>11, <1>12, <1>15, <1>17, <2>1
      <4> QED BY <1>4, <2>1, <4>1, UntimedType
    <3> QED BY <1>23, <2>1, <3>1 DEF Moves
  <2>2. CASE h \notin fins /\ sender[n][h] = NULL
    BY <1>24, <2>2 DEF LeavesAlone, Out
  <2>3. CASE h \notin fins /\ sender[n][h] # NULL
    <3>1. sender[n][h] \in SenderSession
      BY <1>1, <2>3
    <3>2. sender'[n][h] # NULL
      BY <1>24, <2>3, <3>1, UntimedType
    <3> QED BY <1>25, <2>3, <3>2 DEF Moves
  <2> QED BY <2>1, <2>2, <2>3
<1>28. \A h \in Node : \A q \in net'[n][h] : q.type = "ACK" => q \in net[n][h]
  <2> SUFFICES ASSUME NEW h \in Node, NEW q \in sent[h] PROVE q.type # "ACK"
    BY <1>18
  <2>1. PICK b \in 0 .. MaxSend, e \in 0 .. MaxSend : TransferAt(n, h, b, e)
    BY DEF TransferInv
  <2>2. CASE h = m
    BY <1>22, <2>1, <2>2
  <2>3. CASE h # m
    BY <1>23, <1>24, <2>1, <2>3
  <2> QED BY <2>2, <2>3
<1> QED BY <1>17, <1>18, <1>19, <1>27, <1>28, SenderStep

LEMMA ReceiveAckOpenTransfer ==
    ASSUME FaithfulNumbers, TypeInv, TypeInv', StreamInv, StreamInv', TransferInv,
           NEW n \in Node, NEW m \in Node, NEW p \in net[m][n], ReceiveAckOpen(n, m, p)
    PROVE  TransferInv' /\ Forward
<1>1. CASE AcksOldest(sender[n][m], p) /\ SlideAndFill(n, m, p)
  BY <1>1, SlideAndFillTransfer DEF ReceiveAckOpen, ReceiveAck
<1>2. CASE Consume(n, m, p, Nothing) /\ UNCHANGED <<sender, events, stream>>
  BY <1>2, TransferConsumed DEF ReceiveAckOpen, history
<1> QED BY <1>1, <1>2 DEF ReceiveAckOpen

\* The ACK that ends a session: its number is that after the FIN's, so the
\* receiver took the FIN.
LEMMA FinWasTaken ==
    ASSUME TypeInv, StreamInv, NEW n \in Node, NEW m \in Node, NEW p \in net[m][n],
           p.type = "ACK", sender[n][m] # NULL, sender[n][m].status = "FIN_SENT",
           SeqNext(sender[n][m].seqno) = p.seqno,
           NEW b, NEW e, TransferAt(n, m, b, e)
    PROVE  Finished(n, m)
<1> DEFINE s == sender[n][m]
           x == isn[n][m]
           L == Len(stream[n][m])
<1>1. /\ p.seqno \in SeqNo /\ x \in SeqNo /\ L \in Nat
      /\ L + 2 < SeqMod /\ Matches(s, x, stream[n][m], b) /\ e \in Nat /\ e <= L
      /\ \/ \E k \in 0 .. e : p.seqno = SeqAdd(x, k + 1)
         \/ Finished(n, m) /\ p.seqno = SeqAdd(x, L + 2)
  BY ONLY TypeInv, StreamInv, p.type = "ACK", sender[n][m] # NULL, TransferAt(n, m, b, e), AckFacts
<1>2. s.seqno = SeqAdd(x, L + 1)
  BY <1>1 DEF Matches
<1>3. SeqMod \in Nat
  BY SeqModAssumption
<1> HIDE DEF L
<1>4. /\ L + 1 \in Nat /\ (L + 1) + 1 < SeqMod /\ (L + 1) + 1 = L + 2
      /\ L + 2 \in 0 .. SeqMod - 1
  BY <1>1, <1>3
<1>5. p.seqno = SeqAdd(x, L + 2)
  <2>1. SeqNext(SeqAdd(x, L + 1)) = SeqAdd(x, (L + 1) + 1)
    BY <1>1, <1>4, SeqSteps
  <2> QED BY <1>2, <1>4, <2>1
<1>6. ASSUME NEW k \in 0 .. e, p.seqno = SeqAdd(x, k + 1) PROVE FALSE
  <2>1. k + 1 \in 0 .. SeqMod - 1
    BY <1>1, <1>3
  <2>2. k + 1 = L + 2
    BY <1>1, <1>4, <1>5, <1>6, <2>1, SeqInjective
  <2> QED BY <1>1, <2>2
<1> QED BY <1>1, <1>6

\* By then no other packet waits for its timeout.
LEMMA FinishMoves ==
    ASSUME TypeInv, StreamInv, NEW n \in Node, NEW m \in Node, Finished(n, m),
           sender[n][m] # NULL, sender[n][m].status = "FIN_SENT",
           NEW b \in Nat, NEW e \in Nat, TransferAt(n, m, b, e),
           sender'[n][m] = [sender[n][m] EXCEPT !.session_finished = TRUE],
           stream'[n][m] = stream[n][m], handed'[n][m] = handed[n][m],
           events'[n][m] = events[n][m] \ {sender[n][m].fin_timeout_arg},
           net'[n][m] \subseteq net[n][m]
    PROVE  SenderMoves(n, m, b, b, e)
<1> DEFINE s == sender[n][m]
           t == [s EXCEPT !.session_finished = TRUE]
           x == isn[n][m]
           str == stream[n][m]
           L == Len(str)
<1>1. FlowInv(n, m) /\ receiver[m][n] # NULL
  BY DEF StreamInv, Finished
<1>2. s \in SenderSession /\ L \in Nat
  BY <1>1, FlowTypes
<1>3. /\ Matches(s, x, str, b) /\ AllKept(s, str, handed[n][m]) /\ b <= e /\ e \in 0 .. L
  BY DEF TransferAt, Sending, Taking
<1>4. b = L
  BY <1>3 DEF Matches
<1>5. /\ t.status = s.status /\ t.seqno = s.seqno /\ t.sliding_window = s.sliding_window
      /\ t.data_timeout_arg = s.data_timeout_arg /\ t.syn_timeout_arg = s.syn_timeout_arg
      /\ t.fin_timeout_arg = s.fin_timeout_arg /\ t.data_queue = s.data_queue
  BY <1>2 DEF SenderSession
<1>6. events'[n][m] = {}
  <2> SUFFICES ASSUME NEW q \in events[n][m] PROVE q = s.fin_timeout_arg
    OBVIOUS
  <2>1. Timed(s, x, str, b, q)
    BY <1>1, EventsTimed
  <2>2. \A k \in b + 1 .. L : FALSE
    BY <1>2, <1>4
  <2> QED BY <2>1, <2>2 DEF Timed
<1>7. sender'[n][m] = t
  OBVIOUS
<1> HIDE DEF t
<1>8. Matches(t, x, str, b)
  BY <1>3, <1>5, SameMatches
<1>9. AllKept(t, str, handed'[n][m])
  BY <1>3, <1>5 DEF AllKept
<1>10. \A q \in net'[n][m] : q \in Out(n, m)
  BY DEF Out
<1>11. b \in b .. e /\ L <= L
  BY <1>2, <1>3
<1> QED BY <1>1, <1>5, <1>6, <1>7, <1>8, <1>9, <1>10, <1>11 DEF SenderMoves

LEMMA ReceiveAckFinSentTransfer ==
    ASSUME TypeInv, TypeInv', StreamInv, StreamInv', TransferInv,
           NEW n \in Node, NEW m \in Node, NEW p \in net[m][n], ReceiveAckFinSent(n, m, p)
    PROVE  TransferInv' /\ Forward
<1> DEFINE s == sender[n][m]
           t == [s EXCEPT !.session_finished = TRUE]
<1>1. /\ sender \in [Node -> [Node -> SenderSession \cup {NULL}]]
      /\ events \in [Node -> [Node -> SUBSET Packet]]
  BY DEF TypeInv, TypeOK
<1>2. /\ p.type = "ACK" /\ s # NULL /\ s.status = "FIN_SENT" /\ s \in SenderSession
      /\ UNCHANGED <<receiver, handed, stream, isn, delivered>>
      /\ Consume(n, m, p, Nothing)
  BY <1>1 DEF ReceiveAckFinSent, ReceiveAck, history
<1>3. CASE SeqNext(s.seqno) = p.seqno
  <2>1. /\ sender' = [sender EXCEPT ![n][m] = t]
        /\ events' = [events EXCEPT ![n][m] = @ \ {s.fin_timeout_arg}]
    BY <1>3 DEF ReceiveAckFinSent, Cancel
  <2>2. t \in SenderSession
    BY <1>2 DEF SenderSession
  <2>3. t # NULL
    BY <2>2, NullAssumption
  <2> HIDE DEF t
  <2>4. /\ sender'[n][m] = t
        /\ \A x, y \in Node : <<x, y>> # <<n, m>> => sender'[x][y] = sender[x][y]
    BY <1>1, <2>1
  <2>5. /\ events'[n][m] = events[n][m] \ {s.fin_timeout_arg}
        /\ \A x, y \in Node : <<x, y>> # <<n, m>> => events'[x][y] = events[x][y]
    BY <1>1, <2>1
  <2>6. \A x, y \in Node : net'[x][y] \subseteq net[x][y]
    <3>1. /\ \A x, y \in Node : x # n => net'[x][y] \subseteq net[x][y]
          /\ \A y \in Node : net'[n][y] \subseteq net[n][y] \cup Nothing[y]
      BY <1>2, NothingType, ConsumeFacts
    <3> QED BY <3>1, NothingType
  <2>7. \A y \in Node : y # m => LeavesAlone(n, y)
    BY <1>2, <2>4, <2>5, <2>6 DEF LeavesAlone, Out
  <2>8. ASSUME NEW b \in 0 .. MaxSend, NEW e \in 0 .. MaxSend, TransferAt(n, m, b, e)
        PROVE  SenderMoves(n, m, b, b, e)
    <3>1. b \in Nat /\ e \in Nat
      BY SessionAssumption
    <3>2. sender'[n][m] = [sender[n][m] EXCEPT !.session_finished = TRUE]
      BY <2>4 DEF t
    <3>3. stream'[n][m] = stream[n][m] /\ handed'[n][m] = handed[n][m]
      BY <1>2
    <3>4. Finished(n, m)
      BY <1>2, <1>3, <2>8, FinWasTaken
    <3> QED BY <1>2, <2>5, <2>6, <2>8, <3>1, <3>2, <3>3, <3>4, FinishMoves
  <2>9. Moves(n, m)
    BY <1>2, <2>3, <2>4, <2>8 DEF Moves
  <2> QED BY <1>2, <2>4, <2>5, <2>6, <2>7, <2>9, SenderStep
<1>4. CASE SeqNext(s.seqno) # p.seqno
  BY <1>2, <1>4, TransferConsumed DEF ReceiveAckFinSent, history
<1> QED BY <1>3, <1>4

-----------------------------------------------------------------------------
LEMMA TransferNext ==
    ASSUME FaithfulNumbers, TypeInv, TypeInv', StreamInv, StreamInv', TransferInv, [Next]_vars
    PROVE  TransferInv'
<1>1. ASSUME NEW n \in Node, NEW m \in Node, rudp_sendto(n, m) PROVE TransferInv'
  BY <1>1, SendtoTransfer
<1>2. ASSUME NEW n \in Node, NEW m \in Node, receive_callback(n, m) PROVE TransferInv'
  <2>1. PICK p \in net[m][n] :
          \/ ReceiveNoSession(n, m, p)
          \/ ReceiveSyn(n, m, p)
          \/ ReceiveMissingHalf(n, m, p)
          \/ ReceiveAckSynSent(n, m, p)
          \/ ReceiveAckOpen(n, m, p)
          \/ ReceiveAckFinSent(n, m, p)
          \/ ReceiveData(n, m, p)
          \/ ReceiveFin(n, m, p)
    BY <1>2 DEF receive_callback
  <2> QED BY <2>1, ReceiveNoSessionTransfer, ReceiveSynTransfer, ReceiveMissingHalfTransfer,
             ReceiveAckSynSentTransfer, ReceiveAckOpenTransfer, ReceiveAckFinSentTransfer,
             ReceiveDataTransfer, ReceiveFinTransfer
<1>3. ASSUME NEW n \in Node, NEW m \in Node, timeout_callback(n, m) PROVE TransferInv'
  BY <1>3, TimeoutTransfer
<1>4. ASSUME NEW n \in Node, NEW m \in Node, Lose(n, m) PROVE TransferInv'
  BY <1>4, LoseTransfer
<1>5. ASSUME NEW n \in Node, rudp_close(n) PROVE TransferInv'
  BY <1>5, CloseTransfer
<1>6. CASE UNCHANGED vars
  BY <1>6, TransferQuietStep DEF vars, session, history, Out, TransferInv, NoLoop
<1> QED BY <1>1, <1>2, <1>3, <1>4, <1>5, <1>6 DEF Next

(***************************************************************************)
(* The two ends agree, for any number of nodes, any window of at most half *)
(* the numbers, any retry limit and initial numbers, and whatever UDP and  *)
(* sendto lose: what the sender's window, timers and arguments hold is     *)
(* what the receiver has not taken yet, or has but whose ACK is still out. *)
(***************************************************************************)
THEOREM TransferCorrect == ASSUME FaithfulNumbers PROVE Spec => []TransferInv
<1>1. TypeInv /\ StreamInv /\ TransferInv /\ [Next]_vars
         => TypeInv' /\ StreamInv' /\ TransferInv'
  BY TypeNext, StreamNext, TransferNext
<1> QED BY TypeInit, StreamInit, TransferInit, <1>1, PTL DEF Spec

=============================================================================
