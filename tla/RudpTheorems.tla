---------------------------- MODULE RudpTheorems ----------------------------
(***************************************************************************)
(* What the inductive invariants of RudpInv say of the protocol engine:    *)
(* the properties that the runs check on small instances, as theorems for  *)
(* all instances, and the refinement of ReliableStream.                    *)
(***************************************************************************)
EXTENDS RudpTransferProofs, RudpStream

\* All the invariants proved so far, at once.
EngineInv == TypeInv /\ StreamInv /\ TransferInv

LEMMA EngineCorrect == ASSUME FaithfulNumbers PROVE Spec => []EngineInv
<1>1. EngineInv /\ [Next]_vars => EngineInv'
  BY TypeNext, StreamNext, TransferNext DEF EngineInv
<1>2. Init => EngineInv
  BY TypeInit, StreamInit, TransferInit DEF EngineInv
<1> QED BY <1>1, <1>2, PTL DEF Spec

\* How many packets the window holds.
LEMMA OutstandingFacts ==
    ASSUME NEW s \in SenderSession, NEW x \in SeqNo, NEW str \in Seq(Message),
           Len(str) <= MaxSend, NEW b \in Nat, Matches(s, x, str, b)
    PROVE  /\ Outstanding(s) = 0 .. (Len(str) - b) - 1
           /\ Cardinality(Outstanding(s)) = Len(str) - b
<1> DEFINE c == Len(str) - b
<1>1. /\ c \in 0 .. RUDP_WINDOW
      /\ \A i \in Slot : s.sliding_window[i] = NULL <=> i >= c
  BY WindowFacts
<1> HIDE DEF c
<1>2. Outstanding(s) = 0 .. c - 1
  BY <1>1, SessionAssumption DEF Outstanding, Slot
<1>3. Cardinality(0 .. c - 1) = c
  <2>1. 0 \in Int /\ c - 1 \in Int
    BY <1>1, SessionAssumption
  <2>2. Cardinality(0 .. c - 1) = IF 0 > c - 1 THEN 0 ELSE (c - 1) - 0 + 1
    BY <2>1, FS_Interval
  <2> QED BY <1>1, <2>2, SessionAssumption
<1> QED BY <1>2, <1>3 DEF c

\* What the invariants say of one flow whose session is there.
LEMMA FlowFacts ==
    ASSUME EngineInv, NEW n \in Node, NEW m \in Node, sender[n][m] # NULL
    PROVE  \E b, e \in 0 .. MaxSend :
              /\ TransferAt(n, m, b, e)
              /\ sender[n][m] \in SenderSession /\ isn[n][m] \in SeqNo
              /\ stream[n][m] \in Seq(Message) /\ Len(stream[n][m]) \in Nat
              /\ Matches(sender[n][m], isn[n][m], stream[n][m], b)
              /\ AllKept(sender[n][m], stream[n][m], handed[n][m])
              /\ Outstanding(sender[n][m]) = 0 .. (Len(stream[n][m]) - b) - 1
              /\ Cardinality(Outstanding(sender[n][m])) = Len(stream[n][m]) - b
              /\ b \in Nat /\ e \in Nat /\ b <= e /\ e <= Len(stream[n][m])
              /\ b <= Len(stream[n][m])
              /\ Len(stream[n][m]) + Len(sender[n][m].data_queue) = handed[n][m]
<1>1. PICK b \in 0 .. MaxSend, e \in 0 .. MaxSend : TransferAt(n, m, b, e)
  BY DEF EngineInv, TransferInv
<1>2. /\ sender[n][m] \in SenderSession /\ isn[n][m] \in SeqNo
      /\ stream[n][m] \in Seq(Message) /\ Len(stream[n][m]) \in Nat
      /\ Len(stream[n][m]) <= MaxSend
      /\ Len(stream[n][m]) + Len(sender[n][m].data_queue) = handed[n][m]
  BY FlowTypes DEF EngineInv, StreamInv
<1>3. /\ Matches(sender[n][m], isn[n][m], stream[n][m], b)
      /\ AllKept(sender[n][m], stream[n][m], handed[n][m])
      /\ b <= e /\ e \in 0 .. Len(stream[n][m])
  BY <1>1 DEF TransferAt, Sending, Taking
<1>4. b \in Nat /\ e \in Nat /\ e <= Len(stream[n][m]) /\ b <= Len(stream[n][m])
  BY <1>2, <1>3, SessionAssumption
<1>5. /\ Outstanding(sender[n][m]) = 0 .. (Len(stream[n][m]) - b) - 1
      /\ Cardinality(Outstanding(sender[n][m])) = Len(stream[n][m]) - b
  BY <1>2, <1>3, <1>4, OutstandingFacts
<1> QED BY <1>1, <1>2, <1>3, <1>4, <1>5

-----------------------------------------------------------------------------
(***************************************************************************)
(* The safety invariants of Rudp.                                          *)
(***************************************************************************)
LEMMA EngineAcked == EngineInv => AckedIsDelivered
<1> SUFFICES ASSUME EngineInv, NEW n \in Node, NEW m \in RecvHandler, sender[n][m] # NULL
             PROVE  Len(stream[n][m]) - Cardinality(Outstanding(sender[n][m]))
                       <= Len(delivered[m][n])
  BY DEF AckedIsDelivered
<1>1. m \in Node
  BY NodeAssumption
<1>2. PICK b \in 0 .. MaxSend, e \in 0 .. MaxSend :
         /\ TransferAt(n, m, b, e) /\ Len(stream[n][m]) \in Nat
         /\ Cardinality(Outstanding(sender[n][m])) = Len(stream[n][m]) - b
         /\ b \in Nat /\ e \in Nat /\ b <= e
  BY <1>1, FlowFacts
<1>3. Len(delivered[m][n]) = e
  BY <1>2 DEF TransferAt, Taking
<1> QED BY <1>2, <1>3

\* Which packets the receiver takes for those of its last window: j - 1 is the
\* last number it has passed on.
LEMMA LastWindowNumbers ==
    ASSUME NEW x \in SeqNo, NEW j \in Nat, NEW k \in Nat,
           j < SeqMod, k < SeqMod, j - k <= RUDP_WINDOW, k - j < RUDP_WINDOW
    PROVE  /\ SEQ_LT(SeqAdd(x, k), SeqAdd(x, j)) <=> k < j
           /\ k < j => SEQ_GEQ(SeqAdd(x, k), SeqSub(SeqAdd(x, j), RUDP_WINDOW))
<1> DEFINE W == RUDP_WINDOW
<1>1. W \in Nat /\ 2 * W <= SeqMod /\ W >= 1 /\ SeqMod \in Nat
  BY SessionAssumption, SeqModAssumption
<1> HIDE DEF W
<1>2. W = RUDP_WINDOW
  BY DEF W
<1>3. SeqAdd(x, k) \in SeqNo /\ SeqAdd(x, j) \in SeqNo
  BY <1>1 DEF SeqNo, SeqAdd
<1>4. ASSUME k < j
      PROVE  /\ SeqSub(SeqAdd(x, k), SeqAdd(x, j)) = SeqMod - (j - k)
             /\ SeqSub(SeqAdd(x, k), SeqSub(SeqAdd(x, j), W)) = W - (j - k)
  BY <1>1, <1>2, <1>4 DEF SeqNo, SeqAdd, SeqSub
<1>5. ASSUME ~ k < j PROVE SeqSub(SeqAdd(x, k), SeqAdd(x, j)) = k - j
  BY <1>1, <1>2, <1>5 DEF SeqNo, SeqAdd, SeqSub
<1>6. CASE k < j
  BY <1>1, <1>2, <1>4, <1>6 DEF SEQ_LT, SEQ_GEQ
<1>7. CASE ~ k < j
  BY <1>1, <1>2, <1>5, <1>7 DEF SEQ_LT
<1> QED BY <1>6, <1>7

LEMMA EngineLastWindow == EngineInv => LastWindowIsDelivered
<1> SUFFICES ASSUME EngineInv, NEW n \in Node, NEW m \in RecvHandler,
                    sender[n][m] # NULL, receiver[m][n] # NULL,
                    NEW i \in Outstanding(sender[n][m])
             PROVE  LET s == sender[n][m]
                        acked == Len(stream[n][m]) - Cardinality(Outstanding(s))
                    IN OfLastWindow(receiver[m][n], s.sliding_window[i])
                          <=> acked + i + 1 <= Len(delivered[m][n])
  BY DEF LastWindowIsDelivered
<1> DEFINE s == sender[n][m]
           x == isn[n][m]
           str == stream[n][m]
           L == Len(str)
           r == receiver[m][n]
<1>1. m \in Node
  BY NodeAssumption
<1>2. PICK b \in 0 .. MaxSend, e \in 0 .. MaxSend :
         /\ TransferAt(n, m, b, e) /\ Matches(s, x, str, b) /\ x \in SeqNo /\ L \in Nat
         /\ Outstanding(s) = 0 .. (L - b) - 1
         /\ Cardinality(Outstanding(s)) = L - b
         /\ b \in Nat /\ e \in Nat /\ b <= e /\ e <= L
  BY <1>1, FlowFacts
<1> DEFINE k == b + i + 1
           p == s.sliding_window[i]
<1>3. i \in Slot /\ k \in b + 1 .. L /\ b + i < L /\ i \in Nat
  BY <1>2 DEF Outstanding
<1>4. p.seqno = SeqAdd(x, k)
  <2>1. p = DataPacket(x, str, k)
    BY <1>2, <1>3 DEF Matches
  <2> QED BY <2>1 DEF DataPacket, create_rudp_packet
<1>5. L - b <= RUDP_WINDOW
  BY <1>2 DEF Matches
<1>6. /\ r.expected_seqno = SeqAdd(x, e + 1)
      /\ Len(delivered[m][n]) = e
  BY <1>2 DEF TransferAt, Taking
<1>7. L + 2 < SeqMod /\ SeqMod \in Nat
  <2>1. FlowInv(n, m) /\ TypeInv
    BY <1>1 DEF EngineInv, StreamInv
  <2> QED BY <1>1, <2>1, FlowTypes, SeqModAssumption
<1> HIDE DEF s, x, L, k, p, r
<1>8. /\ k \in Nat /\ e + 1 \in Nat /\ k < SeqMod /\ e + 1 < SeqMod
      /\ (e + 1) - k <= RUDP_WINDOW /\ k - (e + 1) < RUDP_WINDOW
  BY <1>2, <1>3, <1>5, <1>7, SessionAssumption
<1>9. OfLastWindow(r, p) <=> k < e + 1
  BY <1>2, <1>4, <1>6, <1>8, LastWindowNumbers DEF OfLastWindow
<1>10. (L - (L - b)) + i + 1 = k
  BY <1>2, <1>3 DEF k
<1> QED BY <1>2, <1>3, <1>6, <1>8, <1>9, <1>10 DEF s, L, p, r

LEMMA EngineOnce == EngineInv => EachMessageOnce
<1> SUFFICES ASSUME EngineInv, NEW n \in Node, NEW m \in Node, sender[n][m] # NULL
             PROVE  LET all == stream[n][m] \o sender[n][m].data_queue IN
                    /\ Len(all) = handed[n][m]
                    /\ \A k \in 1 .. handed[n][m] : \E i \in 1 .. Len(all) : all[i] = k
  BY DEF EachMessageOnce
<1> DEFINE str == stream[n][m]
           q == sender[n][m].data_queue
           h == handed[n][m]
           all == str \o q
<1>1. /\ sender[n][m] \in SenderSession /\ str \in Seq(Message)
      /\ AllKept(sender[n][m], str, h) /\ Len(str) + Len(q) = h
  BY FlowFacts
<1>2. q \in Seq(Message)
  BY <1>1 DEF SenderSession
<1>3. \A k \in 1 .. h : \/ \E i \in 1 .. Len(str) : str[i] = k
                        \/ \E i \in 1 .. Len(q) : q[i] = k
  BY <1>1 DEF AllKept
<1> HIDE DEF str, q, h
<1>4. /\ Len(all) = Len(str) + Len(q) /\ Len(str) \in Nat /\ Len(q) \in Nat
      /\ \A i \in 1 .. Len(str) : all[i] = str[i]
      /\ \A i \in 1 .. Len(q) : all[Len(str) + i] = q[i]
  BY <1>1, <1>2, LenProperties, ConcatProperties
<1> HIDE DEF all
<1>5. ASSUME NEW k \in 1 .. h PROVE \E i \in 1 .. Len(all) : all[i] = k
  <2>1. CASE \E i \in 1 .. Len(str) : str[i] = k
    <3>1. PICK i \in 1 .. Len(str) : str[i] = k
      BY <2>1
    <3>2. i \in 1 .. Len(all) /\ all[i] = k
      BY <1>4, <3>1
    <3> QED BY <3>2
  <2>2. CASE \E i \in 1 .. Len(q) : q[i] = k
    <3>1. PICK i \in 1 .. Len(q) : q[i] = k
      BY <2>2
    <3>2. Len(str) + i \in 1 .. Len(all) /\ all[Len(str) + i] = k
      BY <1>4, <3>1
    <3> QED BY <3>2
  <2> QED BY <1>3, <2>1, <2>2
<1> QED BY <1>1, <1>4, <1>5 DEF str, q, h, all

LEMMA EngineWindow == EngineInv => WindowIsStreamEnd
<1> SUFFICES ASSUME EngineInv, NEW n \in Node, NEW m \in Node, sender[n][m] # NULL
             PROVE  LET s == sender[n][m]
                        count == Cardinality(Outstanding(s))
                        base == Len(stream[n][m]) - count
                    IN /\ Outstanding(s) = 0 .. count - 1
                       /\ \A i \in 0 .. count - 1 :
                             s.sliding_window[i] =
                                 create_rudp_packet("DATA", SeqAdd(isn[n][m], base + i + 1),
                                                    stream[n][m][base + i + 1])
  BY DEF WindowIsStreamEnd
<1> DEFINE s == sender[n][m]
           x == isn[n][m]
           str == stream[n][m]
           L == Len(str)
<1>1. PICK b \in 0 .. MaxSend : 
         /\ L \in Nat /\ b \in Nat /\ b <= L
         /\ Outstanding(s) = 0 .. (L - b) - 1
         /\ Cardinality(Outstanding(s)) = L - b
         /\ Matches(s, x, str, b)
  BY FlowFacts
<1>2. L - (L - b) = b
  BY <1>1
<1>3. ASSUME NEW i \in 0 .. (L - b) - 1
      PROVE  s.sliding_window[i] = create_rudp_packet("DATA", SeqAdd(x, b + i + 1), str[b + i + 1])
  <2>1. i \in Outstanding(s) /\ i \in Slot /\ b + i < L
    BY <1>1 DEF Outstanding
  <2>2. s.sliding_window[i] = DataPacket(x, str, b + i + 1)
    BY <1>1, <2>1 DEF Matches
  <2> QED BY <2>2 DEF DataPacket
<1> QED BY <1>1, <1>2, <1>3

LEMMA EngineTimers == EngineInv => TimersMatch
<1> SUFFICES ASSUME EngineInv, NEW n \in Node, NEW m \in Node
             PROVE  IF sender[n][m] = NULL THEN events[n][m] = {} ELSE
                    LET s == sender[n][m] IN
                    /\ mode[n] = "up" => events[n][m] \subseteq Unacked(s)
                    /\ \A i \in Slot : \/ s.data_timeout_arg[i] = s.sliding_window[i]
                                       \/ SendtoFails /\ s.data_timeout_arg[i] = NULL
  BY DEF TimersMatch
<1>1. CASE sender[n][m] = NULL
  BY <1>1 DEF EngineInv, TypeInv, NoTimers
<1>2. CASE sender[n][m] # NULL
  <2>1. PICK b \in 0 .. MaxSend, e \in 0 .. MaxSend : TransferAt(n, m, b, e)
    BY DEF EngineInv, TransferInv
  <2>2. /\ events[n][m] \subseteq Unacked(sender[n][m])
        /\ \A i \in Slot : ArgOf(sender[n][m].data_timeout_arg[i], sender[n][m].sliding_window[i])
    BY <1>2, <2>1 DEF TransferAt, Sending, Matches
  <2> QED BY <1>2, <2>2 DEF ArgOf
<1> QED BY <1>1, <1>2

LEMMA EngineAckTimer == EngineInv => AckFindsTimer
<1> SUFFICES ASSUME EngineInv, NEW n \in Node, NEW m \in Node, sender[n][m] # NULL,
                    NEW p \in net[m][n], p.type = "ACK"
             PROVE  LET s == sender[n][m] IN
                    /\ s.status = "SYN_SENT" /\ s.seqno = SeqPrev(p.seqno)
                          => s.syn_timeout_arg # NULL
                    /\ s.status = "OPEN" /\ AcksOldest(s, p) => s.data_timeout_arg[0] # NULL
                    /\ s.status = "FIN_SENT" /\ p.seqno = SeqNext(s.seqno)
                          => s.fin_timeout_arg # NULL
  BY DEF AckFindsTimer
<1> DEFINE s == sender[n][m]
<1>1. PICK b \in 0 .. MaxSend, e \in 0 .. MaxSend :
         TransferAt(n, m, b, e) /\ b \in Nat /\ e \in Nat /\ Len(stream[n][m]) \in Nat
  BY FlowFacts
<1>2. receiver[m][n] # NULL /\ Refused(n, m, b, e) /\ TypeInv /\ StreamInv
  BY <1>1 DEF TransferAt, Acks, EngineInv
<1>3. s.status = "SYN_SENT" => s.syn_timeout_arg # NULL
  BY <1>2 DEF Refused
<1>4. ASSUME s.status = "OPEN", AcksOldest(s, p) PROVE s.data_timeout_arg[0] # NULL
  <2>1. b + 1 \in b .. e /\ b + 1 <= Len(stream[n][m])
    BY <1>1, <1>2, <1>4, OldestTaken
  <2>2. b + 1 \in b + 1 .. Len(stream[n][m]) /\ (b + 1) - b - 1 = 0 /\ ~ e < b + 1
    BY <1>1, <2>1
  <2> QED BY <1>2, <2>2 DEF Refused
<1>5. ASSUME s.status = "FIN_SENT", p.seqno = SeqNext(s.seqno) PROVE s.fin_timeout_arg # NULL
  <2>1. Finished(n, m)
    BY <1>1, <1>2, <1>5, FinWasTaken
  <2> QED BY <1>2, <1>5, <2>1 DEF Refused
<1> QED BY <1>3, <1>4, <1>5

LEMMA EngineFin == EngineInv => FinAfterDelivery
<1> SUFFICES ASSUME EngineInv, NEW n \in Node, NEW m \in RecvHandler, sender[n][m] # NULL
             PROVE  /\ sender[n][m].status = "FIN_SENT" => delivered[m][n] = stream[n][m]
                    /\ sender[n][m].session_finished =>
                          receiver[m][n] # NULL /\ receiver[m][n].session_finished
  BY DEF FinAfterDelivery
<1>1. m \in Node
  BY NodeAssumption
<1>2. PICK b \in 0 .. MaxSend, e \in 0 .. MaxSend :
         /\ TransferAt(n, m, b, e) /\ Matches(sender[n][m], isn[n][m], stream[n][m], b)
         /\ b \in Nat /\ e \in Nat /\ b <= e /\ e <= Len(stream[n][m])
         /\ stream[n][m] \in Seq(Message) /\ Len(stream[n][m]) \in Nat
  BY <1>1, FlowFacts
<1>3. ASSUME sender[n][m].status = "FIN_SENT" PROVE delivered[m][n] = stream[n][m]
  <2>1. b = Len(stream[n][m])
    BY <1>2, <1>3 DEF Matches
  <2>2. Len(delivered[m][n]) = Len(stream[n][m])
    BY <1>2, <2>1 DEF TransferAt, Taking
  <2>3. \A i \in 1 .. Len(delivered[m][n]) : delivered[m][n][i] = stream[n][m][i]
    BY <1>1 DEF EngineInv, StreamInv, FlowInv, Delivered
  <2>4. delivered[m][n] \in Seq(Message \cup {NoPayload})
        /\ stream[n][m] \in Seq(Message \cup {NoPayload})
    BY <1>1, <1>2, SMTT(30) DEF EngineInv, TypeInv, TypeOK
  <2> QED BY <2>2, <2>3, <2>4, SeqEqual
<1>4. sender[n][m].session_finished =>
         receiver[m][n] # NULL /\ receiver[m][n].session_finished
  BY <1>2 DEF TransferAt, Phases, Finished
<1> QED BY <1>3, <1>4

-----------------------------------------------------------------------------
\* A message leaves the sliding window only after the peer's recv_handler
\* has got it: an ACK is sent for what was taken only, and the number an ACK
\* carries is that of one packet of the session.
THEOREM AckedCorrect == ASSUME FaithfulNumbers PROVE Spec => []AckedIsDelivered
BY EngineCorrect, EngineAcked, PTL

\* Of the packets in the window, those the receiver has passed on, and no
\* others, pass its test of the last window, so that a repetition of a packet
\* whose ACK was lost is acknowledged again, and no other packet is.
THEOREM LastWindowCorrect == ASSUME FaithfulNumbers PROVE Spec => []LastWindowIsDelivered
BY EngineCorrect, EngineLastWindow, PTL

\* Each message rudp_sendto accepted is numbered or queued, once: neither
\* the two paths of rudp_sendto nor the flush of the queue drops or doubles it.
THEOREM OnceCorrect == ASSUME FaithfulNumbers PROVE Spec => []EachMessageOnce
BY EngineCorrect, EngineOnce, PTL

\* The sliding window is the end of the stream, in order and without holes,
\* through every shift, refill and direct send.
THEOREM WindowCorrect == ASSUME FaithfulNumbers PROVE Spec => []WindowIsStreamEnd
BY EngineCorrect, EngineWindow, PTL

\* No timer outlives the packet it is for: event_timeout_delete is called
\* with the argument of the packet acknowledged, however the window moved.
THEOREM TimersCorrect == ASSUME FaithfulNumbers PROVE Spec => []TimersMatch
BY EngineCorrect, EngineTimers, PTL

\* An ACK that counts finds the timeout argument receive_callback frees,
\* even if sendto refused to take any number of packets.
THEOREM AckTimerCorrect == ASSUME FaithfulNumbers PROVE Spec => []AckFindsTimer
BY EngineCorrect, EngineAckTimer, PTL

\* The FIN follows the delivery of the whole stream, and a sender session
\* is finished only if its peer's receiver session is.
THEOREM FinCorrect == ASSUME FaithfulNumbers PROVE Spec => []FinAfterDelivery
BY EngineCorrect, EngineFin, PTL

-----------------------------------------------------------------------------
(***************************************************************************)
(* Which half of a session a packet finds.  The SYN opens the session of   *)
(* its sender before it goes out and that of its receiver before the ACK   *)
(* does, so everything else finds both; this needs nothing of numbers, but *)
(* that both answers to a SYN are ACKs.                                    *)
(***************************************************************************)
SynIsAcked == AsWritten \cap {528, 555} = {}

\* n has a sender session for m, unless its process failed in rudp_sendto.
Opened(n, m) == sender[n][m] # NULL \/ mode[n] # "up"

\* What a packet from n to m finds, or will find.
Finds(n, m, p) ==
    /\ p.type = "ACK" => receiver[n][m] # NULL /\ Opened(m, n)
    /\ p.type # "ACK" => Opened(n, m)
    /\ p.type \in {"DATA", "FIN"} => receiver[m][n] # NULL

Begun(n, m) ==
    sender[n][m] # NULL =>
        isn[n][m] # NULL /\ (sender[n][m].status # "SYN_SENT" => receiver[m][n] # NULL)

HalfInv ==
    \A n, m \in Node :
        /\ \A p \in net[n][m] : Finds(n, m, p)
        /\ \A p \in events[n][m] : Finds(n, m, p) /\ p.type # "ACK"
        /\ Begun(n, m)

\* No session is lost, and no process comes back.
NothingLost ==
    \A n, m \in Node :
        /\ sender[n][m] # NULL => sender'[n][m] # NULL
        /\ receiver[n][m] # NULL => receiver'[n][m] # NULL
        /\ mode[n] # "up" => mode'[n] # "up"

\* A step of n that sends, or will send, packets[h] to h.
LEMMA HalfStep ==
    ASSUME HalfInv, NothingLost, NEW n \in Node, NEW packets,
           \A a, b \in Node : net'[a][b] \subseteq
               net[a][b] \cup (IF a = n THEN packets[b] ELSE {}),
           \A a, b \in Node : events'[a][b] \subseteq
               events[a][b] \cup (IF a = n THEN {p \in packets[b] : p.type # "ACK"} ELSE {}),
           \A b \in Node : \A p \in packets[b] : Finds(n, b, p)',
           \A a, b \in Node : Begun(a, b)'
    PROVE  HalfInv'
<1>1. ASSUME NEW a \in Node, NEW b \in Node, NEW p, Finds(a, b, p) PROVE Finds(a, b, p)'
  BY <1>1 DEF Finds, Opened, NothingLost
<1>2. ASSUME NEW a \in Node, NEW b \in Node, NEW p \in net'[a][b] PROVE Finds(a, b, p)'
  <2>1. p \in net[a][b] \/ (a = n /\ p \in packets[b])
    OBVIOUS
  <2> QED BY <1>1, <2>1 DEF HalfInv
<1>3. ASSUME NEW a \in Node, NEW b \in Node, NEW p \in events'[a][b]
      PROVE  Finds(a, b, p)' /\ p.type # "ACK"
  <2>1. p \in events[a][b] \/ (a = n /\ p \in packets[b] /\ p.type # "ACK")
    OBVIOUS
  <2> QED BY <1>1, <2>1 DEF HalfInv
<1> QED BY <1>2, <1>3 DEF HalfInv

\* A step that sends nothing and changes no sender session.
LEMMA HalfQuiet ==
    ASSUME HalfInv, NothingLost,
           \A a, b \in Node : net'[a][b] \subseteq net[a][b],
           \A a, b \in Node : events'[a][b] \subseteq events[a][b],
           UNCHANGED <<sender, isn>>
    PROVE  HalfInv'
<1>1. ASSUME NEW a \in Node, NEW b \in Node, NEW p, Finds(a, b, p) PROVE Finds(a, b, p)'
  BY <1>1 DEF Finds, Opened, NothingLost
<1>2. \A a, b \in Node : Begun(a, b)'
  BY DEF HalfInv, Begun, NothingLost
<1> QED BY <1>1, <1>2 DEF HalfInv

\* What sender[n][m] becomes does not concern the other flows.
LEMMA OneBegun ==
    ASSUME TypeInv, HalfInv, NEW n \in Node, NEW m \in Node, NEW s,
           sender' = [sender EXCEPT ![n][m] = s], UNCHANGED receiver,
           isn[n][m] # NULL => isn'[n][m] # NULL,
           \A a, b \in Node : <<a, b>> # <<n, m>> => isn'[a][b] = isn[a][b],
           s # NULL /\ isn'[n][m] # NULL,
           s.status # "SYN_SENT" => receiver[m][n] # NULL
    PROVE  \A a, b \in Node : /\ Begun(a, b)'
                              /\ sender[a][b] # NULL => sender'[a][b] # NULL
<1>1. sender \in [Node -> [Node -> SenderSession \cup {NULL}]]
  BY DEF TypeInv, TypeOK
<1>2. sender'[n][m] = s
  BY <1>1
<1>3. \A a, b \in Node : <<a, b>> # <<n, m>> => sender'[a][b] = sender[a][b]
  BY <1>1
<1>4. Begun(n, m)'
  BY <1>2 DEF Begun
<1>5. \A a, b \in Node : <<a, b>> # <<n, m>> => Begun(a, b)'
  BY <1>3 DEF Begun, HalfInv
<1> QED BY <1>2, <1>3, <1>4, <1>5
LEMMA SendtoHalf ==
    ASSUME TypeInv, HalfInv, NEW n \in Node, NEW m \in Node, rudp_sendto(n, m)
    PROVE  HalfInv'
<1>1. /\ isn \in [Node -> [Node -> SeqNo \cup {NULL}]] /\ mode \in [Node -> Mode]
      /\ sender \in [Node -> [Node -> SenderSession \cup {NULL}]]
      /\ net \in [Node -> [Node -> SUBSET Packet]]
      /\ events \in [Node -> [Node -> SUBSET Packet]]
  BY DEF TypeInv, TypeOK
<1>2. \A seqno \in InitialSeqno : seqno \in SeqNo /\ seqno # NULL
  BY NodeAssumption, NullAssumption
<1>3. UNCHANGED <<receiver, close_requested>> /\ mode[n] = "up" /\ handed[n][m] + 1 \in Message
  <2>1. handed[n][m] \in 0 .. MaxSend /\ handed[n][m] < MaxSend
    BY DEF rudp_sendto, TypeInv, TypeOK
  <2>2. handed[n][m] + 1 \in Message
    BY <2>1, SessionAssumption DEF Message
  <2> QED BY <2>2 DEF rudp_sendto, SendtoOpens, SendtoReceiverOnly, SendtoSession
<1>4. CASE SendtoOpens(n, m)
  <2>1. PICK seqno \in InitialSeqno :
           LET s == create_sender_session(seqno, handed[n][m] + 1)
               syn == {s.syn_timeout_arg}
           IN \E sent \in Sent(syn) :
              /\ sender' = [sender EXCEPT ![n][m] = Untimed(s, syn \ sent)]
              /\ events' = [events EXCEPT ![n][m] = @ \cup sent]
              /\ Transmit(n, m, sent)
              /\ isn' = [isn EXCEPT ![n][m] = seqno]
    BY <1>4 DEF Register, SendtoOpens
  <2> DEFINE s == create_sender_session(seqno, handed[n][m] + 1)
             syn == {s.syn_timeout_arg}
  <2>2. PICK sent \in Sent(syn) :
              /\ sender' = [sender EXCEPT ![n][m] = Untimed(s, syn \ sent)]
              /\ events' = [events EXCEPT ![n][m] = @ \cup sent]
              /\ Transmit(n, m, sent)
              /\ isn' = [isn EXCEPT ![n][m] = seqno]
    BY <2>1
  <2>3. /\ s \in SenderSession /\ s.status = "SYN_SENT"
        /\ \A p \in sent : p.type = "SYN"
    <3>1. s \in SenderSession
      BY <1>2, <1>3, CreateSenderType
    <3>2. s.status = "SYN_SENT" /\ s.syn_timeout_arg.type = "SYN"
      BY DEF create_sender_session, create_rudp_packet
    <3> QED BY <3>1, <3>2, SentType
  <2> DEFINE v == Untimed(s, syn \ sent)
  <2> HIDE DEF s, syn
  <2>4. v # NULL /\ v.status = "SYN_SENT"
    BY <2>3, UntimedType
  <2>5. sender' = [sender EXCEPT ![n][m] = v] /\ UNCHANGED mode
    BY <1>4, <2>2 DEF SendtoOpens
  <2> HIDE DEF v
  <2>6. /\ isn'[n][m] # NULL
        /\ \A a, b \in Node : <<a, b>> # <<n, m>> => isn'[a][b] = isn[a][b]
    BY <1>1, <1>2, <2>2
  <2>7. \A a, b \in Node : Begun(a, b)' /\ (sender[a][b] # NULL => sender'[a][b] # NULL)
    BY <1>3, <2>4, <2>5, <2>6, OneBegun
  <2>8. NothingLost
    BY <1>3, <2>5, <2>7 DEF NothingLost
  <2>9. \A b \in Node : \A p \in Only(m, sent)[b] : Finds(n, b, p)'
    <3>1. sender'[n][m] # NULL
      BY <1>1, <2>4, <2>5
    <3> QED BY <2>3, <3>1 DEF Only, Finds, Opened
  <2>10. \A a, b \in Node :
            /\ net'[a][b] \subseteq net[a][b] \cup (IF a = n THEN Only(m, sent)[b] ELSE {})
            /\ events'[a][b] \subseteq events[a][b] \cup
                   (IF a = n THEN {p \in Only(m, sent)[b] : p.type # "ACK"} ELSE {})
    BY <1>1, <2>2, <2>3 DEF Transmit, Only
  <2> QED BY <2>7, <2>8, <2>9, <2>10, HalfStep
<1>5. CASE SendtoReceiverOnly(n, m)
  <2>1. /\ UNCHANGED <<sender, events>>
        /\ \/ /\ \E seqno \in InitialSeqno :
                    /\ Transmit(n, m, {create_rudp_packet("SYN", seqno, NoPayload)})
                    /\ isn' = [isn EXCEPT ![n][m] = seqno]
              /\ Enter(n, "crashed")
           \/ UNCHANGED <<mode, net, isn>>
    BY <1>5 DEF SendtoReceiverOnly
  <2>2. CASE UNCHANGED <<mode, net, isn>>
    BY <1>3, <2>1, <2>2, HalfQuiet DEF NothingLost
  <2>3. ASSUME NEW seqno \in InitialSeqno,
               Transmit(n, m, {create_rudp_packet("SYN", seqno, NoPayload)}),
               isn' = [isn EXCEPT ![n][m] = seqno], Enter(n, "crashed")
        PROVE  HalfInv'
    <3> DEFINE sent == {create_rudp_packet("SYN", seqno, NoPayload)}
    <3>1. mode'[n] # "up" /\ \A a \in Node : mode[a] # "up" => mode'[a] # "up"
      BY <1>1, <2>3 DEF Enter
    <3>2. NothingLost
      BY <1>3, <2>1, <3>1 DEF NothingLost
    <3>3. \A a, b \in Node : isn[a][b] # NULL => isn'[a][b] # NULL
      BY <1>1, <1>2, <2>3
    <3>4. \A a, b \in Node : Begun(a, b)'
      BY <1>3, <2>1, <3>3 DEF HalfInv, Begun
    <3>5. \A p \in sent : p.type = "SYN"
      BY DEF create_rudp_packet
    <3>6. net' = [net EXCEPT ![n][m] = @ \cup sent]
      BY <2>3 DEF Transmit
    <3> HIDE DEF sent
    <3>7. \A a, b \in Node :
              net'[a][b] \subseteq net[a][b] \cup (IF a = n THEN Only(m, sent)[b] ELSE {})
      BY <1>1, <3>6 DEF Only
    <3>8. \A b \in Node : \A p \in Only(m, sent)[b] : Finds(n, b, p)'
      BY <3>1, <3>5 DEF Only, Finds, Opened
    <3> QED BY <2>1, <3>2, <3>4, <3>7, <3>8, HalfStep
  <2> QED BY <2>1, <2>2, <2>3
<1>6. CASE SendtoSession(n, m)
  <2> DEFINE s == sender[n][m]
             item == handed[n][m] + 1
  <2>1. /\ s \in SenderSession /\ UNCHANGED <<mode, isn>> /\ isn[n][m] # NULL
        /\ s.status # "SYN_SENT" => receiver[m][n] # NULL
    BY <1>1, <1>6 DEF SendtoSession, HalfInv, Begun
  <2>2. ASSUME NEW i \in Free(s), NEW sent, s.status = "OPEN",
               LET t == SendDirect(s, i, item)
                   data == {t.sliding_window[i]}
               IN /\ sent \in Sent(data)
                  /\ sender' = [sender EXCEPT ![n][m] = Untimed(t, data \ sent)]
                  /\ events' = [events EXCEPT ![n][m] = @ \cup sent]
                  /\ Transmit(n, m, sent)
        PROVE  HalfInv'
    <3> DEFINE t == SendDirect(s, i, item)
               data == {t.sliding_window[i]}
    <3>1. t \in SenderSession /\ t.status = "OPEN" /\ t.sliding_window[i].type = "DATA"
      <4>1. i \in Slot /\ item \in Message /\ s \in SenderSession
        BY <1>3, <2>1 DEF Free
      <4> HIDE DEF s, item
      <4>2. /\ t \in SenderSession /\ t.status = s.status
            /\ t.sliding_window[i] = create_rudp_packet("DATA", SeqNext(s.seqno), item)
        BY <4>1, SendDirectType
      <4> QED BY <2>2, <4>2 DEF create_rudp_packet
    <3>2. /\ sender' = [sender EXCEPT ![n][m] = Untimed(t, data \ sent)]
          /\ events' = [events EXCEPT ![n][m] = @ \cup sent]
          /\ Transmit(n, m, sent)
          /\ \A p \in sent : p.type = "DATA"
      BY <2>2, <3>1, SentType
    <3> DEFINE v == Untimed(t, data \ sent)
    <3> HIDE DEF t, data
    <3>3. v # NULL /\ v.status = "OPEN" /\ sender' = [sender EXCEPT ![n][m] = v]
      BY <3>1, <3>2, UntimedType
    <3> HIDE DEF v
    <3>4. \A a, b \in Node : Begun(a, b)' /\ (sender[a][b] # NULL => sender'[a][b] # NULL)
      <4>1. receiver[m][n] # NULL
        BY <2>1, <2>2
      <4> QED BY <1>3, <2>1, <3>3, <4>1, OneBegun
    <3>5. NothingLost
      BY <1>3, <2>1, <3>4 DEF NothingLost
    <3>6. \A b \in Node : \A p \in Only(m, sent)[b] : Finds(n, b, p)'
      <4>1. sender'[n][m] # NULL
        BY <1>1, <3>3
      <4>2. receiver'[m][n] # NULL
        BY <1>3, <2>1, <2>2
      <4> QED BY <3>2, <4>1, <4>2 DEF Only, Finds, Opened
    <3>7. \A a, b \in Node :
            /\ net'[a][b] \subseteq net[a][b] \cup (IF a = n THEN Only(m, sent)[b] ELSE {})
            /\ events'[a][b] \subseteq events[a][b] \cup
                   (IF a = n THEN {p \in Only(m, sent)[b] : p.type # "ACK"} ELSE {})
      BY <1>1, <3>2 DEF Transmit, Only
    <3> QED BY <3>4, <3>5, <3>6, <3>7, HalfStep
  <2>3. CASE sender' = [sender EXCEPT ![n][m] = Enqueue(s, item)] /\ UNCHANGED <<events, net>>
    <3> DEFINE v == Enqueue(s, item)
    <3>1. v # NULL /\ v.status = s.status
      <4>1. s \in SenderSession /\ item \in Message
        BY <1>3, <2>1
      <4> HIDE DEF s, item
      <4>2. v \in SenderSession
        BY <4>1, EnqueueType
      <4>3. v.status = s.status
        BY <4>1 DEF Enqueue, SenderSession
      <4> QED BY <4>2, <4>3, NullAssumption
    <3>2. sender' = [sender EXCEPT ![n][m] = v]
      BY <2>3
    <3> HIDE DEF v
    <3>3. \A a, b \in Node : Begun(a, b)' /\ (sender[a][b] # NULL => sender'[a][b] # NULL)
      BY <1>3, <2>1, <3>1, <3>2, OneBegun
    <3>4. NothingLost
      BY <1>3, <2>1, <3>3 DEF NothingLost
    <3> QED BY <2>3, <3>3, <3>4, HalfStep, NothingType
  <2> QED BY <1>6, <2>2, <2>3 DEF SendtoSession, Register
<1> QED BY <1>4, <1>5, <1>6 DEF rudp_sendto

\* A datagram consumed.
LEMMA ConsumedNet ==
    ASSUME TypeInv, NEW n \in Node, NEW m \in Node, NEW p \in net[m][n], NEW packets,
           packets \in [Node -> SUBSET Packet], Consume(n, m, p, packets)
    PROVE  \A a, b \in Node : net'[a][b] \subseteq
               net[a][b] \cup (IF a = n THEN packets[b] ELSE {})
<1>1. p \in Packet /\ net \in [Node -> [Node -> SUBSET Packet]]
  BY DEF TypeInv, TypeOK
<1> QED BY <1>1, ConsumeNet

\* A handler that answers with ACKs and leaves the senders alone.
LEMMA RepliesHalf ==
    ASSUME TypeInv, HalfInv, NothingLost, NEW n \in Node, NEW m \in Node, NEW p \in net[m][n],
           p.type # "ACK", receiver'[n][m] # NULL,
           NEW seqno \in SeqNo, Consume(n, m, p, Ack(m, seqno)),
           UNCHANGED <<sender, events, isn>>
    PROVE  HalfInv'
<1>1. Opened(m, n)'
  BY DEF HalfInv, Finds, Opened, NothingLost
<1>2. \A b \in Node : \A q \in Ack(m, seqno)[b] : Finds(n, b, q)'
  BY <1>1 DEF Ack, Only, Finds, create_rudp_packet
<1>3. \A a, b \in Node : net'[a][b] \subseteq
          net[a][b] \cup (IF a = n THEN Ack(m, seqno)[b] ELSE {})
  BY AckType, ConsumedNet
<1>4. \A a, b \in Node : Begun(a, b)'
  BY DEF HalfInv, Begun, NothingLost
<1> QED BY <1>2, <1>3, <1>4, HalfStep

\* A handler that sends nothing.
LEMMA SilentHalf ==
    ASSUME TypeInv, HalfInv, NothingLost, NEW n \in Node, NEW m \in Node, NEW p \in net[m][n],
           Consume(n, m, p, Nothing), UNCHANGED <<sender, events, isn>>
    PROVE  HalfInv'
<1>1. \A a, b \in Node : net'[a][b] \subseteq net[a][b]
  BY NothingType, ConsumedNet
<1> QED BY <1>1, HalfQuiet

LEMMA ReceiverKept ==
    ASSUME TypeInv, NEW n \in Node, NEW m \in Node, NEW r, r # NULL,
           UNCHANGED receiver \/ receiver' = [receiver EXCEPT ![n][m] = r]
    PROVE  \A a, b \in Node : receiver[a][b] # NULL => receiver'[a][b] # NULL
<1>1. receiver \in [Node -> [Node -> ReceiverSession \cup {NULL}]]
  BY DEF TypeInv, TypeOK
<1>2. CASE receiver' = [receiver EXCEPT ![n][m] = r]
  <2>1. receiver'[n][m] = r
    BY <1>1, <1>2
  <2>2. \A a, b \in Node : <<a, b>> # <<n, m>> => receiver'[a][b] = receiver[a][b]
    BY <1>1, <1>2
  <2> QED BY <2>1, <2>2
<1> QED BY <1>2

\* n starts a receiver session for m, or starts it again.
LEMMA SynHalf ==
    ASSUME TypeInv, HalfInv, NEW n \in Node, NEW m \in Node, NEW p \in net[m][n],
           p.type = "SYN", UNCHANGED mode,
           LET seqno == SeqNext(p.seqno)
           IN /\ receiver' = [receiver EXCEPT ![n][m] = create_receiver_session(seqno)]
              /\ Consume(n, m, p, Ack(m, seqno)),
           UNCHANGED <<sender, events, isn>>
    PROVE  HalfInv'
<1> DEFINE seqno == SeqNext(p.seqno)
           r == create_receiver_session(seqno)
<1>1. seqno \in SeqNo /\ r # NULL
  <2>1. p.seqno \in SeqNo
    BY DEF TypeInv, TypeOK, Packet
  <2>2. seqno \in SeqNo
    BY <2>1, SeqArithmetic, SeqModAssumption
  <2> QED BY <2>2, CreateReceiverType, NullAssumption
<1>2. receiver' = [receiver EXCEPT ![n][m] = r] /\ Consume(n, m, p, Ack(m, seqno))
  OBVIOUS
<1> HIDE DEF seqno, r
<1>3. NothingLost /\ receiver'[n][m] # NULL
  BY <1>1, <1>2 DEF NothingLost, TypeInv, TypeOK
<1> QED BY <1>1, <1>2, <1>3, RepliesHalf

LEMMA ReceiveNoSessionHalf ==
    ASSUME SynIsAcked, TypeInv, HalfInv, NEW n \in Node, NEW m \in Node, NEW p \in net[m][n],
           mode[n] = "up", ReceiveNoSession(n, m, p)
    PROVE  HalfInv'
<1>1. UNCHANGED <<sender, events, isn>>
  BY DEF ReceiveNoSession, session, history
<1>2. SynReply(n) = "ACK"
  BY DEF SynReply, SynLine, SynIsAcked
<1>3. CASE Consume(n, m, p, Nothing) /\ UNCHANGED receiver
  <2>1. NothingLost
    BY <1>1, <1>3 DEF ReceiveNoSession, Enter, NothingLost, TypeInv, TypeOK
  <2> QED BY <1>1, <1>3, <2>1, SilentHalf
<1>4. CASE /\ p.type = "SYN" /\ UNCHANGED mode
           /\ LET seqno == SeqNext(p.seqno) IN
              /\ receiver' = [receiver EXCEPT ![n][m] = create_receiver_session(seqno)]
              /\ Consume(n, m, p, Only(m, {create_rudp_packet(SynReply(n), seqno, NoPayload)}))
  BY <1>1, <1>2, <1>4, SynHalf DEF Ack
<1> QED BY <1>3, <1>4 DEF ReceiveNoSession, session

LEMMA ReceiveSynHalf ==
    ASSUME TypeInv, HalfInv, NEW n \in Node, NEW m \in Node, NEW p \in net[m][n],
           ReceiveSyn(n, m, p)
    PROVE  HalfInv'
<1>1. UNCHANGED <<mode, sender, events, isn>> /\ p.type = "SYN"
  BY DEF ReceiveSyn, history
<1>2. CASE Consume(n, m, p, Nothing) /\ UNCHANGED receiver
  <2>1. NothingLost
    BY <1>1, <1>2 DEF NothingLost
  <2> QED BY <1>1, <1>2, <2>1, SilentHalf
<1> QED BY <1>1, <1>2, SynHalf DEF ReceiveSyn

LEMMA ReceiveMissingHalfHalf ==
    ASSUME TypeInv, HalfInv, NEW n \in Node, NEW m \in Node, NEW p \in net[m][n],
           mode[n] = "up", ReceiveMissingHalf(n, m, p)
    PROVE  HalfInv'
<1>1. UNCHANGED <<sender, receiver, events, isn>> /\ Consume(n, m, p, Nothing)
      /\ Enter(n, "crashed")
  BY DEF ReceiveMissingHalf, session, history
<1>2. NothingLost
  BY <1>1 DEF NothingLost, Enter, TypeInv, TypeOK
<1> QED BY <1>1, <1>2, SilentHalf

LEMMA ReceiveDataHalf ==
    ASSUME TypeInv, HalfInv, NEW n \in Node, NEW m \in Node, NEW p \in net[m][n],
           ReceiveData(n, m, p)
    PROVE  HalfInv'
<1> DEFINE r == [receiver[n][m] EXCEPT !.status = "OPEN", !.expected_seqno = SeqNext(p.seqno)]
<1>1. UNCHANGED <<mode, sender, events, isn>> /\ p.type = "DATA" /\ receiver[n][m] # NULL
  BY DEF ReceiveData
<1>2. p.seqno \in SeqNo /\ SeqNext(p.seqno) \in SeqNo
  <2>1. p.seqno \in SeqNo
    BY DEF TypeInv, TypeOK, Packet
  <2> QED BY <2>1, SeqArithmetic, SeqModAssumption
<1>3. r # NULL
  <2>1. receiver[n][m] \in ReceiverSession
    BY <1>1 DEF TypeInv, TypeOK
  <2>2. r \in ReceiverSession
    BY <1>2, <2>1 DEF ReceiverSession
  <2> QED BY <2>2, NullAssumption
<1>4. /\ UNCHANGED receiver \/ receiver' = [receiver EXCEPT ![n][m] = r]
      /\ Consume(n, m, p, Nothing) \/ Consume(n, m, p, Ack(m, SeqNext(p.seqno)))
  BY DEF ReceiveData
<1> HIDE DEF r
<1>5. NothingLost /\ receiver'[n][m] # NULL
  BY <1>1, <1>3, <1>4, ReceiverKept DEF NothingLost
<1> QED BY <1>1, <1>2, <1>4, <1>5, RepliesHalf, SilentHalf

LEMMA ReceiveFinHalf ==
    ASSUME TypeInv, HalfInv, NEW n \in Node, NEW m \in Node, NEW p \in net[m][n],
           mode[n] = "up", ReceiveFin(n, m, p)
    PROVE  HalfInv'
<1> DEFINE r == [receiver[n][m] EXCEPT !.session_finished = TRUE]
<1>1. UNCHANGED <<sender, events, isn>> /\ p.type = "FIN" /\ receiver[n][m] \in ReceiverSession
  BY DEF ReceiveFin, history, TypeInv, TypeOK
<1>2. SeqNext(receiver[n][m].expected_seqno) \in SeqNo
  <2>1. receiver[n][m].expected_seqno \in SeqNo
    BY <1>1 DEF ReceiverSession
  <2> QED BY <2>1, SeqArithmetic, SeqModAssumption
<1>3. r # NULL
  <2>1. r \in ReceiverSession
    BY <1>1 DEF ReceiverSession
  <2> QED BY <2>1, NullAssumption
<1>4. /\ UNCHANGED receiver \/ receiver' = [receiver EXCEPT ![n][m] = r]
      /\ \/ Consume(n, m, p, Nothing)
         \/ Consume(n, m, p, Ack(m, SeqNext(receiver[n][m].expected_seqno)))
      /\ receiver[n][m] # NULL
  BY DEF ReceiveFin
<1>5. UNCHANGED mode \/ \E what : mode' = [mode EXCEPT ![n] = what]
  BY DEF ReceiveFin, FinLoop, Enter
<1> HIDE DEF r
<1>6. \A a \in Node : mode[a] # "up" => mode'[a] # "up"
  BY <1>5 DEF TypeInv, TypeOK
<1>7. NothingLost /\ receiver'[n][m] # NULL
  BY <1>1, <1>3, <1>4, <1>6, ReceiverKept DEF NothingLost
<1> QED BY <1>1, <1>2, <1>4, <1>7, RepliesHalf, SilentHalf

\* No process comes back, and what goes out to m is in sent.
NoneRevived == \A a \in Node : mode[a] # "up" => mode'[a] # "up"

SendsOnly(n, m, sent) ==
    /\ \A a, b \in Node : net'[a][b] \subseteq
           net[a][b] \cup (IF a = n /\ b = m THEN sent ELSE {})
    /\ \A a, b \in Node : events'[a][b] \subseteq
           events[a][b] \cup (IF a = n /\ b = m THEN sent ELSE {})

AllFind(n, m, sent) == \A p \in sent : p.type # "ACK" /\ Finds(n, m, p)

\* A handler that changes one sender session, and may send DATA to its peer.
LEMMA SenderHalf ==
    ASSUME TypeInv, HalfInv, NEW n \in Node, NEW m \in Node, NEW s, NEW sent,
           sender[n][m] # NULL, s # NULL,
           sender' = [sender EXCEPT ![n][m] = s], UNCHANGED <<receiver, isn>>,
           s.status # "SYN_SENT" => receiver[m][n] # NULL,
           NoneRevived, AllFind(n, m, sent), SendsOnly(n, m, sent)
    PROVE  HalfInv'
<1>1. isn[n][m] # NULL
  BY DEF HalfInv, Begun
<1>2. \A a, b \in Node : Begun(a, b)' /\ (sender[a][b] # NULL => sender'[a][b] # NULL)
  BY <1>1, OneBegun
<1>3. NothingLost
  BY <1>2 DEF NothingLost, NoneRevived
<1>4. \A b \in Node : \A p \in Only(m, sent)[b] : Finds(n, b, p)' /\ p.type # "ACK"
  BY <1>3 DEF Only, Finds, Opened, NothingLost, AllFind
<1>5. \A b \in Node : Only(m, sent)[b] = IF b = m THEN sent ELSE {}
  BY DEF Only
<1>6. \A a, b \in Node : net'[a][b] \subseteq
          net[a][b] \cup (IF a = n THEN Only(m, sent)[b] ELSE {})
  BY <1>5 DEF SendsOnly
<1>7. \A a, b \in Node : events'[a][b] \subseteq
          events[a][b] \cup (IF a = n THEN {p \in Only(m, sent)[b] : p.type # "ACK"} ELSE {})
  BY <1>4, <1>5 DEF SendsOnly
<1> QED BY <1>2, <1>3, <1>4, <1>6, <1>7, HalfStep

LEMMA NewPacketsData ==
    ASSUME NEW s \in SenderSession
    PROVE  \A p \in NewPackets(s) : p.type = "DATA"
BY DEF NewPackets, NewPacket, create_rudp_packet

LEMMA ReceiveAckSynSentHalf ==
    ASSUME TypeInv, HalfInv, NEW n \in Node, NEW m \in Node, NEW p \in net[m][n],
           ReceiveAckSynSent(n, m, p)
    PROVE  HalfInv'
<1> DEFINE s == sender[n][m]
<1>1. /\ UNCHANGED <<mode, receiver, isn>> /\ sender[n][m] # NULL /\ p.type = "ACK"
      /\ s \in SenderSession
      /\ events \in [Node -> [Node -> SUBSET Packet]]
  BY DEF ReceiveAckSynSent, ReceiveAck, TypeInv, TypeOK
<1>2. receiver[m][n] # NULL
  BY <1>1 DEF HalfInv, Finds
<1>3. CASE Consume(n, m, p, Nothing) /\ UNCHANGED <<sender, events>>
  <2>1. NothingLost
    BY <1>1, <1>3 DEF NothingLost
  <2> QED BY <1>1, <1>3, <2>1, SilentHalf
<1>4. ASSUME NEW sent \in Sent(NewPackets(s)),
             sender' = [sender EXCEPT ![n][m] =
                           Untimed(OpenSession(s), NewPackets(s) \ sent)],
             events' = [events EXCEPT ![n][m] = (@ \ {s.syn_timeout_arg}) \cup sent],
             Consume(n, m, p, Only(m, sent))
      PROVE  HalfInv'
  <2>1. OpenSession(s) \in SenderSession
    BY <1>1, OpenSessionType
  <2>2. \A q \in sent : q.type = "DATA"
    BY <1>1, <1>4, SentType, NewPacketsData
  <2>3. sent \in SUBSET Packet
    BY <1>1, <1>4, SentType, FlushQueueType
  <2> DEFINE v == Untimed(OpenSession(s), NewPackets(s) \ sent)
             arg == s.syn_timeout_arg
  <2>4. v # NULL
    BY <2>1, UntimedType
  <2>5. /\ sender' = [sender EXCEPT ![n][m] = v]
        /\ events' = [events EXCEPT ![n][m] = (@ \ {arg}) \cup sent]
    BY <1>4
  <2> HIDE DEF v, s, arg
  <2>6. \A q \in sent : q.type # "ACK" /\ Finds(n, m, q)
    BY <1>1, <1>2, <2>2 DEF Finds, Opened
  <2>7. \A a, b \in Node : net'[a][b] \subseteq
            net[a][b] \cup (IF a = n /\ b = m THEN sent ELSE {})
    <3>1. \A a, b \in Node : net'[a][b] \subseteq
              net[a][b] \cup (IF a = n THEN Only(m, sent)[b] ELSE {})
      BY <1>4, <2>3, OnlyType, ConsumedNet
    <3> QED BY <3>1, <2>3, OnlyType
  <2>8. \A a, b \in Node : events'[a][b] \subseteq
            events[a][b] \cup (IF a = n /\ b = m THEN sent ELSE {})
    BY <1>1, <2>5
  <2>9. NoneRevived /\ AllFind(n, m, sent) /\ SendsOnly(n, m, sent)
    BY <1>1, <2>6, <2>7, <2>8 DEF NoneRevived, AllFind, SendsOnly
  <2> QED BY <1>1, <1>2, <2>4, <2>5, <2>9, SenderHalf
<1> QED BY <1>3, <1>4 DEF ReceiveAckSynSent, Register, Cancel

LEMMA ReceiveAckFinSentHalf ==
    ASSUME TypeInv, HalfInv, NEW n \in Node, NEW m \in Node, NEW p \in net[m][n],
           mode[n] = "up", ReceiveAckFinSent(n, m, p)
    PROVE  HalfInv'
<1> DEFINE s == sender[n][m]
           t == [s EXCEPT !.session_finished = TRUE]
<1>1. /\ UNCHANGED <<receiver, isn>> /\ sender[n][m] # NULL /\ s.status = "FIN_SENT"
      /\ Consume(n, m, p, Nothing)
      /\ s \in SenderSession
      /\ events \in [Node -> [Node -> SUBSET Packet]]
      /\ \/ UNCHANGED <<mode, sender, events>>
         \/ /\ sender' = [sender EXCEPT ![n][m] = t]
            /\ events' = [events EXCEPT ![n][m] = @ \ {s.fin_timeout_arg}]
            /\ mode' = mode \/ \E what : mode' = [mode EXCEPT ![n] = what]
  <2>1. /\ UNCHANGED <<receiver, isn>> /\ sender[n][m] # NULL /\ s.status = "FIN_SENT"
        /\ Consume(n, m, p, Nothing)
    BY DEF ReceiveAckFinSent, ReceiveAck, history
  <2>2. /\ s \in SenderSession
        /\ events \in [Node -> [Node -> SUBSET Packet]]
    BY <2>1 DEF TypeInv, TypeOK
  <2>3. \/ UNCHANGED <<mode, sender, events>>
        \/ /\ sender' = [sender EXCEPT ![n][m] = t]
           /\ events' = [events EXCEPT ![n][m] = Cancel(@, s.fin_timeout_arg)]
           /\ \/ UNCHANGED mode \/ Enter(n, "crashed") \/ Enter(n, "closed")
              \/ Enter(n, "undefined")
    <3> USE DEF ReceiveAckFinSent
    <3>1. CASE SeqNext(s.seqno) = p.seqno
      BY <3>1, Zenon
    <3>2. CASE SeqNext(s.seqno) # p.seqno
      BY <3>2, Zenon
    <3> QED BY <3>1, <3>2
  <2> QED BY <2>1, <2>2, <2>3 DEF Enter, Cancel
<1>2. receiver[m][n] # NULL
  BY <1>1 DEF HalfInv, Begun
<1>3. CASE UNCHANGED <<mode, sender, events>>
  <2>1. NothingLost
    BY <1>1, <1>3 DEF NothingLost
  <2> QED BY <1>1, <1>3, <2>1, SilentHalf
<1>4. CASE /\ sender' = [sender EXCEPT ![n][m] = t]
           /\ events' = [events EXCEPT ![n][m] = @ \ {s.fin_timeout_arg}]
           /\ mode' = mode \/ \E what : mode' = [mode EXCEPT ![n] = what]
  <2> DEFINE arg == s.fin_timeout_arg
  <2>1. t # NULL
    <3>1. t \in SenderSession
      BY <1>1 DEF SenderSession
    <3> QED BY <3>1, NullAssumption
  <2> HIDE DEF t, s, arg
  <2>2. events' = [events EXCEPT ![n][m] = @ \ {arg}] /\ sender' = [sender EXCEPT ![n][m] = t]
    BY <1>4 DEF arg, t, s
  <2>3. \A a \in Node : mode[a] # "up" => mode'[a] # "up"
    BY <1>4 DEF TypeInv, TypeOK
  <2>4. \A a, b \in Node : net'[a][b] \subseteq net[a][b]
    BY <1>1, NothingType, ConsumedNet
  <2>5. \A a, b \in Node : events'[a][b] \subseteq events[a][b]
    BY <1>1, <2>2
  <2> DEFINE sent == {}
  <2>6. /\ \A q \in sent : q.type # "ACK" /\ Finds(n, m, q)
        /\ \A a, b \in Node : net'[a][b] \subseteq
               net[a][b] \cup (IF a = n /\ b = m THEN sent ELSE {})
        /\ \A a, b \in Node : events'[a][b] \subseteq
               events[a][b] \cup (IF a = n /\ b = m THEN sent ELSE {})
    BY <2>4, <2>5
  <2> HIDE DEF sent
  <2>7. sender[n][m] # NULL /\ UNCHANGED <<receiver, isn>>
    BY <1>1
  <2>8. t.status # "SYN_SENT" => receiver[m][n] # NULL
    BY <1>2
  <2>9. NoneRevived /\ AllFind(n, m, sent) /\ SendsOnly(n, m, sent)
    BY <2>3, <2>6 DEF NoneRevived, AllFind, SendsOnly
  <2> QED BY <2>1, <2>2, <2>7, <2>8, <2>9, SenderHalf
<1> QED BY <1>1, <1>3, <1>4

LEMMA TimeoutHalf ==
    ASSUME TypeInv, HalfInv, NEW n \in Node, NEW m \in Node, timeout_callback(n, m)
    PROVE  HalfInv'
<1> DEFINE s == sender[n][m]
<1>1. PICK p \in events[n][m] : Expires(n, m, p)
  BY DEF timeout_callback
<1>2. /\ mode[n] = "up" /\ UNCHANGED <<receiver, isn>>
      /\ events \in [Node -> [Node -> SUBSET Packet]]
      /\ net \in [Node -> [Node -> SUBSET Packet]]
      /\ sender \in [Node -> [Node -> SenderSession \cup {NULL}]]
      /\ mode \in [Node -> Mode]
  BY <1>1 DEF timeout_callback, Expires, history, TypeInv, TypeOK
<1>3. s # NULL /\ s \in SenderSession
  BY <1>2 DEF TypeInv, NoTimers
<1>4. CASE UNCHANGED <<sender, net>> /\ \A a, b \in Node : events'[a][b] \subseteq events[a][b]
  <2>1. \A a \in Node : mode[a] # "up" => mode'[a] # "up"
    BY <1>1, <1>2 DEF Expires, Enter
  <2>2. NothingLost
    BY <1>2, <1>4, <2>1 DEF NothingLost
  <2> QED BY <1>2, <1>4, <2>2, HalfQuiet
<1>5. ASSUME NEW sent \in Sent({p}), RetriesLeft(s, p),
             sender' = [sender EXCEPT ![n][m] = CountAttempt(s, p)],
             events' = [events EXCEPT ![n][m] = (@ \ {p}) \cup sent],
             Transmit(n, m, sent), UNCHANGED mode
      PROVE  HalfInv'
  <2> DEFINE v == CountAttempt(s, p)
  <2>1. v # NULL /\ v.status = s.status
    <3>1. p \in Packet
      BY <1>2
    <3> QED BY <1>3, <1>5, <3>1, CountAttemptType, NullAssumption
  <2>2. sent \subseteq {p} /\ p.type # "ACK" /\ Finds(n, m, p)
    BY SentType DEF HalfInv
  <2>3. s.status # "SYN_SENT" => receiver[m][n] # NULL
    BY <1>3 DEF HalfInv, Begun
  <2>4. /\ net' = [net EXCEPT ![n][m] = @ \cup sent]
        /\ sender' = [sender EXCEPT ![n][m] = v]
    BY <1>5 DEF Transmit
  <2> HIDE DEF v, s
  <2>5. \A a, b \in Node : net'[a][b] \subseteq
            net[a][b] \cup (IF a = n /\ b = m THEN sent ELSE {})
    BY <1>2, <2>4
  <2>6. \A a, b \in Node : events'[a][b] \subseteq
            events[a][b] \cup (IF a = n /\ b = m THEN sent ELSE {})
    BY <1>2, <1>5
  <2>7. \A q \in sent : q.type # "ACK" /\ Finds(n, m, q)
    BY <2>2
  <2>8. v.status # "SYN_SENT" => receiver[m][n] # NULL
    BY <2>1, <2>3
  <2>9. sender[n][m] # NULL /\ UNCHANGED <<receiver, isn>>
        /\ \A a \in Node : mode[a] # "up" => mode'[a] # "up"
    BY <1>2, <1>3, <1>5 DEF s
  <2>10. NoneRevived /\ AllFind(n, m, sent) /\ SendsOnly(n, m, sent)
    BY <2>5, <2>6, <2>7, <2>9 DEF NoneRevived, AllFind, SendsOnly
  <2> QED BY <2>1, <2>4, <2>8, <2>9, <2>10, SenderHalf
<1>6. CASE /\ events' = [events EXCEPT ![n][m] = @ \ {p}]
           /\ UNCHANGED <<sender, net>>
  BY <1>2, <1>4, <1>6
<1> QED BY <1>1, <1>4, <1>5, <1>6 DEF Expires, Register

LEMMA SlideAndFillHalf ==
    ASSUME TypeInv, HalfInv, NEW n \in Node, NEW m \in Node, NEW p \in net[m][n],
           mode[n] = "up", sender[n][m] # NULL, sender[n][m].status = "OPEN",
           SlideAndFill(n, m, p), UNCHANGED <<receiver, isn>>
    PROVE  HalfInv'
<1> DEFINE s == ShiftWindow(sender[n][m])
           slid == [sender[n] EXCEPT ![m] = FlushQueue(s)]
           fins == {h \in Visited(n) : close_requested[n] /\ Drained(slid[h])}
           out == [h \in Node |-> (IF h = m THEN NewPackets(s) ELSE {})
                                  \cup (IF h \in fins THEN {FinPacket(slid[h])} ELSE {})]
           done == [events[n] EXCEPT ![m] = Cancel(@, sender[n][m].data_timeout_arg[0])]
           after == [h \in Node |-> IF h \in fins THEN SendFin(slid[h]) ELSE slid[h]]
<1>1. /\ sender \in [Node -> [Node -> SenderSession \cup {NULL}]]
      /\ events \in [Node -> [Node -> SUBSET Packet]]
      /\ sender[n][m] \in SenderSession
  BY DEF TypeInv, TypeOK
<1>2. /\ s \in SenderSession /\ FlushQueue(s) \in SenderSession
      /\ FlushQueue(s).status = "OPEN"
      /\ \A q \in NewPackets(s) : q \in Packet /\ q.type = "DATA"
  BY <1>1, ShiftWindowType, FlushQueueType, NewPacketsData
<1>3. \A h \in Node : sender[n][h] # NULL =>
          /\ isn[n][h] # NULL
          /\ sender[n][h].status # "SYN_SENT" => receiver[h][n] # NULL
  BY DEF HalfInv, Begun
<1>4. /\ \E sent \in SentTo(out) :
            /\ sender' = [sender EXCEPT ![n] =
                   [h \in Node |-> IF after[h] = NULL THEN NULL
                                   ELSE Untimed(after[h], out[h] \ sent[h])]]
            /\ events' = [events EXCEPT ![n] = [h \in Node |-> done[h] \cup sent[h]]]
            /\ Consume(n, m, p, sent)
      /\ mode' = mode \/ Enter(n, "crashed")
  BY DEF Register, SlideAndFill
<1> HIDE DEF s
<1>5. /\ slid \in [Node -> SenderSession \cup {NULL}]
      /\ \A h \in Node : sender[n][h] # NULL =>
            slid[h] \in SenderSession /\ (slid[h].status # "SYN_SENT" => receiver[h][n] # NULL)
      /\ \A h \in Node : sender[n][h] = NULL => slid[h] = NULL
  <2>1. \A h \in Node : slid[h] = IF h = m THEN FlushQueue(s) ELSE sender[n][h]
    BY <1>1
  <2> HIDE DEF slid
  <2>2. receiver[m][n] # NULL
    BY <1>3
  <2>3. \A h \in Node : h # m => slid[h] = sender[n][h]
    BY <2>1
  <2>4. slid[m] = FlushQueue(s)
    BY <2>1
  <2>5. slid \in [Node -> SenderSession \cup {NULL}]
    BY <1>1, <1>2 DEF slid
  <2>6. ASSUME NEW h \in Node, sender[n][h] # NULL
        PROVE  slid[h] \in SenderSession /\ (slid[h].status # "SYN_SENT" => receiver[h][n] # NULL)
    BY <1>1, <1>2, <1>3, <2>2, <2>3, <2>4, <2>6
  <2>7. \A h \in Node : sender[n][h] = NULL => slid[h] = NULL
    BY <2>3
  <2> QED BY <2>5, <2>6, <2>7
<1>6. \A h \in fins : sender[n][h] # NULL
  <2> TAKE h \in fins
  <2>1. PICK i \in DOMAIN sessions_list[n] :
          h = sessions_list[n][i] /\ \A j \in 1 .. i : sender[n][sessions_list[n][j]] # NULL
    BY DEF Visited
  <2>2. i \in 1 .. i
    <3>1. sessions_list[n] \in Seq(Node)
      BY DEF TypeInv, TypeOK
    <3>2. DOMAIN sessions_list[n] = 1 .. Len(sessions_list[n]) /\ Len(sessions_list[n]) \in Nat
      BY <3>1, LenProperties
    <3> QED BY <3>2
  <2> QED BY <2>1, <2>2
<1>7. \A h \in fins \cap Node :
         /\ SendFin(slid[h]) \in SenderSession
         /\ FinPacket(slid[h]) \in Packet /\ FinPacket(slid[h]).type = "FIN"
         /\ receiver[h][n] # NULL
  <2> TAKE h \in fins \cap Node
  <2>1. slid[h] \in SenderSession /\ slid[h].status = "OPEN" /\ receiver[h][n] # NULL
    <3>1. slid[h] \in SenderSession /\ (slid[h].status # "SYN_SENT" => receiver[h][n] # NULL)
      BY <1>5, <1>6
    <3>2. slid[h].status = "OPEN"
      BY DEF Drained
    <3> QED BY <3>1, <3>2
  <2> QED BY <2>1, SendFinType DEF FinPacket, create_rudp_packet
<1> HIDE DEF slid, fins
<1>8. /\ out \in [Node -> SUBSET Packet]
      /\ \A h \in Node : \A q \in out[h] :
            q.type \in {"DATA", "FIN"} /\ receiver[h][n] # NULL /\ sender[n][h] # NULL
  <2>1. receiver[m][n] # NULL
    BY <1>3
  <2>2. \A h \in Node : out[h] =
            (IF h = m THEN NewPackets(s) ELSE {})
            \cup (IF h \in fins THEN {FinPacket(slid[h])} ELSE {})
    OBVIOUS
  <2>3. ASSUME NEW h \in Node, NEW q \in out[h]
        PROVE  q \in Packet /\ q.type \in {"DATA", "FIN"}
               /\ receiver[h][n] # NULL /\ sender[n][h] # NULL
    BY <1>2, <1>6, <1>7, <2>1, <2>2, <2>3
  <2> QED BY <2>3
<1>9. /\ after \in [Node -> SenderSession \cup {NULL}]
      /\ \A h \in Node : after[h] = NULL <=> sender[n][h] = NULL
      /\ \A h \in Node : after[h] # NULL =>
            (after[h].status # "SYN_SENT" => receiver[h][n] # NULL)
  <2>1. ASSUME NEW h \in Node, h \in fins
        PROVE  after[h] \in SenderSession /\ sender[n][h] # NULL /\ receiver[h][n] # NULL
    BY <1>6, <1>7, <2>1
  <2>2. ASSUME NEW h \in Node, h \notin fins
        PROVE  /\ after[h] = slid[h]
               /\ after[h] = NULL <=> sender[n][h] = NULL
               /\ after[h] # NULL =>
                     (after[h].status # "SYN_SENT" => receiver[h][n] # NULL)
    BY <1>5, <2>2, NullAssumption
  <2>3. \A h \in Node : after[h] \in SenderSession \cup {NULL}
    BY <1>5, <2>1, <2>2
  <2> HIDE DEF after
  <2>4. \A h \in Node : after[h] = NULL <=> sender[n][h] = NULL
    BY <2>1, <2>2, NullAssumption
  <2>5. \A h \in Node : after[h] # NULL =>
            (after[h].status # "SYN_SENT" => receiver[h][n] # NULL)
    BY <2>1, <2>2
  <2>6. after \in [Node -> SenderSession \cup {NULL}]
    BY <2>3 DEF after
  <2> QED BY <2>4, <2>5, <2>6
<1>10. \A h \in Node : done[h] \subseteq events[n][h]
  BY <1>1 DEF Cancel
<1> HIDE DEF out, done, after
<1>11. PICK sent \in SentTo(out) :
            /\ sender' = [sender EXCEPT ![n] =
                   [h \in Node |-> IF after[h] = NULL THEN NULL
                                   ELSE Untimed(after[h], out[h] \ sent[h])]]
            /\ events' = [events EXCEPT ![n] = [h \in Node |-> done[h] \cup sent[h]]]
            /\ Consume(n, m, p, sent)
  BY <1>4
<1>12. sent \in [Node -> SUBSET Packet] /\ \A h \in Node : sent[h] \subseteq out[h]
  BY <1>8, SentToType
<1> DEFINE row == [h \in Node |-> IF after[h] = NULL THEN NULL
                                  ELSE Untimed(after[h], out[h] \ sent[h])]
<1>13. \A h \in Node : /\ row[h] = NULL <=> sender[n][h] = NULL
                       /\ row[h] # NULL =>
                           (row[h].status # "SYN_SENT" => receiver[h][n] # NULL)
  <2> TAKE h \in Node
  <2>1. CASE after[h] = NULL
    BY <1>9, <2>1
  <2>2. CASE after[h] # NULL
    <3>1. after[h] \in SenderSession
      BY <1>9, <2>2
    <3>2. row[h] = Untimed(after[h], out[h] \ sent[h])
      BY <2>2
    <3>3. row[h] # NULL /\ row[h].status = after[h].status
      BY <3>1, <3>2, UntimedType
    <3> QED BY <1>9, <2>2, <3>3
  <2> QED BY <2>1, <2>2
<1>14. /\ sender' = [sender EXCEPT ![n] = row]
       /\ sender'[n] = row
       /\ \A a \in Node : a # n => sender'[a] = sender[a]
  <2>1. sender' = [sender EXCEPT ![n] = row]
    BY <1>11
  <2> HIDE DEF row
  <2> QED BY <1>1, <2>1
<1> HIDE DEF row
<1>15. \A a, b \in Node : Begun(a, b)' /\ (sender[a][b] # NULL => sender'[a][b] # NULL)
  <2>1. ASSUME NEW a \in Node, NEW b \in Node
        PROVE  Begun(a, b)' /\ (sender[a][b] # NULL => sender'[a][b] # NULL)
    <3>1. CASE a = n
      BY <1>3, <1>13, <1>14, <3>1 DEF Begun
    <3>2. CASE a # n
      BY <1>14, <3>2 DEF HalfInv, Begun
    <3> QED BY <3>1, <3>2
  <2> QED BY <2>1
<1>16. \A a \in Node : mode[a] # "up" => mode'[a] # "up"
  BY <1>4 DEF Enter, TypeInv, TypeOK
<1>17. NothingLost
  BY <1>15, <1>16 DEF NothingLost
<1>18. \A b \in Node : \A q \in sent[b] : Finds(n, b, q)' /\ q.type # "ACK"
  <2>1. ASSUME NEW b \in Node, NEW q \in sent[b]
        PROVE  q.type \in {"DATA", "FIN"} /\ receiver[b][n] # NULL /\ sender[n][b] # NULL
    BY <1>8, <1>12
  <2>2. ASSUME NEW b \in Node, NEW q \in sent[b]
        PROVE  q.type # "ACK" /\ receiver'[b][n] # NULL /\ sender'[n][b] # NULL
    BY <1>15, <2>1, <2>2
  <2> QED BY <2>2 DEF Finds, Opened
<1>19. \A a, b \in Node : net'[a][b] \subseteq
           net[a][b] \cup (IF a = n THEN sent[b] ELSE {})
  BY <1>11, <1>12, ConsumedNet
<1>20. \A a, b \in Node : events'[a][b] \subseteq
           events[a][b] \cup (IF a = n THEN {q \in sent[b] : q.type # "ACK"} ELSE {})
  <2>1. \A b \in Node : events'[n][b] = done[b] \cup sent[b]
    BY <1>1, <1>11
  <2>2. \A a, b \in Node : a # n => events'[a][b] = events[a][b]
    BY <1>1, <1>11
  <2>3. ASSUME NEW b \in Node, NEW q \in events'[n][b]
        PROVE  q \in events[n][b] \/ (q \in sent[b] /\ q.type # "ACK")
    BY <1>10, <1>18, <2>1, <2>3
  <2> QED BY <2>2, <2>3
<1> QED BY <1>15, <1>17, <1>18, <1>19, <1>20, HalfStep

LEMMA ReceiveAckOpenHalf ==
    ASSUME TypeInv, HalfInv, NEW n \in Node, NEW m \in Node, NEW p \in net[m][n],
           mode[n] = "up", ReceiveAckOpen(n, m, p)
    PROVE  HalfInv'
<1>1. /\ UNCHANGED <<receiver, isn>>
      /\ sender[n][m] # NULL /\ sender[n][m].status = "OPEN"
  BY DEF ReceiveAckOpen, ReceiveAck
<1>2. CASE SlideAndFill(n, m, p)
  BY <1>1, <1>2, SlideAndFillHalf
<1>3. CASE /\ Consume(n, m, p, Nothing) /\ UNCHANGED <<sender, events>>
           /\ Enter(n, "undefined") \/ UNCHANGED mode
  <2>1. NothingLost
    BY <1>1, <1>3 DEF NothingLost, Enter, TypeInv, TypeOK
  <2> QED BY <1>1, <1>3, <2>1, SilentHalf
<1> QED BY <1>2, <1>3 DEF ReceiveAckOpen

LEMMA QuietHalf ==
    ASSUME TypeInv, HalfInv, \A a, b \in Node : net'[a][b] \subseteq net[a][b],
           UNCHANGED <<mode, sender, receiver, events, isn>>
    PROVE  HalfInv'
<1>1. NothingLost
  BY DEF NothingLost
<1> QED BY <1>1, HalfQuiet

LEMMA HalfNext == SynIsAcked /\ TypeInv /\ HalfInv /\ [Next]_vars => HalfInv'
<1> SUFFICES ASSUME SynIsAcked, TypeInv, HalfInv, [Next]_vars PROVE HalfInv'
  OBVIOUS
<1>1. ASSUME NEW n \in Node, NEW m \in Node, rudp_sendto(n, m) PROVE HalfInv'
  BY <1>1, SendtoHalf
<1>2. ASSUME NEW n \in Node, NEW m \in Node, receive_callback(n, m) PROVE HalfInv'
  <2>1. PICK p \in net[m][n] :
          \/ ReceiveNoSession(n, m, p)
          \/ ReceiveSyn(n, m, p)
          \/ ReceiveMissingHalf(n, m, p)
          \/ ReceiveAckSynSent(n, m, p)
          \/ ReceiveAckOpen(n, m, p)
          \/ ReceiveAckFinSent(n, m, p)
          \/ ReceiveData(n, m, p)
          \/ ReceiveFin(n, m, p)
    BY <1>2 DEF receive_callback
  <2>2. mode[n] = "up"
    BY <1>2 DEF receive_callback
  <2> QED BY <2>1, <2>2, ReceiveNoSessionHalf, ReceiveSynHalf, ReceiveMissingHalfHalf,
             ReceiveAckSynSentHalf, ReceiveAckOpenHalf, ReceiveAckFinSentHalf,
             ReceiveDataHalf, ReceiveFinHalf
<1>3. ASSUME NEW n \in Node, NEW m \in Node, timeout_callback(n, m) PROVE HalfInv'
  BY <1>3, TimeoutHalf
<1>4. ASSUME NEW n \in Node, NEW m \in Node, Lose(n, m) PROVE HalfInv'
  <2>1. /\ \E p \in net[n][m] : net' = [net EXCEPT ![n][m] = @ \ {p}]
        /\ UNCHANGED <<mode, sender, receiver, events, isn>>
    BY <1>4 DEF Lose, session, history
  <2>2. net \in [Node -> [Node -> SUBSET Packet]]
    BY DEF TypeInv, TypeOK
  <2>3. \A a, b \in Node : net'[a][b] \subseteq net[a][b]
    BY <2>1, <2>2
  <2> QED BY <2>1, <2>3, QuietHalf
<1>5. ASSUME NEW n \in Node, rudp_close(n) PROVE HalfInv'
  BY <1>5, QuietHalf DEF rudp_close, session, history
<1>6. CASE UNCHANGED vars
  BY <1>6, QuietHalf DEF vars, session, history
<1> QED BY <1>1, <1>2, <1>3, <1>4, <1>5, <1>6 DEF Next

LEMMA HalfInit == Init => HalfInv
BY DEF Init, HalfInv, Begun

LEMMA HalfShows == TypeInv /\ HalfInv => HalfExists
<1> SUFFICES ASSUME TypeInv, HalfInv, NEW n \in Node, NEW m \in Node, mode[n] = "up",
                    NEW p \in net[m][n]
             PROVE  /\ p.type = "ACK" => sender[n][m] # NULL
                    /\ p.type \in {"DATA", "FIN"} => receiver[n][m] # NULL
  BY DEF HalfExists
<1>1. Finds(m, n, p)
  BY DEF HalfInv
<1> QED BY <1>1 DEF Finds, Opened

\* If every SYN is answered by an ACK, as the later draft does, no packet ever
\* meets a null session.  With lines 528 and 555 to the letter this is false:
\* the first ACK finds no sender_session (run synreply).
THEOREM HalfCorrect == ASSUME SynIsAcked PROVE Spec => []HalfExists
<1>1. TypeInv /\ HalfInv /\ [Next]_vars => (TypeInv /\ HalfInv)'
  BY HalfNext, TypeNext
<1>2. Init => TypeInv /\ HalfInv
  BY HalfInit, TypeInit
<1> QED BY <1>1, <1>2, HalfShows, PTL DEF Spec

-----------------------------------------------------------------------------
(***************************************************************************)
(* A receiver never goes back.                                             *)
(***************************************************************************)
\* What may become of the receiver session of n for m.
Advances(n, m) ==
    receiver[n][m] # NULL /\ receiver'[n][m] # receiver[n][m] =>
        LET r == receiver[n][m]
            r2 == receiver'[n][m]
        IN \/ /\ r2.expected_seqno = SeqNext(r.expected_seqno)
              /\ ~ r.session_finished
              /\ n \in RecvHandler => Len(delivered'[n][m]) = Len(delivered[n][m]) + 1
           \/ /\ r2.expected_seqno = r.expected_seqno
              /\ r2.session_finished

LEMMA SynAdvances ==
    ASSUME EngineInv, NEW n \in Node, NEW m \in Node, NEW p \in net[m][n], ReceiveSyn(n, m, p)
    PROVE  \A i, j \in Node : Advances(i, j)
<1> DEFINE r == receiver[n][m]
           r2 == create_receiver_session(SeqNext(p.seqno))
<1>1. CASE MayRestart(r)
  <2>1. receiver' = [receiver EXCEPT ![n][m] = r2] /\ p.type = "SYN"
    BY <1>1 DEF ReceiveSyn
  <2> HIDE DEF r2
  <2>2. /\ \A i, j \in Node : <<i, j>> # <<n, m>> => receiver'[i][j] = receiver[i][j]
        /\ receiver'[n][m] = r2
    BY <2>1 DEF EngineInv, TypeInv, TypeOK
  <2>3. r # NULL => r2 = r
    <3>1. SUFFICES ASSUME r # NULL PROVE r2 = r
      OBVIOUS
    <3>2. PICK e \in 0 .. MaxSend : Taking(m, n, e)
      BY DEF EngineInv, TransferInv, TransferAt
    <3>3. /\ r \in ReceiverSession /\ r.status = "OPENING" /\ ~ r.session_finished
          /\ r.expected_seqno = SeqAdd(isn[m][n], 0 + 1)
      BY <1>1, <3>1, <3>2 DEF MayRestart, Taking, EngineInv, TypeInv, TypeOK
    <3>4. p.seqno = isn[m][n]
      BY <2>1 DEF EngineInv, StreamInv, FlowInv, Genuine
    <3>5. r2 = create_receiver_session(r.expected_seqno)
      BY <3>3, <3>4 DEF r2, SeqNext
    <3> QED BY <3>3, <3>5 DEF ReceiverSession, create_receiver_session
  <2> QED BY <2>2, <2>3 DEF Advances
<1>2. CASE ~ MayRestart(r)
  BY <1>2 DEF ReceiveSyn, Advances
<1> QED BY <1>1, <1>2

LEMMA DataAdvances ==
    ASSUME EngineInv, NEW n \in Node, NEW m \in Node, NEW p \in net[m][n], ReceiveData(n, m, p)
    PROVE  \A i, j \in Node : Advances(i, j)
<1> DEFINE r == receiver[n][m]
           r2 == [r EXCEPT !.status = "OPEN", !.expected_seqno = SeqNext(p.seqno)]
<1>1. CASE InSequence(r, p)
  <2>1. /\ receiver' = [receiver EXCEPT ![n][m] = r2] /\ r # NULL /\ p.type = "DATA"
        /\ IF n \in RecvHandler
           THEN delivered' = [delivered EXCEPT ![n][m] = Append(@, p.payload)]
           ELSE UNCHANGED delivered
    BY <1>1 DEF ReceiveData
  <2>2. r \in ReceiverSession
    BY <2>1 DEF EngineInv, TypeInv, TypeOK
  <2>3. r2.expected_seqno = SeqNext(r.expected_seqno)
    BY <1>1, <2>2 DEF InSequence, ReceiverSession
  <2>4. n \in RecvHandler => Len(delivered'[n][m]) = Len(delivered[n][m]) + 1
    <3>1. delivered \in [Node -> [Node -> Seq(Message \cup {NoPayload})]]
      BY DEF EngineInv, TypeInv, TypeOK
    <3> QED BY <2>1, <3>1
  <2>5. ~ r.session_finished
    <3>1. SUFFICES ASSUME r.session_finished PROVE FALSE
      OBVIOUS
    <3>2. PICK b \in 0 .. MaxSend, e \in 0 .. MaxSend : TransferAt(m, n, b, e)
      BY DEF EngineInv, TransferInv
    <3> DEFINE L == Len(stream[m][n])
               x == isn[m][n]
    <3>3. Ended(m, n) /\ r.expected_seqno = SeqAdd(x, e + 1) /\ b <= e
      BY <2>1, <3>1, <3>2 DEF TransferAt, Taking, Finished
    <3>4. sender[m][n] # NULL /\ b = L
      BY <3>2, <3>3 DEF Ended, TransferAt, Sending, Matches
    <3>5. FlowInv(m, n) /\ b \in Nat /\ e \in Nat
      BY SessionAssumption DEF EngineInv, StreamInv
    <3>6. /\ x \in SeqNo /\ e <= L
          /\ \E k \in 1 .. L : p.seqno = SeqAdd(x, k)
      BY <2>1, <3>2, <3>5, DataInFlight DEF EngineInv
    <3>7. L \in Nat /\ L + 2 < SeqMod
      BY <3>5, FlowTypes DEF EngineInv
    <3>8. PICK k \in 1 .. L : p.seqno = SeqAdd(x, k)
      BY <3>6
    <3>9. SeqAdd(x, k) = SeqAdd(x, e + 1)
      BY <1>1, <3>3, <3>8 DEF InSequence
    <3> HIDE DEF L, x
    <3>10. k \in 0 .. SeqMod - 1 /\ e + 1 \in 0 .. SeqMod - 1
      BY <3>5, <3>6, <3>7, SeqModAssumption
    <3>11. k = e + 1
      BY <3>6, <3>9, <3>10, SeqInjective
    <3> QED BY <3>3, <3>4, <3>5, <3>7, <3>11
  <2> HIDE DEF r2
  <2>6. /\ \A i, j \in Node : <<i, j>> # <<n, m>> => receiver'[i][j] = receiver[i][j]
        /\ receiver'[n][m] = r2
    BY <2>1 DEF EngineInv, TypeInv, TypeOK
  <2> QED BY <2>3, <2>4, <2>5, <2>6 DEF Advances
<1>2. CASE ~ InSequence(r, p)
  BY <1>2 DEF ReceiveData, Advances
<1> QED BY <1>1, <1>2

LEMMA FinAdvances ==
    ASSUME EngineInv, NEW n \in Node, NEW m \in Node, NEW p \in net[m][n], ReceiveFin(n, m, p)
    PROVE  \A i, j \in Node : Advances(i, j)
<1> DEFINE r == receiver[n][m]
           r2 == [r EXCEPT !.session_finished = TRUE]
<1>1. CASE r.status = "OPEN" /\ InSequence(r, p)
  <2>1. receiver' = [receiver EXCEPT ![n][m] = r2] /\ r # NULL
    BY <1>1 DEF ReceiveFin
  <2>2. r2.expected_seqno = r.expected_seqno /\ r2.session_finished
    BY <2>1 DEF EngineInv, TypeInv, TypeOK, ReceiverSession
  <2> HIDE DEF r2
  <2>3. /\ \A i, j \in Node : <<i, j>> # <<n, m>> => receiver'[i][j] = receiver[i][j]
        /\ receiver'[n][m] = r2
    BY <2>1 DEF EngineInv, TypeInv, TypeOK
  <2> QED BY <2>2, <2>3 DEF Advances
<1>2. CASE ~ (r.status = "OPEN" /\ InSequence(r, p))
  BY <1>2 DEF ReceiveFin, Advances
<1> QED BY <1>1, <1>2

LEMMA NextAdvances ==
    ASSUME EngineInv, [Next]_vars
    PROVE  \A i, j \in Node : Advances(i, j)
<1>1. CASE UNCHANGED receiver
  BY <1>1, SMTT(30) DEF Advances
<1>2. ASSUME NEW n \in Node, NEW m \in Node, rudp_sendto(n, m) PROVE UNCHANGED receiver
  BY <1>2 DEF rudp_sendto, SendtoOpens, SendtoReceiverOnly, SendtoSession
<1>3. ASSUME NEW n \in Node, NEW m \in Node, receive_callback(n, m)
      PROVE  \A i, j \in Node : Advances(i, j)
  <2>1. PICK p \in net[m][n] :
          \/ ReceiveNoSession(n, m, p)
          \/ ReceiveSyn(n, m, p)
          \/ ReceiveMissingHalf(n, m, p)
          \/ ReceiveAckSynSent(n, m, p)
          \/ ReceiveAckOpen(n, m, p)
          \/ ReceiveAckFinSent(n, m, p)
          \/ ReceiveData(n, m, p)
          \/ ReceiveFin(n, m, p)
    BY <1>3 DEF receive_callback
  <2>2. CASE ReceiveNoSession(n, m, p)
    <3>1. receiver[n][m] = NULL
      BY <2>2 DEF ReceiveNoSession, HasSession
    <3>2. \A i, j \in Node : <<i, j>> # <<n, m>> => receiver'[i][j] = receiver[i][j]
      <4> DEFINE r2 == create_receiver_session(SeqNext(p.seqno))
      <4>1. UNCHANGED receiver \/ receiver' = [receiver EXCEPT ![n][m] = r2]
        BY <2>2 DEF ReceiveNoSession, session
      <4> HIDE DEF r2
      <4>2. receiver \in [Node -> [Node -> ReceiverSession \cup {NULL}]]
        BY DEF EngineInv, TypeInv, TypeOK
      <4>3. CASE UNCHANGED receiver
        BY <4>3
      <4>4. CASE receiver' = [receiver EXCEPT ![n][m] = r2]
        BY <4>2, <4>4
      <4> QED BY <4>1, <4>3, <4>4
    <3> QED BY <3>1, <3>2 DEF Advances
  <2>3. CASE ReceiveMissingHalf(n, m, p)
    BY <1>1, <2>3 DEF ReceiveMissingHalf, session
  <2>4. CASE ReceiveAckSynSent(n, m, p) \/ ReceiveAckOpen(n, m, p) \/ ReceiveAckFinSent(n, m, p)
    BY <1>1, <2>4 DEF ReceiveAckSynSent, ReceiveAckOpen, ReceiveAckFinSent
  <2> QED BY <2>1, <2>2, <2>3, <2>4, SynAdvances, DataAdvances, FinAdvances
<1>4. ASSUME NEW n \in Node, NEW m \in Node, timeout_callback(n, m) PROVE UNCHANGED receiver
  BY <1>4 DEF timeout_callback, Expires
<1>5. ASSUME NEW n \in Node, NEW m \in Node, Lose(n, m) PROVE UNCHANGED receiver
  BY <1>5 DEF Lose, session
<1>6. ASSUME NEW n \in Node, rudp_close(n) PROVE UNCHANGED receiver
  BY <1>6 DEF rudp_close, session
<1>7. CASE UNCHANGED vars
  BY <1>1, <1>7 DEF vars, session
<1> QED BY <1>1, <1>2, <1>3, <1>4, <1>5, <1>6, <1>7 DEF Next

\* The number a receiver session expects moves by one with each delivery and
\* never back: a repeated SYN restarts nothing, and after the FIN nothing is
\* taken any more.
THEOREM AdvancesCorrect == ASSUME FaithfulNumbers PROVE Spec => ReceiverAdvances
<1>1. EngineInv /\ [Next]_vars =>
        [\A n, m \in Node :
            receiver[n][m] # NULL /\ receiver'[n][m] # receiver[n][m] =>
                LET r == receiver[n][m]
                    r2 == receiver'[n][m]
                IN \/ /\ r2.expected_seqno = SeqNext(r.expected_seqno)
                      /\ ~ r.session_finished
                      /\ n \in RecvHandler => Len(delivered'[n][m]) = Len(delivered[n][m]) + 1
                   \/ /\ r2.expected_seqno = r.expected_seqno
                      /\ r2.session_finished]_vars
  BY NextAdvances DEF Advances
<1> QED BY <1>1, EngineCorrect, PTL DEF Spec, ReceiverAdvances

-----------------------------------------------------------------------------
(***************************************************************************)
(* Why a process ends.  The third invariant holds if every line of the     *)
(* source is read as its sibling lines fix it: taken to the letter, each   *)
(* of 528, 551, 555 and 665 ends a process that nobody misused.            *)
(***************************************************************************)
\* A step of n leaves the other sockets alone.
Own(n) ==
    \A x \in Node \ {n} :
        /\ mode'[x] = mode[x] /\ close_requested'[x] = close_requested[x]
        /\ sessions_list'[x] = sessions_list[x] /\ events'[x] = events[x]
        /\ sender'[x] = sender[x] /\ receiver'[x] = receiver[x] /\ isn'[x] = isn[x]

LEMMA SameOutcome ==
    ASSUME NEW x \in Node, Outcome(x),
           mode'[x] = mode[x], close_requested'[x] = close_requested[x], events'[x] = events[x],
           sender'[x] = sender[x], receiver'[x] = receiver[x], isn'[x] = isn[x]
    PROVE  Outcome(x)'
<1>1. \A m \in Node : /\ FinTaken(x, m)' = FinTaken(x, m)
                      /\ SenderDone(x, m)' = SenderDone(x, m)
                      /\ HasSession(x, m)' = HasSession(x, m)
                      /\ GivenUp(x, m)' = GivenUp(x, m)
  BY DEF FinTaken, SenderDone, HasSession, GivenUp
<1>2. CrashCause(x)' = CrashCause(x)
  BY <1>1 DEF CrashCause
<1>3. HangCause(x)' = HangCause(x)
  BY <1>1 DEF HangCause
<1>4. StaleCause(x)' = StaleCause(x)
  BY <1>1 DEF StaleCause
<1>5. CloseCause(x)' = CloseCause(x)
  BY <1>1 DEF CloseCause
<1> QED BY <1>1, <1>2, <1>3, <1>4, <1>5 DEF Outcome

LEMMA OwnStep ==
    ASSUME SocketInv, NEW n \in Node, Own(n), Listed(n)', Outcome(n)'
    PROVE  SocketInv'
<1> SUFFICES ASSUME NEW x \in Node, x # n PROVE Listed(x)' /\ Outcome(x)'
  BY DEF SocketInv
<1>1. Listed(x) /\ Outcome(x)
  BY DEF SocketInv
<1>2. Listed(x)'
  BY <1>1 DEF Own, Listed, HasSession
<1>3. Outcome(x)'
  BY <1>1, SameOutcome DEF Own
<1> QED BY <1>2, <1>3

LEMMA OwnEvents ==
    ASSUME TypeInv, NEW n \in Node, NEW m \in Node,
           \/ UNCHANGED events
           \/ \E v : events' = [events EXCEPT ![n][m] = v]
           \/ \E row : events' = [events EXCEPT ![n] = row]
    PROVE  \A x \in Node \ {n} : events'[x] = events[x]
BY DEF TypeInv, TypeOK

\* n has sessions with the same peers as before.
SamePeers(n) == \A h \in Node : HasSession(n, h)' <=> HasSession(n, h)

LEMMA ListKept ==
    ASSUME TypeInv, NEW n \in Node, Listed(n), SamePeers(n),
           sessions_list'[n] = sessions_list[n]
    PROVE  Listed(n)'
<1>1. \A i \in DOMAIN sessions_list[n] : sessions_list[n][i] \in Node
  BY DEF TypeInv, TypeOK
<1> QED BY <1>1 DEF Listed, SamePeers

\* The peers in a list of sessions.
Peers(l) == {l[i] : i \in DOMAIN l}

LEMMA ListedPeers ==
    ASSUME NEW n \in Node
    PROVE  /\ Peers(sessions_list[n]) = {h \in Node : HasSession(n, h)} => Listed(n)
           /\ TypeInv /\ Listed(n) =>
                 Peers(sessions_list[n]) = {h \in Node : HasSession(n, h)}
BY DEF Listed, Peers, TypeInv, TypeOK

LEMMA AppendPeers ==
    ASSUME NEW l \in Seq(Node), NEW m \in Node
    PROVE  /\ Append(l, m) \in Seq(Node)
           /\ Peers(Append(l, m)) = Peers(l) \cup {m}
<1> DEFINE l2 == Append(l, m)
<1>1. /\ Len(l) \in Nat /\ DOMAIN l = 1 .. Len(l) /\ DOMAIN l2 = 1 .. Len(l) + 1
      /\ \A i \in 1 .. Len(l) : l2[i] = l[i]
      /\ l2[Len(l) + 1] = m /\ l2 \in Seq(Node)
  BY LenProperties, AppendProperties
<1> HIDE DEF l2
<1>2. DOMAIN l2 = DOMAIN l \cup {Len(l) + 1} /\ \A i \in DOMAIN l : l2[i] = l[i]
  BY <1>1
<1>3. Peers(l2) = Peers(l) \cup {m}
  BY <1>1, <1>2 DEF Peers
<1> QED BY <1>1, <1>3 DEF l2

LEMMA ListGrown ==
    ASSUME TypeInv, NEW n \in Node, NEW m \in Node, Listed(n), HasSession(n, m)',
           \A h \in Node \ {m} : HasSession(n, h)' <=> HasSession(n, h),
           LET l == Append(sessions_list[n], m)
           IN sessions_list'[n] \in {l, Append(l, m)}
    PROVE  Listed(n)'
<1>1. sessions_list[n] \in Seq(Node)
  BY DEF TypeInv, TypeOK
<1> DEFINE l == Append(sessions_list[n], m)
<1>a. l \in Seq(Node) /\ Peers(l) = Peers(sessions_list[n]) \cup {m}
  BY <1>1, AppendPeers
<1>b. sessions_list'[n] = l \/ sessions_list'[n] = Append(l, m)
  OBVIOUS
<1> HIDE DEF l
<1>c. Peers(Append(l, m)) = Peers(l) \cup {m}
  BY <1>a, AppendPeers
<1>2. Peers(sessions_list'[n]) = Peers(sessions_list[n]) \cup {m}
  BY <1>a, <1>b, <1>c
<1>3. Peers(sessions_list[n]) = {h \in Node : HasSession(n, h)}
  BY ListedPeers
<1>4. Peers(sessions_list'[n]) = {h \in Node : HasSession(n, h)'}
  BY <1>2, <1>3
<1> QED BY <1>4 DEF Listed, Peers

\* A sender session with an initial number is not lost while the process runs.
LEMMA SenderStays ==
    ASSUME StreamInv', NEW n \in Node, NEW m \in Node, mode'[n] = "up", isn'[n][m] # NULL
    PROVE  sender'[n][m] # NULL
BY DEF StreamInv, FlowInv, Unopened

LEMMA SenderNumbered ==
    ASSUME StreamInv, NEW n \in Node, NEW m \in Node, sender[n][m] # NULL
    PROVE  isn[n][m] # NULL
BY DEF StreamInv, FlowInv, Numbering

\* A step of n that leaves its lookups and its list alone and keeps it up.
LEMMA PlainStep ==
    ASSUME TypeInv, SocketInv, NEW n \in Node, Own(n), SamePeers(n),
           sessions_list'[n] = sessions_list[n], mode'[n] = "up"
    PROVE  SocketInv'
<1>1. Listed(n)
  BY DEF SocketInv
<1>2. Listed(n)'
  BY <1>1, ListKept
<1>3. Outcome(n)'
  BY DEF Outcome
<1> QED BY <1>2, <1>3, OwnStep

LEMMA SendtoSocket ==
    ASSUME EngineInv, EngineInv', SocketInv, NEW n \in Node, NEW m \in Node, rudp_sendto(n, m)
    PROVE  SocketInv'
<1>1. /\ sender \in [Node -> [Node -> SenderSession \cup {NULL}]]
      /\ sessions_list \in [Node -> Seq(Node)]
      /\ isn \in [Node -> [Node -> SeqNo \cup {NULL}]]
      /\ mode \in [Node -> Mode]
      /\ TypeInv /\ StreamInv' /\ StreamInv
  BY DEF EngineInv, TypeInv, TypeOK
<1>2. mode[n] = "up" /\ UNCHANGED close_requested /\ Listed(n) /\ Outcome(n)
  BY DEF rudp_sendto, SocketInv
<1>3. CASE SendtoOpens(n, m)
  <2>1. /\ \E v : sender' = [sender EXCEPT ![n][m] = v]
        /\ \E seqno \in InitialSeqno : isn' = [isn EXCEPT ![n][m] = seqno]
        /\ sessions_list' = [sessions_list EXCEPT ![n] = Append(@, m)]
        /\ UNCHANGED <<mode, receiver>>
    BY <1>3 DEF SendtoOpens
  <2>2. /\ \A x \in Node \ {n} : sender'[x] = sender[x] /\ isn'[x] = isn[x]
        /\ \A h \in Node \ {m} : sender'[n][h] = sender[n][h]
        /\ isn'[n][m] # NULL
    <3>1. PICK seqno \in InitialSeqno : isn' = [isn EXCEPT ![n][m] = seqno]
      BY <2>1
    <3>2. seqno # NULL
      BY NodeAssumption, NullAssumption
    <3> QED BY <1>1, <2>1, <3>1, <3>2
  <2>3. Own(n)
    <3>1. \A x \in Node \ {n} : events'[x] = events[x]
      BY <1>1, <1>3, OwnEvents DEF SendtoOpens
    <3> QED BY <1>1, <1>2, <2>1, <2>2, <3>1 DEF Own
  <2>4. HasSession(n, m)' /\ \A h \in Node \ {m} : HasSession(n, h)' <=> HasSession(n, h)
    BY <1>1, <1>2, <2>1, <2>2, SenderStays DEF HasSession
  <2>5. Listed(n)'
    <3>1. sessions_list'[n] = Append(sessions_list[n], m)
      BY <1>1, <2>1
    <3> QED BY <1>1, <1>2, <2>4, <3>1, ListGrown
  <2>6. Outcome(n)'
    BY <1>2, <2>1 DEF Outcome
  <2> QED BY <2>3, <2>5, <2>6, OwnStep
<1>4. CASE SendtoReceiverOnly(n, m)
  <2>1. /\ \/ /\ \E seqno \in InitialSeqno : isn' = [isn EXCEPT ![n][m] = seqno]
              /\ mode' = [mode EXCEPT ![n] = "crashed"]
              /\ sessions_list' = [sessions_list EXCEPT ![n] = Append(@, m)]
           \/ /\ UNCHANGED <<mode, isn>>
              /\ sessions_list' = [sessions_list EXCEPT ![n] = Append(Append(@, m), m)]
        /\ UNCHANGED <<sender, receiver, events>>
        /\ HasSession(n, m) /\ sender[n][m] = NULL
    BY <1>4 DEF SendtoReceiverOnly, Enter
  <2>2. Own(n)
    BY <1>1, <1>2, <2>1 DEF Own
  <2>3. Listed(n)'
    <3>1. LET l == Append(sessions_list[n], m)
          IN sessions_list'[n] \in {l, Append(l, m)}
      BY <1>1, <2>1
    <3>2. \A h \in Node : HasSession(n, h)' <=> HasSession(n, h)
      BY <2>1 DEF HasSession
    <3> QED BY <1>1, <1>2, <2>1, <3>1, <3>2, ListGrown
  <2>4. Outcome(n)'
    <3>1. CASE UNCHANGED mode
      BY <1>2, <3>1 DEF Outcome
    <3>2. CASE /\ \E seqno \in InitialSeqno : isn' = [isn EXCEPT ![n][m] = seqno]
               /\ mode' = [mode EXCEPT ![n] = "crashed"]
      <4>1. PICK seqno \in InitialSeqno : isn' = [isn EXCEPT ![n][m] = seqno]
        BY <3>2
      <4>2. isn'[n][m] # NULL
        BY <1>1, <4>1, NodeAssumption, NullAssumption
      <4>3. receiver'[n][m] # NULL /\ sender'[n][m] = NULL
        BY <2>1 DEF HasSession
      <4>4. CrashCause(n)'
        BY <4>2, <4>3 DEF CrashCause
      <4>5. mode'[n] = "crashed"
        BY <1>1, <3>2
      <4> QED BY <4>4, <4>5 DEF Outcome
    <3> QED BY <2>1, <3>1, <3>2
  <2> QED BY <2>2, <2>3, <2>4, OwnStep
<1>5. CASE SendtoSession(n, m)
  <2>1. /\ \E v : sender' = [sender EXCEPT ![n][m] = v]
        /\ sender[n][m] # NULL
        /\ UNCHANGED <<mode, sessions_list, receiver, isn>>
    BY <1>5 DEF SendtoSession
  <2>2. /\ \A x \in Node \ {n} : sender'[x] = sender[x]
        /\ \A h \in Node \ {m} : sender'[n][h] = sender[n][h]
    BY <1>1, <2>1
  <2>3. sender'[n][m] # NULL
    BY <1>1, <1>2, <2>1, SenderNumbered, SenderStays
  <2>4. \A x \in Node \ {n} : events'[x] = events[x]
    <3>1. UNCHANGED events \/ \E v : events' = [events EXCEPT ![n][m] = v]
      BY <1>5 DEF SendtoSession
    <3> QED BY <1>1, <3>1, OwnEvents
  <2>5. Own(n) /\ SamePeers(n)
    BY <1>2, <2>1, <2>2, <2>3, <2>4 DEF Own, SamePeers, HasSession
  <2> QED BY <1>1, <1>2, <2>1, <2>5, PlainStep
<1> QED BY <1>3, <1>4, <1>5 DEF rudp_sendto

\* A step of n that changes one of its receiver sessions only.
LEMMA ReceiverSocket ==
    ASSUME TypeInv, NEW n \in Node, NEW m \in Node, NEW r, r # NULL,
           receiver' = [receiver EXCEPT ![n][m] = r],
           UNCHANGED <<close_requested, sender, isn>>
    PROVE  /\ \A x \in Node \ {n} : receiver'[x] = receiver[x]
           /\ receiver'[n][m] = r
           /\ HasSession(n, m)'
           /\ \A h \in Node \ {m} : receiver'[n][h] = receiver[n][h]
           /\ receiver[n][m] # NULL => SamePeers(n)
<1>1. receiver \in [Node -> [Node -> ReceiverSession \cup {NULL}]]
  BY DEF TypeInv, TypeOK
<1>2. /\ \A x \in Node \ {n} : receiver'[x] = receiver[x]
      /\ receiver'[n][m] = r
      /\ \A h \in Node \ {m} : receiver'[n][h] = receiver[n][h]
  BY <1>1
<1> QED BY <1>2 DEF HasSession, SamePeers

LEMMA SynStarts ==
    ASSUME TypeInv, NEW n \in Node, NEW m \in Node, NEW p \in net[n][m]
    PROVE  create_receiver_session(SeqNext(p.seqno)) # NULL
<1>1. p.seqno \in SeqNo
  BY DEF TypeInv, TypeOK, Packet
<1>2. create_receiver_session(SeqNext(p.seqno)) \in ReceiverSession
  BY <1>1, SeqArithmetic, SeqModAssumption, CreateReceiverType
<1> QED BY <1>2, NullAssumption

LEMMA ReceiveNoSessionSocket ==
    ASSUME AsWritten = {}, EngineInv, SocketInv, UNCHANGED close_requested,
           NEW n \in Node, NEW m \in Node, NEW p \in net[m][n],
           mode[n] = "up", ReceiveNoSession(n, m, p)
    PROVE  SocketInv'
<1> DEFINE r == create_receiver_session(SeqNext(p.seqno))
<1>1. TypeInv /\ Listed(n) /\ Outcome(n) /\ UNCHANGED <<mode, sender, isn, events>>
  BY DEF EngineInv, SocketInv, ReceiveNoSession, session, history
<1>2. sessions_list \in [Node -> Seq(Node)]
  BY <1>1 DEF TypeInv, TypeOK
<1>3. CASE UNCHANGED <<sessions_list, receiver>>
  BY <1>1, <1>3, PlainStep DEF Own, SamePeers, HasSession
<1>4. CASE /\ receiver' = [receiver EXCEPT ![n][m] = r]
           /\ sessions_list' = [sessions_list EXCEPT ![n] = Append(@, m)]
  <2>1. r # NULL
    BY <1>1, SynStarts
  <2> HIDE DEF r
  <2>2. /\ \A x \in Node \ {n} : receiver'[x] = receiver[x]
        /\ HasSession(n, m)'
        /\ \A h \in Node \ {m} : receiver'[n][h] = receiver[n][h]
    BY <1>1, <1>4, <2>1, ReceiverSocket
  <2>3. /\ sessions_list'[n] = Append(sessions_list[n], m)
        /\ \A x \in Node \ {n} : sessions_list'[x] = sessions_list[x]
    BY <1>2, <1>4
  <2>4. \A h \in Node \ {m} : HasSession(n, h)' <=> HasSession(n, h)
    BY <1>1, <2>2 DEF HasSession
  <2>5. Own(n)
    BY <1>1, <2>2, <2>3 DEF Own
  <2>6. Listed(n)'
    BY <1>1, <2>2, <2>3, <2>4, ListGrown
  <2>7. Outcome(n)'
    BY <1>1 DEF Outcome
  <2> QED BY <2>5, <2>6, <2>7, OwnStep
<1> QED BY <1>3, <1>4 DEF ReceiveNoSession, session

LEMMA ReceiveSynSocket ==
    ASSUME EngineInv, SocketInv, UNCHANGED close_requested,
           NEW n \in Node, NEW m \in Node, NEW p \in net[m][n],
           mode[n] = "up", ReceiveSyn(n, m, p)
    PROVE  SocketInv'
<1> DEFINE r == create_receiver_session(SeqNext(p.seqno))
<1>1. TypeInv /\ UNCHANGED <<mode, sender, sessions_list, isn, events>> /\ HasSession(n, m)
  BY DEF EngineInv, ReceiveSyn, history
<1>2. CASE UNCHANGED receiver
  BY <1>1, <1>2, PlainStep DEF Own, SamePeers, HasSession
<1>3. CASE receiver' = [receiver EXCEPT ![n][m] = r]
  <2>1. r # NULL
    BY <1>1, SynStarts
  <2> HIDE DEF r
  <2>2. /\ \A x \in Node \ {n} : receiver'[x] = receiver[x]
        /\ HasSession(n, m)'
        /\ \A h \in Node \ {m} : receiver'[n][h] = receiver[n][h]
    BY <1>1, <1>3, <2>1, ReceiverSocket
  <2>3. SamePeers(n)
    BY <1>1, <2>2 DEF HasSession, SamePeers
  <2>4. Own(n)
    BY <1>1, <2>2 DEF Own
  <2> QED BY <1>1, <2>3, <2>4, PlainStep
<1> QED BY <1>2, <1>3 DEF ReceiveSyn

LEMMA ReceiveDataSocket ==
    ASSUME EngineInv, SocketInv, UNCHANGED close_requested,
           NEW n \in Node, NEW m \in Node, NEW p \in net[m][n],
           mode[n] = "up", ReceiveData(n, m, p)
    PROVE  SocketInv'
<1> DEFINE r == [receiver[n][m] EXCEPT !.status = "OPEN", !.expected_seqno = SeqNext(p.seqno)]
<1>1. TypeInv /\ UNCHANGED <<mode, sender, sessions_list, isn, events>> /\ receiver[n][m] # NULL
  BY DEF EngineInv, ReceiveData
<1>2. CASE UNCHANGED receiver
  BY <1>1, <1>2, PlainStep DEF Own, SamePeers, HasSession
<1>3. CASE receiver' = [receiver EXCEPT ![n][m] = r]
  <2>1. r # NULL
    <3>1. receiver[n][m] \in ReceiverSession /\ p.seqno \in SeqNo
      BY <1>1 DEF TypeInv, TypeOK, Packet
    <3>2. SeqNext(p.seqno) \in SeqNo
      BY <3>1, SeqArithmetic, SeqModAssumption
    <3>3. r \in ReceiverSession
      BY <3>1, <3>2 DEF ReceiverSession
    <3> QED BY <3>3, NullAssumption
  <2> HIDE DEF r
  <2>2. /\ \A x \in Node \ {n} : receiver'[x] = receiver[x]
        /\ SamePeers(n)
    BY <1>1, <1>3, <2>1, ReceiverSocket
  <2>3. Own(n)
    BY <1>1, <2>2 DEF Own
  <2> QED BY <1>1, <2>2, <2>3, PlainStep
<1> QED BY <1>2, <1>3 DEF ReceiveData

\* Where the loop over the sessions stops once the FIN of m is taken.
LEMMA FinLoopOutcome ==
    ASSUME TypeInv, NEW n \in Node, NEW m \in Node, Listed(n), mode[n] = "up",
           UNCHANGED <<close_requested, sender>>, receiver[n][m] # NULL,
           FinTaken(n, m)', \A h \in Node \ {m} : receiver'[n][h] = receiver[n][h],
           FinLoop(n, m)
    PROVE  Outcome(n)'
<1>1. mode \in [Node -> Mode]
  BY DEF TypeInv, TypeOK
<1>2. PICK head \in Node : head = sessions_list[n][1] /\ HasSession(n, head)
  <2>1. PICK i \in DOMAIN sessions_list[n] : sessions_list[n][i] = m
    BY DEF Listed, HasSession
  <2>2. sessions_list[n] \in Seq(Node)
    BY DEF TypeInv, TypeOK
  <2>3. /\ DOMAIN sessions_list[n] = 1 .. Len(sessions_list[n])
        /\ Len(sessions_list[n]) \in Nat
    BY <2>2, LenProperties
  <2>4. 1 \in DOMAIN sessions_list[n]
    BY <2>1, <2>3
  <2> QED BY <2>2, <2>4, ElementOfSeq, <2>3 DEF Listed
<1>3. CASE ~ close_requested[n]
  <2>1. mode'[n] = "up"
    BY <1>3 DEF FinLoop
  <2> QED BY <2>1 DEF Outcome
<1>4. CASE close_requested[n] /\ receiver[n][head] = NULL
  <2>1. mode'[n] = "crashed"
    BY <1>1, <1>2, <1>4 DEF FinLoop, Enter
  <2>2. sender'[n][head] # NULL /\ receiver'[n][head] = NULL
    BY <1>2, <1>4 DEF HasSession
  <2>3. CrashCause(n)'
    BY <1>2, <1>4, <2>2 DEF CrashCause
  <2> QED BY <2>1, <2>3 DEF Outcome
<1>5. CASE close_requested[n] /\ receiver[n][head] # NULL
  <2>1. CASE head # m /\ ~ receiver[n][head].session_finished
    <3>1. mode'[n] = "hung"
      BY <1>1, <1>2, <1>5, <2>1 DEF FinLoop, Enter
    <3>2. receiver'[n][head] = receiver[n][head]
      BY <1>2, <2>1
    <3>3. receiver'[n][head] # NULL /\ ~ FinTaken(n, head)'
      BY <1>5, <2>1, <3>2, Zenon DEF FinTaken
    <3>4. close_requested'[n]
      BY <1>5
    <3>5. HangCause(n)'
      BY <1>2, <3>3, <3>4, Zenon DEF HangCause
    <3> QED BY <3>1, <3>5 DEF Outcome
  <2>2. CASE ~ (head # m /\ ~ receiver[n][head].session_finished)
    <3>1. mode'[n] = "undefined"
      BY <1>1, <1>2, <1>5, <2>2 DEF FinLoop, Enter
    <3>2. StaleCause(n)'
      BY <1>5 DEF StaleCause
    <3> QED BY <3>1, <3>2 DEF Outcome
  <2> QED BY <2>1, <2>2
<1> QED BY <1>3, <1>4, <1>5

LEMMA ReceiveFinSocket ==
    ASSUME EngineInv, SocketInv, UNCHANGED close_requested,
           NEW n \in Node, NEW m \in Node, NEW p \in net[m][n],
           mode[n] = "up", ReceiveFin(n, m, p)
    PROVE  SocketInv'
<1> DEFINE r == [receiver[n][m] EXCEPT !.session_finished = TRUE]
<1>1. /\ TypeInv /\ UNCHANGED <<sender, sessions_list, isn, events>> /\ receiver[n][m] # NULL
      /\ mode \in [Node -> Mode] /\ Listed(n)
  BY DEF EngineInv, ReceiveFin, history, TypeInv, TypeOK, SocketInv
<1>2. CASE UNCHANGED <<mode, receiver>>
  BY <1>1, <1>2, PlainStep DEF Own, SamePeers, HasSession
<1>3. CASE receiver' = [receiver EXCEPT ![n][m] = r] /\ FinLoop(n, m)
  <2>1. r # NULL /\ r.session_finished
    <3>1. receiver[n][m] \in ReceiverSession
      BY <1>1 DEF TypeInv, TypeOK
    <3>2. r \in ReceiverSession /\ r.session_finished
      BY <3>1 DEF ReceiverSession
    <3> QED BY <3>2, NullAssumption
  <2> HIDE DEF r
  <2>2. /\ \A x \in Node \ {n} : receiver'[x] = receiver[x]
        /\ SamePeers(n) /\ receiver'[n][m] = r
        /\ \A h \in Node \ {m} : receiver'[n][h] = receiver[n][h]
    BY <1>1, <1>3, <2>1, ReceiverSocket, ZenonT(30)
  <2>3. mode' = mode \/ \E what \in Mode : mode' = [mode EXCEPT ![n] = what]
    BY <1>3 DEF FinLoop, Enter, Mode
  <2>4. Own(n)
    BY <1>1, <2>2, <2>3 DEF Own
  <2>5. Listed(n)'
    BY <1>1, <2>2, ListKept
  <2>6. FinTaken(n, m)'
    BY <2>1, <2>2 DEF FinTaken
  <2>7. Outcome(n)'
    BY <1>1, <1>3, <2>2, <2>6, FinLoopOutcome
  <2> QED BY <2>4, <2>5, <2>7, OwnStep
<1> QED BY <1>2, <1>3 DEF ReceiveFin

LEMMA ReceiveMissingHalfSocket ==
    ASSUME TypeInv, HalfExists, NEW n \in Node, NEW m \in Node, NEW p \in net[m][n],
           mode[n] = "up", ReceiveMissingHalf(n, m, p)
    PROVE  FALSE
<1>1. p.type \in {"DATA", "ACK", "SYN", "FIN"}
  BY DEF TypeInv, TypeOK, Packet
<1> QED BY <1>1 DEF HalfExists, ReceiveMissingHalf

\* A step of n that changes one of its sender sessions only, and keeps it up.
LEMMA SenderSocket ==
    ASSUME EngineInv, EngineInv', SocketInv, NEW n \in Node, NEW m \in Node, NEW s,
           sender' = [sender EXCEPT ![n][m] = s], sender[n][m] # NULL, mode[n] = "up",
           UNCHANGED events \/ \E v : events' = [events EXCEPT ![n][m] = v],
           UNCHANGED <<mode, close_requested, sessions_list, receiver, isn>>
    PROVE  SocketInv'
<1>1. sender \in [Node -> [Node -> SenderSession \cup {NULL}]]
  BY DEF EngineInv, TypeInv, TypeOK
<1>2. /\ \A x \in Node \ {n} : sender'[x] = sender[x]
      /\ \A h \in Node \ {m} : sender'[n][h] = sender[n][h]
  BY <1>1
<1>3. sender'[n][m] # NULL
  BY SenderNumbered, SenderStays DEF EngineInv
<1>4. \A x \in Node \ {n} : events'[x] = events[x]
  BY OwnEvents DEF EngineInv
<1>5. Own(n) /\ SamePeers(n)
  BY <1>2, <1>3, <1>4 DEF Own, SamePeers, HasSession
<1> QED BY <1>5, PlainStep DEF EngineInv

LEMMA ReceiveAckSynSentSocket ==
    ASSUME EngineInv, EngineInv', SocketInv, UNCHANGED close_requested,
           NEW n \in Node, NEW m \in Node, NEW p \in net[m][n],
           mode[n] = "up", ReceiveAckSynSent(n, m, p)
    PROVE  SocketInv'
<1>1. /\ UNCHANGED <<mode, sessions_list, receiver, isn>> /\ sender[n][m] # NULL
      /\ \/ UNCHANGED <<sender, events>>
         \/ /\ \E s : sender' = [sender EXCEPT ![n][m] = s]
            /\ \E v : events' = [events EXCEPT ![n][m] = v]
  BY DEF ReceiveAckSynSent, ReceiveAck
<1>2. CASE UNCHANGED <<sender, events>>
  BY <1>1, <1>2, PlainStep DEF EngineInv, Own, SamePeers, HasSession
<1> QED BY <1>1, <1>2, SenderSocket

\* A session the walk cannot pass has a receiver only.
LEMMA NotAllVisited ==
    ASSUME TypeInv, NEW n \in Node, Listed(n), ~ AllVisited(n)
    PROVE  \E h \in Node : receiver[n][h] # NULL /\ sender[n][h] = NULL
<1>1. PICK i \in DOMAIN sessions_list[n] : sender[n][sessions_list[n][i]] = NULL
  BY DEF AllVisited
<1>2. sessions_list[n][i] \in Node
  BY DEF TypeInv, TypeOK
<1> QED BY <1>1, <1>2 DEF Listed, HasSession

LEMMA ReceiveAckOpenSocket ==
    ASSUME AsWritten = {}, EngineInv, EngineInv', SocketInv, UNCHANGED close_requested,
           NEW n \in Node, NEW m \in Node, NEW p \in net[m][n],
           mode[n] = "up", ReceiveAckOpen(n, m, p)
    PROVE  SocketInv'
<1>1. /\ UNCHANGED <<sessions_list, receiver, handed, isn, delivered>> /\ sender[n][m] # NULL
      /\ UNCHANGED <<mode, sender, events>> \/ SlideAndFill(n, m, p)
      /\ TypeInv /\ Listed(n) /\ mode \in [Node -> Mode]
  BY DEF ReceiveAckOpen, ReceiveAck, SocketInv, EngineInv, TypeInv, TypeOK
<1>2. CASE UNCHANGED <<mode, sender, events>>
  BY <1>1, <1>2, PlainStep DEF Own, SamePeers, HasSession
<1>3. CASE SlideAndFill(n, m, p)
  <2>1. /\ \E row : sender' = [sender EXCEPT ![n] = row]
        /\ \E row : events' = [events EXCEPT ![n] = row]
        /\ IF close_requested[n] /\ ~ AllVisited(n)
           THEN mode' = [mode EXCEPT ![n] = "crashed"] ELSE UNCHANGED mode
    BY <1>3 DEF SlideAndFill, Enter
  <2>2. \A x \in Node \ {n} : sender'[x] = sender[x] /\ mode'[x] = mode[x]
    BY <1>1, <2>1 DEF TypeInv, TypeOK
  <2>3. \A h \in Node : sender[n][h] = NULL <=> sender'[n][h] = NULL
    BY <1>1, <1>3, SlideAndFillType
  <2>4. \A x \in Node \ {n} : events'[x] = events[x]
    BY <1>1, <2>1, OwnEvents
  <2>5. Own(n) /\ SamePeers(n)
    BY <1>1, <2>2, <2>3, <2>4 DEF Own, SamePeers, HasSession
  <2>6. CASE close_requested[n] /\ ~ AllVisited(n)
    <3>1. CrashCause(n)'
      BY <1>1, <2>3, <2>6, NotAllVisited DEF CrashCause
    <3>2. mode'[n] = "crashed"
      BY <1>1, <2>1, <2>6
    <3>3. Outcome(n)'
      BY <3>1, <3>2 DEF Outcome
    <3> QED BY <1>1, <2>5, <3>3, ListKept, OwnStep
  <2>7. CASE ~ (close_requested[n] /\ ~ AllVisited(n))
    BY <1>1, <2>1, <2>5, <2>7, PlainStep
  <2> QED BY <2>6, <2>7
<1> QED BY <1>1, <1>2, <1>3

\* What becomes of a process whose session with m is finished.
LEMMA FinishOutcome ==
    ASSUME TypeInv, NEW n \in Node, NEW m \in Node, Listed(n), mode[n] = "up",
           UNCHANGED <<close_requested, receiver>>, SamePeers(n), SenderDone(n, m)',
           sender[n][m] # NULL, \A h \in Node \ {m} : sender'[n][h] = sender[n][h],
           IF ~ close_requested[n] THEN UNCHANGED mode
           ELSE IF ~ AllVisited(n) THEN Enter(n, "crashed")
           ELSE IF AllDone(n, m) /\ n \in Handler THEN Enter(n, "closed")
           ELSE Enter(n, "undefined")
    PROVE  Outcome(n)'
<1>1. mode \in [Node -> Mode]
  BY DEF TypeInv, TypeOK
<1>2. CASE ~ close_requested[n]
  BY <1>2 DEF Outcome
<1>3. CASE close_requested[n] /\ ~ AllVisited(n)
  <2>1. mode'[n] = "crashed"
    BY <1>1, <1>3 DEF Enter
  <2>2. PICK h \in Node : receiver[n][h] # NULL /\ sender[n][h] = NULL
    BY <1>3, NotAllVisited
  <2>3. receiver'[n][h] # NULL /\ sender'[n][h] = NULL
    BY <2>2
  <2>4. CrashCause(n)'
    BY <1>3, <2>3 DEF CrashCause
  <2> QED BY <2>1, <2>4 DEF Outcome
<1>4. CASE close_requested[n] /\ AllVisited(n) /\ AllDone(n, m) /\ n \in Handler
  <2>1. mode'[n] = "closed"
    BY <1>1, <1>4 DEF Enter
  <2>2. ASSUME NEW h \in Node, HasSession(n, h)' PROVE SenderDone(n, h)'
    <3>1. CASE h = m
      BY <3>1
    <3>2. CASE h # m
      <4>1. HasSession(n, h)
        BY <2>2 DEF SamePeers
      <4>2. sender[n][h] # NULL
        BY <1>4, <4>1 DEF Listed, AllVisited
      <4>3. sender[n][h].session_finished
        BY <1>4, <3>2, <4>2 DEF AllDone
      <4> QED BY <3>2, <4>2, <4>3 DEF SenderDone
    <3> QED BY <3>1, <3>2
  <2>3. CloseCause(n)'
    BY <1>4, <2>2 DEF CloseCause
  <2> QED BY <2>1, <2>3 DEF Outcome
<1>5. CASE close_requested[n] /\ AllVisited(n) /\ ~ (AllDone(n, m) /\ n \in Handler)
  <2>1. mode'[n] = "undefined"
    BY <1>1, <1>5 DEF Enter
  <2>2. ASSUME n \in Handler PROVE \E h \in Node : HasSession(n, h)' /\ ~ SenderDone(n, h)'
    <3>1. PICK h \in Node \ {m} : sender[n][h] # NULL /\ ~ sender[n][h].session_finished
      BY <1>5, <2>2 DEF AllDone
    <3> QED BY <3>1 DEF HasSession, SenderDone
  <2>3. StaleCause(n)'
    BY <1>5, <2>2 DEF StaleCause
  <2> QED BY <2>1, <2>3 DEF Outcome
<1> QED BY <1>2, <1>3, <1>4, <1>5

LEMMA ReceiveAckFinSentSocket ==
    ASSUME EngineInv, SocketInv, UNCHANGED close_requested,
           NEW n \in Node, NEW m \in Node, NEW p \in net[m][n],
           mode[n] = "up", ReceiveAckFinSent(n, m, p)
    PROVE  SocketInv'
<1> DEFINE t == [sender[n][m] EXCEPT !.session_finished = TRUE]
           Ends == IF ~ close_requested[n] THEN UNCHANGED mode
                   ELSE IF ~ AllVisited(n) THEN Enter(n, "crashed")
                   ELSE IF AllDone(n, m) /\ n \in Handler THEN Enter(n, "closed")
                   ELSE Enter(n, "undefined")
<1>1. /\ UNCHANGED <<sessions_list, receiver, isn>> /\ sender[n][m] # NULL
      /\ \/ UNCHANGED <<mode, sender, events>>
         \/ /\ sender' = [sender EXCEPT ![n][m] = t]
            /\ \E v : events' = [events EXCEPT ![n][m] = v]
            /\ Ends
  BY DEF ReceiveAckFinSent, ReceiveAck, history
<1>2. /\ TypeInv /\ Listed(n) /\ mode \in [Node -> Mode]
      /\ sender \in [Node -> [Node -> SenderSession \cup {NULL}]]
  BY DEF SocketInv, EngineInv, TypeInv, TypeOK
<1>3. CASE UNCHANGED <<mode, sender, events>>
  BY <1>1, <1>2, <1>3, PlainStep DEF Own, SamePeers, HasSession
<1>4. CASE /\ sender' = [sender EXCEPT ![n][m] = t]
           /\ \E v : events' = [events EXCEPT ![n][m] = v]
           /\ Ends
  <2>1. t # NULL /\ t.session_finished
    <3>1. t \in SenderSession /\ t.session_finished
      <4>1. sender[n][m] \in SenderSession
        BY <1>1, <1>2
      <4> QED BY ONLY <4>1 DEF SenderSession, t
    <3> QED BY <3>1, NullAssumption
  <2> HIDE DEF t
  <2>2. /\ \A x \in Node \ {n} : sender'[x] = sender[x]
        /\ \A h \in Node \ {m} : sender'[n][h] = sender[n][h]
        /\ sender'[n][m] = t
    BY <1>2, <1>4
  <2>3. SamePeers(n)
    BY <1>1, <2>1, <2>2 DEF SamePeers, HasSession
  <2>4. mode' = mode \/ \E what \in Mode : mode' = [mode EXCEPT ![n] = what]
    BY <1>4 DEF Enter, Mode
  <2>5. /\ \A x \in Node \ {n} : mode'[x] = mode[x]
        /\ \A x \in Node \ {n} : events'[x] = events[x]
    BY <1>2, <1>4, <2>4, OwnEvents
  <2>6. Own(n)
    BY <1>1, <2>2, <2>5 DEF Own
  <2>7. Listed(n)'
    BY <1>1, <1>2, <2>3, ListKept
  <2>8. SenderDone(n, m)'
    BY <2>1, <2>2 DEF SenderDone
  <2>9. Outcome(n)'
    BY <1>1, <1>2, <1>4, <2>2, <2>3, <2>8, FinishOutcome
  <2> QED BY <2>6, <2>7, <2>9, OwnStep
<1> QED BY <1>1, <1>3, <1>4

\* A timer never fires for a DATA packet that has left the window.
LEMMA TimerHasSlot ==
    ASSUME EngineInv, NEW n \in Node, NEW m \in Node, NEW p \in events[n][m], p.type = "DATA",
           mode[n] = "up"
    PROVE  sender[n][m] # NULL /\ SlotsOf(sender[n][m], p) # {}
<1>1. TimersMatch
  BY EngineTimers
<1>2. sender[n][m] # NULL /\ p \in Unacked(sender[n][m])
  BY <1>1 DEF TimersMatch
<1>3. PICK i \in Slot : sender[n][m].sliding_window[i] # NULL /\ p = sender[n][m].sliding_window[i]
  BY <1>2 DEF Unacked, Outstanding, create_rudp_packet
<1> QED BY <1>2, <1>3 DEF SlotsOf

LEMMA TimeoutSocket ==
    ASSUME EngineInv, EngineInv', SocketInv,
           NEW n \in Node, NEW m \in Node, timeout_callback(n, m)
    PROVE  SocketInv'
<1> DEFINE s == sender[n][m]
<1>1. /\ mode[n] = "up" /\ UNCHANGED <<close_requested, sessions_list, receiver, isn>>
      /\ \E p \in events[n][m] :
            \/ p.type = "DATA" /\ SlotsOf(s, p) = {}
            \/ /\ sender' = [sender EXCEPT ![n][m] = CountAttempt(s, p)] /\ UNCHANGED mode
               /\ \E v : events' = [events EXCEPT ![n][m] = v]
            \/ /\ UNCHANGED sender /\ ~ RetriesLeft(s, p)
               /\ events' = [events EXCEPT ![n][m] = @ \ {p}]
               /\ UNCHANGED mode \/ (n \in Handler /\ mode' = [mode EXCEPT ![n] = "exited"])
  BY DEF timeout_callback, Expires, history, Enter
<1>2. PICK p \in events[n][m] :
            \/ p.type = "DATA" /\ SlotsOf(s, p) = {}
            \/ /\ sender' = [sender EXCEPT ![n][m] = CountAttempt(s, p)] /\ UNCHANGED mode
               /\ \E v : events' = [events EXCEPT ![n][m] = v]
            \/ /\ UNCHANGED sender /\ ~ RetriesLeft(s, p)
               /\ events' = [events EXCEPT ![n][m] = @ \ {p}]
               /\ UNCHANGED mode \/ (n \in Handler /\ mode' = [mode EXCEPT ![n] = "exited"])
  BY <1>1
<1>3. /\ TypeInv /\ NoTimers /\ Listed(n) /\ mode \in [Node -> Mode] /\ StreamInv
      /\ events \in [Node -> [Node -> SUBSET Packet]]
  BY DEF EngineInv, TypeInv, TypeOK, SocketInv
<1>4. s # NULL /\ p \in Unacked(s)
  BY <1>1, <1>3, EngineTimers DEF NoTimers, TimersMatch
<1>5. CASE /\ sender' = [sender EXCEPT ![n][m] = CountAttempt(s, p)] /\ UNCHANGED mode
           /\ \E v : events' = [events EXCEPT ![n][m] = v]
  <2> DEFINE t == CountAttempt(s, p)
  <2>1. sender' = [sender EXCEPT ![n][m] = t]
    BY <1>5
  <2> HIDE DEF t
  <2> QED BY <1>1, <1>4, <1>5, <2>1, SenderSocket
<1>6. CASE /\ UNCHANGED sender /\ ~ RetriesLeft(s, p)
           /\ events' = [events EXCEPT ![n][m] = @ \ {p}]
           /\ UNCHANGED mode \/ (n \in Handler /\ mode' = [mode EXCEPT ![n] = "exited"])
  <2>1. /\ \A x \in Node \ {n} : events'[x] = events[x] /\ mode'[x] = mode[x]
        /\ p \notin events'[n][m]
        /\ mode'[n] = "up" \/ (n \in Handler /\ mode'[n] = "exited")
    BY <1>1, <1>3, <1>6
  <2>2. Own(n) /\ SamePeers(n)
    BY <1>1, <1>6, <2>1 DEF Own, SamePeers, HasSession
  <2>3. GivenUp(n, m)'
    BY <1>4, <1>6, <2>1 DEF GivenUp
  <2>4. Outcome(n)'
    BY <2>1, <2>3 DEF Outcome
  <2> QED BY <1>1, <1>3, <2>2, <2>4, ListKept, OwnStep
<1> QED BY <1>1, <1>2, <1>5, <1>6, TimerHasSlot

LEMMA SocketKept ==
    ASSUME SocketInv,
           UNCHANGED <<mode, close_requested, sessions_list, sender, receiver, events, isn>>
    PROVE  SocketInv'
<1> SUFFICES ASSUME NEW x \in Node PROVE Listed(x)' /\ Outcome(x)'
  BY DEF SocketInv
<1>1. Listed(x) /\ Outcome(x)
  BY DEF SocketInv
<1>2. Listed(x)'
  BY <1>1 DEF Listed, HasSession
<1>3. Outcome(x)'
  BY <1>1, SameOutcome
<1> QED BY <1>2, <1>3

LEMMA SocketNext ==
    ASSUME AsWritten = {}, EngineInv, EngineInv', HalfExists, SocketInv, [Next]_vars
    PROVE  SocketInv'
<1>0. TypeInv
  BY DEF EngineInv
<1>1. ASSUME NEW n \in Node, NEW m \in Node, receive_callback(n, m) PROVE SocketInv'
  <2>1. PICK p \in net[m][n] :
          \/ ReceiveNoSession(n, m, p)
          \/ ReceiveSyn(n, m, p)
          \/ ReceiveMissingHalf(n, m, p)
          \/ ReceiveAckSynSent(n, m, p)
          \/ ReceiveAckOpen(n, m, p)
          \/ ReceiveAckFinSent(n, m, p)
          \/ ReceiveData(n, m, p)
          \/ ReceiveFin(n, m, p)
    BY <1>1 DEF receive_callback
  <2>2. mode[n] = "up" /\ UNCHANGED close_requested
    BY <1>1 DEF receive_callback
  <2> QED BY <1>0, <2>1, <2>2, ReceiveNoSessionSocket, ReceiveSynSocket, ReceiveMissingHalfSocket,
             ReceiveAckSynSentSocket, ReceiveAckOpenSocket, ReceiveAckFinSentSocket,
             ReceiveDataSocket, ReceiveFinSocket
<1>2. ASSUME NEW n \in Node, NEW m \in Node, Lose(n, m) PROVE SocketInv'
  <2>1. UNCHANGED <<mode, close_requested, sessions_list, sender, receiver, events, isn>>
    BY <1>2 DEF Lose, session, history
  <2> QED BY <2>1, SocketKept
<1>3. ASSUME NEW n \in Node, rudp_close(n) PROVE SocketInv'
  <2>1. /\ mode[n] = "up" /\ UNCHANGED <<mode, sessions_list, sender, receiver, events, isn>>
        /\ close_requested' = [close_requested EXCEPT ![n] = TRUE]
        /\ close_requested \in [Node -> BOOLEAN] /\ TypeInv
    BY <1>3 DEF rudp_close, session, history, EngineInv, TypeInv, TypeOK
  <2>2. \A x \in Node \ {n} : close_requested'[x] = close_requested[x]
    BY <2>1
  <2>3. Own(n) /\ SamePeers(n)
    BY <2>1, <2>2 DEF Own, SamePeers, HasSession
  <2> QED BY <2>1, <2>3, PlainStep
<1>4. CASE UNCHANGED vars
  <2>1. UNCHANGED <<mode, close_requested, sessions_list, sender, receiver, events, isn>>
    BY <1>4 DEF vars, session, history
  <2> QED BY <2>1, SocketKept
<1> QED BY <1>1, <1>2, <1>3, <1>4, SendtoSocket, TimeoutSocket DEF Next

LEMMA SocketInit == Init => SocketInv
BY DEF Init, SocketInv, Listed, HasSession, Outcome

\* The list of sessions holds exactly the peers with a session, so that the
\* walks and the lookups of receive_callback agree, and what ended a process is
\* one of the known causes.
THEOREM SocketCorrect == ASSUME AsWritten = {} PROVE Spec => []SocketInv
<1>1. FaithfulNumbers /\ SynIsAcked
  BY DEF FaithfulNumbers, SynIsAcked
<1>2. EngineInv /\ EngineInv' /\ HalfExists /\ SocketInv /\ [Next]_vars => SocketInv'
  BY SocketNext
<1> QED BY <1>1, <1>2, EngineCorrect, HalfCorrect, SocketInit, PTL DEF Spec

\* Each way a process of the engine can end has the cause FailureHasCause
\* gives it, with any number of peers, sessions and walks over them: with the
\* five slips corrected, no exchange of datagrams and no timer does it alone.
THEOREM CauseCorrect == ASSUME AsWritten = {} PROVE Spec => []FailureHasCause
<1>1. SocketInv => FailureHasCause
  BY DEF SocketInv, Outcome, FailureHasCause
<1> QED BY <1>1, SocketCorrect, PTL

-----------------------------------------------------------------------------
(***************************************************************************)
(* A socket whose application neither sends nor closes.  That it is not    *)
(* taken down rests on HalfInv: it has no sender session, so that an ACK   *)
(* would be the end of it.                                                 *)
(***************************************************************************)
Idle(n) == ~ close_requested[n] /\ \A m \in Node : isn[n][m] = NULL

LEMMA IdleBefore ==
    ASSUME TypeInv, [Next]_vars, NEW n \in Node, Idle(n)'
    PROVE  Idle(n)
<1>1. isn \in [Node -> [Node -> SeqNo \cup {NULL}]] /\ close_requested \in [Node -> BOOLEAN]
  BY DEF TypeInv, TypeOK
<1>2. CASE UNCHANGED <<close_requested, isn>>
  BY <1>2 DEF Idle
<1>3. ASSUME NEW x \in Node, NEW m \in Node, rudp_sendto(x, m) PROVE Idle(n)
  <2>1. UNCHANGED close_requested
    BY <1>3 DEF rudp_sendto
  <2>2. CASE UNCHANGED isn
    BY <1>2, <2>1, <2>2
  <2>3. CASE \E seqno \in InitialSeqno : isn' = [isn EXCEPT ![x][m] = seqno]
    <3>1. PICK seqno \in InitialSeqno : isn' = [isn EXCEPT ![x][m] = seqno]
      BY <2>3
    <3>2. seqno # NULL
      BY NodeAssumption, NullAssumption
    <3>3. \A h \in Node : isn'[n][h] = NULL => isn[n][h] = NULL
      BY <1>1, <3>1, <3>2
    <3> QED BY <2>1, <3>3 DEF Idle
  <2> QED BY <1>3, <2>2, <2>3 DEF rudp_sendto, SendtoOpens, SendtoReceiverOnly, SendtoSession
<1>4. ASSUME NEW x \in Node, NEW m \in Node, receive_callback(x, m) PROVE Idle(n)
  BY <1>2, <1>4 DEF receive_callback, ReceiveNoSession, ReceiveSyn, ReceiveMissingHalf,
     ReceiveAckSynSent, ReceiveAckOpen, ReceiveAckFinSent, ReceiveData, ReceiveFin, history
<1>5. ASSUME NEW x \in Node, NEW m \in Node, timeout_callback(x, m) \/ Lose(x, m) PROVE Idle(n)
  BY <1>2, <1>5 DEF timeout_callback, Expires, Lose, history
<1>6. ASSUME NEW x \in Node, rudp_close(x) PROVE Idle(n)
  <2>1. close_requested' = [close_requested EXCEPT ![x] = TRUE] /\ UNCHANGED isn
    BY <1>6 DEF rudp_close, history
  <2> QED BY <1>1, <2>1 DEF Idle
<1>7. CASE UNCHANGED vars
  BY <1>2, <1>7 DEF vars, history
<1> QED BY <1>3, <1>4, <1>5, <1>6, <1>7 DEF Next

\* A datagram ends at most the process that reads it, and not one that is idle.
LEMMA IdleReceives ==
    ASSUME SynIsAcked, 551 \notin AsWritten, TypeInv, HalfInv,
           NEW n \in Node, Idle(n), mode[n] = "up",
           NEW x \in Node, NEW m \in Node, receive_callback(x, m)
    PROVE  mode'[n] = "up"
<1>1. mode \in [Node -> Mode]
  BY DEF TypeInv, TypeOK
<1>2. PICK p \in net[m][x] :
          \/ ReceiveNoSession(x, m, p)
          \/ ReceiveSyn(x, m, p)
          \/ ReceiveMissingHalf(x, m, p)
          \/ ReceiveAckSynSent(x, m, p)
          \/ ReceiveAckOpen(x, m, p)
          \/ ReceiveAckFinSent(x, m, p)
          \/ ReceiveData(x, m, p)
          \/ ReceiveFin(x, m, p)
  BY DEF receive_callback
<1>3. CASE x # n
  <2>1. UNCHANGED mode \/ \E what : mode' = [mode EXCEPT ![x] = what]
    <3>1. CASE ReceiveAckFinSent(x, m, p)
      <4>1. \/ UNCHANGED mode \/ Enter(x, "crashed") \/ Enter(x, "closed")
            \/ Enter(x, "undefined")
        BY <3>1, Zenon DEF ReceiveAckFinSent
      <4> QED BY <4>1 DEF Enter
    <3>2. CASE ReceiveFin(x, m, p)
      BY <3>2 DEF ReceiveFin, FinLoop, Enter
    <3>3. CASE ReceiveAckOpen(x, m, p)
      <4>1. UNCHANGED mode \/ Enter(x, "crashed") \/ Enter(x, "undefined")
        BY <3>3, Zenon DEF ReceiveAckOpen, SlideAndFill
      <4> QED BY <4>1 DEF Enter
    <3> QED BY <1>2, <3>1, <3>2, <3>3 DEF ReceiveNoSession, ReceiveSyn, ReceiveMissingHalf,
               ReceiveAckSynSent, ReceiveData, Enter
  <2> QED BY <1>1, <1>3, <2>1
<1>4. CASE x = n
  <2>1. sender[n][m] = NULL
    BY DEF Idle, HalfInv, Begun
  <2>2. ~ ReceiveMissingHalf(n, m, p)
    <3>1. HalfExists
      BY HalfShows
    <3> QED BY <1>2, <1>4, <3>1, ReceiveMissingHalfSocket
  <2>3. \/ ReceiveNoSession(n, m, p) \/ ReceiveSyn(n, m, p)
        \/ ReceiveData(n, m, p) \/ ReceiveFin(n, m, p)
    BY <1>2, <1>4, <2>1, <2>2
       DEF ReceiveAckSynSent, ReceiveAckOpen, ReceiveAckFinSent, ReceiveAck
  <2>4. UNCHANGED mode
    BY <2>3 DEF ReceiveNoSession, ReceiveSyn, ReceiveData, ReceiveFin, FinLoop, Idle
  <2> QED BY <2>4
<1> QED BY <1>3, <1>4

LEMMA IdleStep ==
    ASSUME SynIsAcked, 551 \notin AsWritten, TypeInv, HalfInv, ReceiverStaysUp, [Next]_vars
    PROVE  ReceiverStaysUp'
<1> SUFFICES ASSUME NEW n \in Node, Idle(n)' PROVE mode'[n] = "up"
  BY DEF ReceiverStaysUp, Idle
<1>1. Idle(n) /\ mode[n] = "up" /\ mode \in [Node -> Mode]
  BY IdleBefore DEF ReceiverStaysUp, Idle, TypeInv, TypeOK
<1>2. ASSUME NEW x \in Node, NEW m \in Node, rudp_sendto(x, m) PROVE mode'[n] = "up"
  <2>1. CASE UNCHANGED mode
    BY <1>1, <2>1
  <2>2. CASE /\ \E seqno \in InitialSeqno : isn' = [isn EXCEPT ![x][m] = seqno]
             /\ Enter(x, "crashed")
    <3>1. PICK seqno \in InitialSeqno : isn' = [isn EXCEPT ![x][m] = seqno]
      BY <2>2
    <3>2. isn'[x][m] # NULL
      <4>1. isn \in [Node -> [Node -> SeqNo \cup {NULL}]] /\ seqno # NULL
        BY NodeAssumption, NullAssumption DEF TypeInv, TypeOK
      <4> QED BY <3>1, <4>1
    <3>3. x # n
      BY <3>2 DEF Idle
    <3> QED BY <1>1, <2>2, <3>3 DEF Enter
  <2> QED BY <1>2, <2>1, <2>2 DEF rudp_sendto, SendtoOpens, SendtoReceiverOnly, SendtoSession
<1>3. ASSUME NEW x \in Node, NEW m \in Node, receive_callback(x, m) PROVE mode'[n] = "up"
  BY <1>1, <1>3, IdleReceives
<1>4. ASSUME NEW x \in Node, NEW m \in Node, timeout_callback(x, m) PROVE mode'[n] = "up"
  <2>1. x # n
    BY <1>1, <1>4 DEF timeout_callback, TypeInv, NoTimers, HalfInv, Begun, Idle
  <2>2. UNCHANGED mode \/ \E what : Enter(x, what)
    BY <1>4 DEF timeout_callback, Expires
  <2> QED BY <1>1, <2>1, <2>2 DEF Enter
<1>5. ASSUME NEW x \in Node, NEW m \in Node, Lose(x, m) PROVE mode'[n] = "up"
  BY <1>1, <1>5 DEF Lose
<1>6. ASSUME NEW x \in Node, rudp_close(x) PROVE mode'[n] = "up"
  BY <1>1, <1>6 DEF rudp_close
<1>7. CASE UNCHANGED vars
  BY <1>1, <1>7 DEF vars
<1> QED BY <1>2, <1>3, <1>4, <1>5, <1>6, <1>7 DEF Next

\* What line 551 denies (run newpeer): with it corrected, and if every SYN is
\* answered by an ACK, which lines 528 and 555 deny, a socket whose application
\* calls neither rudp_sendto nor rudp_close goes on serving whoever sends to it.
THEOREM StaysUpCorrect ==
    ASSUME SynIsAcked, 551 \notin AsWritten PROVE Spec => []ReceiverStaysUp
<1>1. TypeInv /\ HalfInv /\ ReceiverStaysUp /\ [Next]_vars
         => (TypeInv /\ HalfInv /\ ReceiverStaysUp)'
  BY HalfNext, TypeNext, IdleStep
<1>2. Init => TypeInv /\ HalfInv /\ ReceiverStaysUp
  BY HalfInit, TypeInit DEF Init, ReceiverStaysUp
<1> QED BY <1>1, <1>2, PTL DEF Spec

-----------------------------------------------------------------------------
(***************************************************************************)
(* The refinement of ReliableStream.                                       *)
(***************************************************************************)
\* A sequence as long as the set of numbers it contains has each of them once.
LEMMA Permutation ==
    ASSUME NEW all, NEW h \in Nat, all \in [1 .. h -> Nat],
           \A k \in 1 .. h : \E i \in 1 .. h : all[i] = k
    PROVE  /\ \A i, j \in 1 .. h : all[i] = all[j] => i = j
           /\ \A i \in 1 .. h : all[i] \in 1 .. h
<1> DEFINE place == [k \in 1 .. h |-> CHOOSE i \in 1 .. h : all[i] = k]
<1>1. \A k \in 1 .. h : place[k] \in 1 .. h /\ all[place[k]] = k
  OBVIOUS
<1>2. place \in Injection(1 .. h, 1 .. h)
  <2> HIDE DEF place
  <2>1. \A k, l \in 1 .. h : place[k] = place[l] => k = l
    BY <1>1
  <2>2. place \in [1 .. h -> 1 .. h]
    BY <1>1 DEF place
  <2> QED BY <2>1, <2>2 DEF Injection, IsInjective
<1> HIDE DEF place
<1>3. IsFiniteSet(1 .. h)
  BY FS_Interval
<1>4. place \in Surjection(1 .. h, 1 .. h)
  BY <1>2, <1>3, FS_Injection
<1>5. \A i \in 1 .. h : \E k \in 1 .. h : place[k] = i
  BY <1>4 DEF Surjection
<1>6. ASSUME NEW i \in 1 .. h PROVE all[i] \in 1 .. h /\ place[all[i]] = i
  <2>1. PICK k \in 1 .. h : place[k] = i
    BY <1>5
  <2>2. all[i] = k
    BY <1>1, <2>1
  <2> QED BY <2>1, <2>2
<1> QED BY <1>6

LEMMA StreamPermutation ==
    ASSUME NEW str \in Seq(Message), NEW q \in Seq(Message), NEW h \in Nat,
           Len(str) + Len(q) = h,
           \A k \in 1 .. h : \/ \E i \in 1 .. Len(str) : str[i] = k
                             \/ \E i \in 1 .. Len(q) : q[i] = k
    PROVE  Streams!IsInjective(str) /\ Streams!ToSet(str) \subseteq 1 .. h
<1> DEFINE all == str \o q
<1>1. /\ Len(str) \in Nat /\ Len(q) \in Nat /\ all \in Seq(Message) /\ Len(all) = h
      /\ \A i \in 1 .. Len(str) : all[i] = str[i]
      /\ \A i \in 1 .. Len(q) : all[Len(str) + i] = q[i]
      /\ DOMAIN str = 1 .. Len(str)
  BY LenProperties, ConcatProperties
<1> HIDE DEF all
<1>2. all \in [1 .. h -> Nat]
  <2>1. all \in [1 .. Len(all) -> Message] /\ Message \subseteq Nat
    BY <1>1, LenProperties, SessionAssumption DEF Message
  <2> QED BY <1>1, <2>1
<1>3. \A k \in 1 .. h : \E i \in 1 .. h : all[i] = k
  <2> SUFFICES ASSUME NEW k \in 1 .. h PROVE \E i \in 1 .. h : all[i] = k
    OBVIOUS
  <2>1. CASE \E i \in 1 .. Len(str) : str[i] = k
    <3>1. PICK i \in 1 .. Len(str) : str[i] = k
      BY <2>1
    <3>2. i \in 1 .. h /\ all[i] = k
      BY <1>1, <3>1
    <3> QED BY <3>2
  <2>2. CASE \E i \in 1 .. Len(q) : q[i] = k
    <3>1. PICK i \in 1 .. Len(q) : q[i] = k
      BY <2>2
    <3>2. Len(str) + i \in 1 .. h /\ all[Len(str) + i] = k
      BY <1>1, <3>1
    <3> QED BY <3>2
  <2> QED BY <2>1, <2>2
<1>4. /\ \A i, j \in 1 .. h : all[i] = all[j] => i = j
      /\ \A i \in 1 .. h : all[i] \in 1 .. h
  BY <1>2, <1>3, Permutation
<1>5. \A i \in DOMAIN str : i \in 1 .. h /\ all[i] = str[i]
  BY <1>1
<1> QED BY <1>4, <1>5 DEF Streams!IsInjective, Streams!ToSet

LEMMA PrefixFacts ==
    ASSUME NEW s \in Seq(Message), NEW t \in Seq(Message), Len(s) <= Len(t),
           \A k \in 1 .. Len(s) : t[k] = s[k]
    PROVE  Streams!IsPrefix(s, t)
<1> DEFINE c == Len(s)
<1>1. c \in Nat /\ Len(t) \in Nat
  BY LenProperties
<1>2. /\ SubSeq(s, 1, c) \in Seq(Message) /\ SubSeq(t, 1, c) \in Seq(Message)
      /\ Len(SubSeq(s, 1, c)) = c /\ Len(SubSeq(t, 1, c)) = c
      /\ \A k \in 1 .. c : SubSeq(s, 1, c)[k] = s[k] /\ SubSeq(t, 1, c)[k] = t[k]
  BY <1>1, SubSeqProperties
<1>3. SubSeq(s, 1, c) = SubSeq(t, 1, c)
  BY <1>2, SeqEqual
<1> QED BY <1>3 DEF Streams!IsPrefix

\* The state of ReliableStream that the invariants bring about.
StreamFacts(n, m) ==
    /\ Acked(n, m) \in 0 .. Len(stream[n][m])
    /\ m \in RecvHandler => Acked(n, m) <= Len(delivered[m][n])
    /\ Ended(n, m) => Acked(n, m) = Len(stream[n][m])
    /\ Streams!IsInjective(stream[n][m])
    /\ Streams!ToSet(stream[n][m]) \subseteq 1 .. handed[n][m]

AllStreams == \A n, m \in Node : StreamFacts(n, m)

LEMMA EngineStream ==
    ASSUME EngineInv, NEW n \in Node, NEW m \in Node
    PROVE  StreamFacts(n, m)
<1>1. CASE sender[n][m] = NULL
  <2>1. stream[n][m] = << >> /\ Len(stream[n][m]) = 0 /\ DOMAIN stream[n][m] = {}
    BY <1>1 DEF EngineInv, StreamInv, FlowInv, Unopened
  <2>2. Acked(n, m) = 0 /\ ~ Ended(n, m)
    BY <1>1 DEF Acked, Ended
  <2>3. Len(delivered[m][n]) \in Nat
    BY LenProperties DEF EngineInv, TypeInv, TypeOK
  <2> QED BY <2>1, <2>2, <2>3 DEF StreamFacts, Streams!IsInjective, Streams!ToSet
<1>2. CASE sender[n][m] # NULL
  <2> DEFINE str == stream[n][m]
             q == sender[n][m].data_queue
             h == handed[n][m]
  <2>1. PICK b \in 0 .. MaxSend, e \in 0 .. MaxSend :
           /\ TransferAt(n, m, b, e)
           /\ sender[n][m] \in SenderSession
           /\ str \in Seq(Message) /\ Len(str) \in Nat
           /\ Matches(sender[n][m], isn[n][m], str, b)
           /\ AllKept(sender[n][m], str, h)
           /\ Cardinality(Outstanding(sender[n][m])) = Len(str) - b
           /\ b \in Nat /\ e \in Nat /\ b <= e /\ b <= Len(str)
           /\ Len(str) + Len(q) = h
    BY <1>2, FlowFacts
  <2>2. Acked(n, m) = b
    BY <1>2, <2>1 DEF Acked
  <2>3. m \in RecvHandler => Len(delivered[m][n]) = e
    BY <2>1 DEF TransferAt, Taking
  <2>4. Ended(n, m) => b = Len(str)
    BY <1>2, <2>1 DEF Ended, Matches
  <2>5. q \in Seq(Message) /\ h \in Nat
    BY <2>1, SessionAssumption DEF SenderSession, EngineInv, TypeInv, TypeOK
  <2>6. \A k \in 1 .. h : \/ \E i \in 1 .. Len(str) : str[i] = k
                          \/ \E i \in 1 .. Len(q) : q[i] = k
    BY <2>1 DEF AllKept
  <2> HIDE DEF q, h
  <2>7. Streams!IsInjective(str) /\ Streams!ToSet(str) \subseteq 1 .. h
    BY <2>1, <2>5, <2>6, StreamPermutation
  <2> QED BY <2>1, <2>2, <2>3, <2>4, <2>7 DEF StreamFacts, h
<1> QED BY <1>1, <1>2

\* A step of the sender, or of another process, as the flow sees it.
Onward(n, m) ==
    /\ handed'[n][m] \in {handed[n][m], handed[n][m] + 1}
    /\ Streams!IsPrefix(stream[n][m], stream'[n][m])
    /\ Acked(n, m) <= Acked(n, m)'
    /\ Ended(n, m) => Ended(n, m)' /\ stream'[n][m] = stream[n][m]
    /\ ~ Ended(n, m) /\ Ended(n, m)' => Len(stream'[n][m]) = handed'[n][m]

LEMMA KeptOnward ==
    ASSUME EngineInv, NEW n \in Node, NEW m \in Node,
           sender'[n][m] = sender[n][m], stream'[n][m] = stream[n][m],
           handed'[n][m] \in {handed[n][m], handed[n][m] + 1}
    PROVE  Onward(n, m)
<1>1. stream[n][m] \in Seq(Message)
  BY DEF EngineInv, TypeInv, TypeOK
<1>2. Streams!IsPrefix(stream[n][m], stream'[n][m])
  BY <1>1, LenProperties, PrefixFacts
<1>3. Acked(n, m)' = Acked(n, m) /\ Ended(n, m)' = Ended(n, m)
  BY DEF Acked, Ended
<1>4. Acked(n, m) \in 0 .. Len(stream[n][m])
  BY EngineStream DEF StreamFacts
<1> QED BY <1>1, <1>2, <1>3, <1>4, LenProperties DEF Onward

LEMMA MovesOnward ==
    ASSUME EngineInv, EngineInv', NEW n \in Node, NEW m \in Node, Moves(n, m),
           handed'[n][m] \in {handed[n][m], handed[n][m] + 1},
           isn'[n][m] = isn[n][m]
    PROVE  Onward(n, m)
<1>1. sender[n][m] # NULL /\ sender'[n][m] # NULL
  BY DEF Moves
<1>2. PICK b \in 0 .. MaxSend, e \in 0 .. MaxSend :
         /\ TransferAt(n, m, b, e)
         /\ isn[n][m] \in SeqNo
         /\ stream[n][m] \in Seq(Message) /\ Len(stream[n][m]) \in Nat
         /\ Cardinality(Outstanding(sender[n][m])) = Len(stream[n][m]) - b
         /\ b \in Nat /\ e \in Nat
  BY <1>1, FlowFacts
<1>3. PICK b2 \in 0 .. MaxSend : SenderMoves(n, m, b, b2, e)
  BY <1>2 DEF Moves
<1>4. /\ Matches(sender'[n][m], isn[n][m], stream'[n][m], b2)
      /\ b2 \in Nat /\ b <= b2
      /\ Len(stream[n][m]) <= Len(stream'[n][m])
      /\ \A k \in 1 .. Len(stream[n][m]) : stream'[n][m][k] = stream[n][m][k]
      /\ sender[n][m].status = "FIN_SENT" =>
            sender'[n][m].status = "FIN_SENT" /\ stream'[n][m] = stream[n][m]
      /\ sender'[n][m].status = "FIN_SENT" /\ sender[n][m].status # "FIN_SENT" =>
            sender'[n][m].data_queue = << >>
  <2>1. b2 \in b .. e
    BY <1>3 DEF SenderMoves
  <2>2. b2 \in Nat /\ b <= b2
    BY <1>2, <2>1
  <2> QED BY <1>3, <2>2 DEF SenderMoves
<1>5. /\ TypeInv' /\ FlowInv(n, m)'
  BY DEF EngineInv, StreamInv
<1>6. /\ stream'[n][m] \in Seq(Message) /\ Len(stream'[n][m]) \in Nat
      /\ Len(stream'[n][m]) <= MaxSend
      /\ sender'[n][m] \in SenderSession
      /\ Len(stream'[n][m]) + Len(sender'[n][m].data_queue) = handed'[n][m]
  <2> DEFINE L == Len(stream'[n][m])
             q == Len(sender'[n][m].data_queue)
  <2>1. /\ stream'[n][m] \in Seq(Message) /\ sender'[n][m] \in SenderSession
        /\ handed'[n][m] \in 0 .. MaxSend
    BY <1>1, <1>5 DEF TypeInv, TypeOK
  <2>2. L + q = handed'[n][m]
    BY <1>1, <1>5 DEF FlowInv, Numbering
  <2>3. L \in Nat /\ q \in Nat
    BY <2>1, LenProperties DEF SenderSession
  <2>4. L <= MaxSend
    <3> HIDE DEF L, q
    <3> QED BY <2>1, <2>2, <2>3, SessionAssumption
  <2> QED BY <2>1, <2>2, <2>3, <2>4
<1>7. Cardinality(Outstanding(sender'[n][m])) = Len(stream'[n][m]) - b2
  BY <1>2, <1>4, <1>6, OutstandingFacts
<1>8. Acked(n, m) = b /\ Acked(n, m)' = b2
  BY <1>1, <1>2, <1>4, <1>6, <1>7 DEF Acked
<1>9. Streams!IsPrefix(stream[n][m], stream'[n][m])
  BY <1>2, <1>4, <1>6, PrefixFacts
<1>10. /\ Ended(n, m) <=> sender[n][m].status = "FIN_SENT"
       /\ Ended(n, m)' <=> sender'[n][m].status = "FIN_SENT"
  BY <1>1 DEF Ended
<1>11. ~ Ended(n, m) /\ Ended(n, m)' => Len(stream'[n][m]) = handed'[n][m]
  <2> SUFFICES ASSUME ~ Ended(n, m), Ended(n, m)' PROVE Len(stream'[n][m]) = handed'[n][m]
    OBVIOUS
  <2>1. Len(sender'[n][m].data_queue) = 0
    BY <1>4, <1>10
  <2> QED BY ONLY <1>6, <2>1
<1> QED BY <1>4, <1>8, <1>9, <1>10, <1>11 DEF Onward

\* The step that Forward describes takes all flows onward.
LEMMA ForwardOnward ==
    ASSUME EngineInv, EngineInv', Forward, UNCHANGED isn, NEW n \in Node, NEW m \in Node,
           handed'[n][m] \in {handed[n][m], handed[n][m] + 1}
    PROVE  Onward(n, m) /\ delivered'[m][n] = delivered[m][n]
<1>1. CASE FlowKept(n, m)
  BY <1>1, KeptOnward DEF Forward, FlowKept
<1>2. CASE Moves(n, m)
  BY <1>2, MovesOnward DEF Forward
<1> QED BY <1>1, <1>2 DEF Forward

\* What the receiver's application is given.
Delivery(n, m) ==
    /\ FlowKept(n, m)
    /\ \E x \in Message \cup {NoPayload} : delivered'[m][n] = Append(delivered[m][n], x)

Advance(n, m) == Onward(n, m) /\ (delivered'[m][n] = delivered[m][n] \/ Delivery(n, m))

LEMMA QuietAdvance ==
    ASSUME EngineInv, UNCHANGED <<sender, stream, handed>>, NEW n \in Node, NEW m \in Node,
           delivered'[m][n] = delivered[m][n] \/ Delivery(n, m)
    PROVE  Advance(n, m)
BY KeptOnward DEF Advance

LEMMA SendtoAdvance ==
    ASSUME EngineInv, EngineInv', AllStreams', NEW n \in Node, NEW m \in Node,
           rudp_sendto(n, m),
           NEW x \in Node, NEW y \in Node
    PROVE  Advance(x, y)
<1>1. /\ TypeInv /\ StreamInv /\ TransferInv /\ TypeInv' /\ StreamInv'
      /\ n # m /\ mode[n] = "up" /\ handed[n][m] < MaxSend /\ UNCHANGED delivered
  BY NodeAssumption DEF EngineInv, rudp_sendto
<1>2. handed'[x][y] \in {handed[x][y], handed[x][y] + 1}
  <2>1. handed' = [handed EXCEPT ![n][m] = @ + 1] \/ UNCHANGED handed
    BY DEF rudp_sendto, SendtoOpens, SendtoReceiverOnly, SendtoSession
  <2>2. handed \in [Node -> [Node -> 0 .. MaxSend]]
    BY <1>1 DEF TypeInv, TypeOK
  <2> QED BY <2>1, <2>2, SMTT(30)
<1>3. CASE SendtoOpens(n, m)
  <2>1. sender[n][m] = NULL /\ UNCHANGED stream
    BY <1>3 DEF SendtoOpens, HasSession
  <2>2. CASE <<x, y>> = <<n, m>>
    <3>1. Acked(n, m) = 0 /\ ~ Ended(n, m) /\ stream[n][m] \in Seq(Message)
      BY <1>1, <2>1 DEF Acked, Ended, TypeInv, TypeOK
    <3>2. Acked(n, m)' \in 0 .. Len(stream'[n][m])
      BY DEF AllStreams, StreamFacts
    <3>3. Acked(n, m)' \in Nat
      BY <2>1, <3>1, <3>2, LenProperties
    <3>4. Streams!IsPrefix(stream[n][m], stream'[n][m])
      BY <2>1, <3>1, LenProperties, PrefixFacts
    <3>5. Ended(n, m)' => Len(stream'[n][m]) = handed'[n][m]
      <4>1. sender'[n][m].status = "SYN_SENT"
        BY <1>1, <1>3 DEF SendtoOpens, create_sender_session, Untimed, TypeInv, TypeOK
      <4> QED BY <4>1 DEF Ended
    <3> QED BY <1>1, <1>2, <2>1, <2>2, <3>1, <3>3, <3>4, <3>5 DEF Onward, Advance
  <2>3. CASE <<x, y>> # <<n, m>>
    <3>1. sender'[x][y] = sender[x][y]
      BY <1>1, <1>3, <2>3 DEF SendtoOpens, TypeInv, TypeOK
    <3> QED BY <1>1, <1>2, <2>1, <3>1, KeptOnward DEF Advance
  <2> QED BY <2>2, <2>3
<1>4. CASE SendtoReceiverOnly(n, m)
  BY <1>1, <1>2, <1>4, KeptOnward DEF SendtoReceiverOnly, Advance
<1>5. CASE SendtoSession(n, m)
  <2>1. Forward
    BY <1>1, <1>5, SendtoSessionTransfer
  <2> QED BY <1>2, <1>5, <2>1, ForwardOnward DEF SendtoSession, Advance
<1> QED BY <1>3, <1>4, <1>5 DEF rudp_sendto

LEMMA DataAdvance ==
    ASSUME EngineInv, NEW n \in Node, NEW m \in Node, NEW p \in net[m][n],
           ReceiveData(n, m, p), NEW x \in Node, NEW y \in Node
    PROVE  Advance(x, y)
<1>1. UNCHANGED <<sender, stream, handed>>
  BY DEF ReceiveData
<1>2. delivered' = [delivered EXCEPT ![n][m] = Append(@, p.payload)] \/ UNCHANGED delivered
  BY DEF ReceiveData
<1>3. /\ p.payload \in Message \cup {NoPayload}
      /\ delivered \in [Node -> [Node -> Seq(Message \cup {NoPayload})]]
  <2>1. /\ net \in [Node -> [Node -> SUBSET Packet]]
        /\ delivered \in [Node -> [Node -> Seq(Message \cup {NoPayload})]]
    BY DEF EngineInv, TypeInv, TypeOK
  <2>2. p \in Packet
    BY <2>1
  <2> QED BY <2>1, <2>2 DEF Packet
<1>4. delivered'[y][x] = delivered[y][x] \/ delivered'[y][x] = Append(delivered[y][x], p.payload)
  <2> DEFINE v == p.payload
             D == Seq(Message \cup {NoPayload})
             Added(q) == Append(q, v)
  <2>2. \A q : Append(q, v) = Added(q)
    OBVIOUS
  <2> HIDE DEF v, D, Added
  <2>1. CASE delivered' = [delivered EXCEPT ![n][m] = Added(@)]
    <3> delivered \in [Node -> [Node -> D]]
      BY <1>3 DEF D
    <3>1. ASSUME y = n, x = m PROVE delivered'[y][x] = Added(delivered[y][x])
      BY <2>1, <3>1
    <3>2. ASSUME ~ (y = n /\ x = m) PROVE delivered'[y][x] = delivered[y][x]
      BY <2>1, <3>2
    <3> QED BY <2>2, <3>1, <3>2 DEF v
  <2> QED BY <1>2, <2>1 DEF v, Added
<1> QED BY <1>1, <1>3, <1>4, QuietAdvance DEF Delivery, FlowKept

LEMMA NextAdvance ==
    ASSUME FaithfulNumbers, EngineInv, EngineInv', AllStreams', [Next]_vars,
           NEW x \in Node, NEW y \in Node
    PROVE  Advance(x, y)
<1>1. ASSUME NEW n \in Node, NEW m \in Node, receive_callback(n, m) PROVE Advance(x, y)
  <2>1. PICK p \in net[m][n] :
          \/ ReceiveNoSession(n, m, p)
          \/ ReceiveSyn(n, m, p)
          \/ ReceiveMissingHalf(n, m, p)
          \/ ReceiveAckSynSent(n, m, p)
          \/ ReceiveAckOpen(n, m, p)
          \/ ReceiveAckFinSent(n, m, p)
          \/ ReceiveData(n, m, p)
          \/ ReceiveFin(n, m, p)
    BY <1>1 DEF receive_callback
  <2>2. CASE \/ ReceiveNoSession(n, m, p) \/ ReceiveSyn(n, m, p)
             \/ ReceiveMissingHalf(n, m, p) \/ ReceiveFin(n, m, p)
    <3>1. UNCHANGED <<sender, history>>
      BY <2>2 DEF ReceiveNoSession, ReceiveSyn, ReceiveMissingHalf, ReceiveFin, session
    <3> QED BY <3>1, QuietAdvance DEF history
  <2>3. CASE \/ ReceiveAckSynSent(n, m, p) \/ ReceiveAckOpen(n, m, p)
             \/ ReceiveAckFinSent(n, m, p)
    <3>1. Forward
      BY <2>3, ReceiveAckSynSentTransfer, ReceiveAckOpenTransfer, ReceiveAckFinSentTransfer
         DEF EngineInv
    <3>2. UNCHANGED <<isn, handed>>
      BY <2>3 DEF ReceiveAckSynSent, ReceiveAckOpen, ReceiveAckFinSent, history
    <3> QED BY <3>1, <3>2, ForwardOnward DEF Advance
  <2>4. CASE ReceiveData(n, m, p)
    BY <2>4, DataAdvance
  <2> QED BY <2>1, <2>2, <2>3, <2>4
<1>2. ASSUME NEW n \in Node, NEW m \in Node, timeout_callback(n, m) PROVE Advance(x, y)
  <2>1. Forward
    BY <1>2, TimeoutTransfer DEF EngineInv
  <2> QED BY <1>2, <2>1, ForwardOnward DEF timeout_callback, Expires, history, Advance
<1>3. CASE UNCHANGED <<session, history>>
  BY <1>3, QuietAdvance DEF session, history
<1> QED BY <1>1, <1>2, <1>3, SendtoAdvance DEF Next, Lose, rudp_close, vars

LEMMA SendStep ==
    ASSUME EngineInv, NEW n \in Node, NEW m \in RecvHandler, StreamFacts(n, m),
           StreamFacts(n, m)', Onward(n, m), delivered'[m][n] = delivered[m][n]
    PROVE  Streams!Send(<<n, m>>)
<1> DEFINE f == <<n, m>>
<1>1. f \in ToReader /\ m \in Node
  BY NodeAssumption DEF ToReader
<1>2. /\ stream[n][m] \in Seq(Message) /\ Len(stream[n][m]) \in Nat
      /\ Len(delivered[m][n]) \in Nat
  BY <1>1, LenProperties DEF EngineInv, TypeInv, TypeOK
<1>3. /\ Acked(n, m)' \in Acked(n, m) .. Len(delivered[m][n])
      /\ Acked(n, m) \in Nat /\ Acked(n, m)' \in Nat
  <2>1. Acked(n, m) \in 0 .. Len(stream[n][m]) /\ Acked(n, m)' \in 0 .. Len(stream'[n][m])
    BY DEF StreamFacts
  <2>2. Acked(n, m)' <= Len(delivered[m][n]) /\ Acked(n, m) <= Acked(n, m)'
    BY DEF StreamFacts, Onward
  <2>3. Acked(n, m) \in Nat /\ Acked(n, m)' \in Int
    BY <2>1
  <2> QED BY <1>2, <2>2, <2>3
<1>4. Ended(n, m) => Ended(n, m)' /\ stream'[n][m] = stream[n][m] /\ Acked(n, m)' = Acked(n, m)
  BY DEF StreamFacts, Onward
<1>5. ~ Ended(n, m) /\ Ended(n, m)' =>
         Len(stream'[n][m]) = handed'[n][m] /\ Acked(n, m)' = handed'[n][m]
  BY DEF StreamFacts, Onward
<1>6. /\ Streams!IsPrefix(stream[n][m], stream'[n][m])
      /\ Streams!IsInjective(stream'[n][m])
      /\ Streams!ToSet(stream'[n][m]) \subseteq 1 .. handed'[n][m]
      /\ handed'[n][m] \in {handed[n][m], handed[n][m] + 1}
  BY DEF StreamFacts, Onward
<1> QED BY <1>1, <1>3, <1>4, <1>5, <1>6 DEF Streams!Send, Streams!Extend, Streams!MayEnd

LEMMA DeliverStep ==
    ASSUME EngineInv, EngineInv', NEW n \in Node, NEW m \in RecvHandler, Delivery(n, m)
    PROVE  Streams!Deliver(<<n, m>>)
<1> DEFINE f == <<n, m>>
           d == delivered[m][n]
           d2 == delivered'[m][n]
           str == stream[n][m]
<1>1. f \in ToReader /\ m \in Node
  BY NodeAssumption DEF ToReader
<1>2. d \in Seq(Message \cup {NoPayload}) /\ Len(str) \in Nat
  <2>1. d \in Seq(Message \cup {NoPayload}) /\ str \in Seq(Message)
    <3>1. /\ delivered \in [Node -> [Node -> Seq(Message \cup {NoPayload})]]
          /\ stream \in [Node -> [Node -> Seq(Message)]]
      BY DEF EngineInv, TypeInv, TypeOK
    <3> QED BY <1>1, <3>1
  <2> QED BY <2>1, LenProperties
<1>3. PICK x \in Message \cup {NoPayload} : d2 = Append(d, x)
  BY DEF Delivery
<1>4. Len(d2) = Len(d) + 1 /\ d2[Len(d) + 1] = x /\ Len(d) \in Nat
  BY <1>2, <1>3, LenProperties, AppendProperties
<1>5. Len(d2) <= Len(stream'[n][m]) /\ \A i \in 1 .. Len(d2) : d2[i] = stream'[n][m][i]
  BY <1>1 DEF EngineInv, StreamInv, FlowInv, Delivered
<1>6. sender'[n][m] = sender[n][m] /\ stream'[n][m] = str /\ handed'[n][m] = handed[n][m]
  BY DEF Delivery, FlowKept
<1> HIDE DEF d, d2, str
<1>7. Len(d) < Len(str) /\ x = str[Len(d) + 1]
  BY <1>2, <1>4, <1>5, <1>6
<1>8. Acked(n, m)' = Acked(n, m) /\ Ended(n, m)' = Ended(n, m)
  BY <1>6 DEF Acked, Ended, str
<1> QED BY <1>1, <1>3, <1>6, <1>7, <1>8 DEF Streams!Deliver, d, d2, str

LEMMA StreamStart == Init => Streams!Init
<1> SUFFICES ASSUME Init PROVE Streams!Init
  OBVIOUS
<1>1. ASSUME NEW f \in ToReader
      PROVE  /\ handed[f[1]][f[2]] = 0 /\ stream[f[1]][f[2]] = << >>
             /\ delivered[f[2]][f[1]] = << >> /\ Acked(f[1], f[2]) = 0
             /\ Ended(f[1], f[2]) = FALSE
  <2>1. f[1] \in Node /\ f[2] \in Node
    BY NodeAssumption DEF ToReader
  <2> QED BY <2>1 DEF Init, Acked, Ended
<1> QED BY <1>1 DEF Streams!Init

LEMMA StreamStep ==
    FaithfulNumbers /\ EngineInv /\ EngineInv' /\ AllStreams /\ AllStreams' /\ [Next]_vars
        => Streams!Next
<1> SUFFICES ASSUME FaithfulNumbers, EngineInv, EngineInv', AllStreams, AllStreams', [Next]_vars,
                    NEW f \in ToReader
             PROVE  Streams!Deliver(f) \/ Streams!Send(f) \/ Streams!Rest(f)
  BY DEF Streams!Next
<1>1. PICK n \in Node, m \in RecvHandler : f = <<n, m>>
  BY DEF ToReader
<1>2. m \in Node
  BY NodeAssumption
<1>3. Onward(n, m) /\ (delivered'[m][n] = delivered[m][n] \/ Delivery(n, m))
  BY <1>2, NextAdvance DEF Advance
<1>4. StreamFacts(n, m) /\ StreamFacts(n, m)'
  BY <1>2 DEF AllStreams
<1> QED BY <1>1, <1>3, <1>4, SendStep, DeliverStep

(***************************************************************************)
(* The engine implements a reliable stream for every flow into a socket    *)
(* with a receive handler: whatever UDP and sendto lose, whatever a        *)
(* handler does to several sessions at once, each of its steps numbers     *)
(* what was accepted, delivers the next message, acknowledges what was     *)
(* delivered or ends what is complete.                                     *)
(***************************************************************************)
THEOREM StreamImplemented == ASSUME FaithfulNumbers PROVE Spec => ImplementsStream
<1>1. EngineInv => AllStreams
  BY EngineStream DEF AllStreams
<1>2. EngineInv /\ EngineInv' /\ AllStreams /\ AllStreams' /\ [Next]_vars
         => [Streams!Next]_(Streams!vars)
  BY StreamStep
<1> QED BY <1>1, <1>2, StreamStart, EngineCorrect, PTL DEF Spec, ImplementsStream, Streams!Spec

-----------------------------------------------------------------------------
(***************************************************************************)
(* KeepsTrying.  Every packet that the session s keeps has a timer in ev,  *)
(* or an attempt counter that has reached its limit.                       *)
(***************************************************************************)
Retried(s, ev) ==
    /\ \A i \in Slot : s.sliding_window[i] # NULL =>
          \/ s.sliding_window[i] \in ev
          \/ ~ (s.retransmission_attempts[i] < RUDP_MAXRETRANS)
    /\ s.status = "SYN_SENT" =>
          \/ create_rudp_packet("SYN", s.seqno, NoPayload) \in ev
          \/ ~ (s.syn_retransmit_attempts < RUDP_MAXRETRANS)
    /\ s.status = "FIN_SENT" /\ ~ s.session_finished =>
          \/ create_rudp_packet("FIN", s.seqno, NoPayload) \in ev
          \/ ~ (s.fin_retransmit_attempts < RUDP_MAXRETRANS)

Retrying == \A n, m \in Node : sender[n][m] # NULL => Retried(sender[n][m], events[n][m])

LEMMA UntimedRetried ==
    ASSUME NEW s \in SenderSession, NEW unsent, NEW ev, Retried(s, ev)
    PROVE  Retried(Untimed(s, unsent), ev)
<1> DEFINE t == Untimed(s, unsent)
           Kept(arg) == IF arg \in unsent THEN NULL ELSE arg
           args == [i \in Slot |-> Kept(s.data_timeout_arg[i])]
<1>1. t = [s EXCEPT !.syn_timeout_arg = Kept(s.syn_timeout_arg),
                    !.fin_timeout_arg = Kept(s.fin_timeout_arg),
                    !.data_timeout_arg = args]
  BY DEF Untimed
<1> HIDE DEF t, Kept, args
<1>2. /\ t.status = s.status /\ t.seqno = s.seqno
      /\ t.session_finished = s.session_finished
      /\ t.sliding_window = s.sliding_window
      /\ t.retransmission_attempts = s.retransmission_attempts
      /\ t.syn_retransmit_attempts = s.syn_retransmit_attempts
      /\ t.fin_retransmit_attempts = s.fin_retransmit_attempts
  BY <1>1 DEF SenderSession
<1>3. Retried(t, ev)
  BY <1>2 DEF Retried
<1> QED BY <1>3 DEF t

LEMMA DirectRetried ==
    ASSUME NEW s \in SenderSession, NEW i \in Slot, NEW item, NEW ev,
           s.status = "OPEN", Retried(s, ev)
    PROVE  Retried(SendDirect(s, i, item), ev \cup {SendDirect(s, i, item).sliding_window[i]})
<1> DEFINE p == create_rudp_packet("DATA", SeqNext(s.seqno), item)
           window == [s.sliding_window EXCEPT ![i] = p]
           attempts == [s.retransmission_attempts EXCEPT ![i] = 0]
           args == [s.data_timeout_arg EXCEPT ![i] = p]
           t == SendDirect(s, i, item)
<1>1. t = [s EXCEPT !.seqno = SeqNext(s.seqno), !.sliding_window = window,
                    !.retransmission_attempts = attempts, !.data_timeout_arg = args]
  BY DEF SendDirect, PutPacket, SenderSession
<1>2. \A j \in Slot : j # i =>
         window[j] = s.sliding_window[j] /\ attempts[j] = s.retransmission_attempts[j]
  BY DEF SenderSession
<1> HIDE DEF t, window, attempts, args
<1>3. t.status = "OPEN" /\ t.sliding_window = window /\ t.retransmission_attempts = attempts
  BY <1>1 DEF SenderSession
<1>4. Retried(t, ev \cup {t.sliding_window[i]})
  BY <1>2, <1>3 DEF Retried
<1> QED BY <1>4 DEF t

LEMMA EnqueueRetried ==
    ASSUME NEW s \in SenderSession, NEW item, NEW ev, Retried(s, ev)
    PROVE  Retried(Enqueue(s, item), ev)
BY DEF Retried, Enqueue, SenderSession

\* What FlushQueue does to the window and the counters.
LEMMA FlushCounters ==
    ASSUME NEW s \in SenderSession
    PROVE  LET t == FlushQueue(s)
           IN /\ t.status = s.status
              /\ \A i \in Slot :
                    IF i \in Filled(s) THEN t.sliding_window[i] \in NewPackets(s)
                    ELSE /\ t.sliding_window[i] = s.sliding_window[i]
                         /\ t.retransmission_attempts[i] = s.retransmission_attempts[i]
<1> DEFINE t == FlushQueue(s)
           attempts == [i \in Slot |-> IF i \in Filled(s) THEN 0
                                       ELSE s.retransmission_attempts[i]]
<1>1. /\ t.status = s.status
      /\ \A i \in Slot : t.sliding_window[i] =
            IF i \in Filled(s) THEN NewPacket(s, i) ELSE s.sliding_window[i]
  BY FlushQueueType
<1>2. t.retransmission_attempts = attempts
  BY DEF FlushQueue, SenderSession
<1>3. \A i \in Slot : i \notin Filled(s) => attempts[i] = s.retransmission_attempts[i]
  OBVIOUS
<1> HIDE DEF t, attempts
<1>4. \A i \in Filled(s) : NewPacket(s, i) \in NewPackets(s)
  BY DEF NewPackets
<1> QED BY <1>1, <1>2, <1>3, <1>4 DEF t

LEMMA FlushRetried ==
    ASSUME NEW s \in SenderSession, NEW ev, s.status = "OPEN", Retried(s, ev)
    PROVE  Retried(FlushQueue(s), ev \cup NewPackets(s))
BY FlushCounters DEF Retried

LEMMA OpenRetried ==
    ASSUME NEW s \in SenderSession, NEW ev, \A i \in Slot : s.sliding_window[i] = NULL
    PROVE  Retried(OpenSession(s), ev \cup NewPackets(s))
<1>1. /\ OpenSession(s).status = "OPEN"
      /\ \A i \in Slot : OpenSession(s).sliding_window[i] =
            IF i \in Filled(s) THEN NewPacket(s, i) ELSE s.sliding_window[i]
  BY OpenSessionType
<1>2. \A i \in Filled(s) : NewPacket(s, i) \in NewPackets(s)
  BY DEF NewPackets
<1> QED BY <1>1, <1>2 DEF Retried

LEMMA ShiftRetried ==
    ASSUME NEW s \in SenderSession, NEW ev, NEW d, s.status = "OPEN", Retried(s, ev),
           \A i \in Slot : i # 0 /\ s.sliding_window[i] # NULL => s.sliding_window[i] # d
    PROVE  Retried(ShiftWindow(s), ev \ {d}) /\ ShiftWindow(s).status = "OPEN"
<1> DEFINE t == ShiftWindow(s)
           attempts == [i \in Slot |-> IF i = RUDP_WINDOW - 1 THEN 0
                                       ELSE s.retransmission_attempts[i + 1]]
<1>1. /\ t.status = "OPEN"
      /\ \A i \in Slot : t.sliding_window[i] # NULL =>
            i + 1 \in Slot /\ t.sliding_window[i] = s.sliding_window[i + 1]
  BY ShiftWindowType
<1>2. t.retransmission_attempts = attempts
  BY DEF ShiftWindow, SenderSession
<1>3. \A i \in Slot : i + 1 \in Slot =>
         i + 1 # 0 /\ attempts[i] = s.retransmission_attempts[i + 1]
  BY SessionAssumption DEF Slot
<1> HIDE DEF t, attempts
<1>4. Retried(t, ev \ {d})
  BY <1>1, <1>2, <1>3 DEF Retried
<1> QED BY <1>1, <1>4 DEF t

LEMMA FinRetried ==
    ASSUME NEW s \in SenderSession, NEW ev, \A i \in Slot : s.sliding_window[i] = NULL
    PROVE  Retried(SendFin(s), ev \cup {FinPacket(s)})
BY SendFinType DEF Retried, FinPacket

LEMMA FinishedRetried ==
    ASSUME NEW s \in SenderSession, NEW ev, s.status = "FIN_SENT",
           \A i \in Slot : s.sliding_window[i] = NULL
    PROVE  Retried([s EXCEPT !.session_finished = TRUE], ev)
BY DEF Retried, SenderSession

\* A retransmission only raises a counter.
LEMMA CountRetried ==
    ASSUME NEW s \in SenderSession, NEW p \in Packet, NEW ev, RetriesLeft(s, p), Retried(s, ev),
           p.type \in {"SYN", "FIN"} \/ SlotsOf(s, p) # {}
    PROVE  Retried(CountAttempt(s, p), ev)
<1> DEFINE t == CountAttempt(s, p)
<1>1. CASE p.type = "SYN"
  <2>1. /\ t.status = s.status /\ t.seqno = s.seqno
        /\ t.session_finished = s.session_finished
        /\ t.sliding_window = s.sliding_window
        /\ t.retransmission_attempts = s.retransmission_attempts
        /\ t.syn_retransmit_attempts = s.syn_retransmit_attempts + 1
        /\ t.fin_retransmit_attempts = s.fin_retransmit_attempts
        /\ s.syn_retransmit_attempts \in Int
    BY <1>1, SessionAssumption, SMTT(30) DEF CountAttempt, SenderSession
  <2> HIDE DEF t
  <2>2. ~ (s.syn_retransmit_attempts < RUDP_MAXRETRANS) =>
           ~ (t.syn_retransmit_attempts < RUDP_MAXRETRANS)
    BY <2>1, SessionAssumption
  <2>3. Retried(t, ev)
    BY <2>1, <2>2 DEF Retried
  <2> QED BY <2>3 DEF t
<1>2. CASE p.type = "FIN"
  <2>0. t = [s EXCEPT !.fin_retransmit_attempts = @ + 1]
    BY <1>2 DEF CountAttempt
  <2> HIDE DEF t
  <2>1. /\ t.status = s.status /\ t.seqno = s.seqno
        /\ t.session_finished = s.session_finished
        /\ t.sliding_window = s.sliding_window
        /\ t.retransmission_attempts = s.retransmission_attempts
        /\ t.syn_retransmit_attempts = s.syn_retransmit_attempts
        /\ t.fin_retransmit_attempts = s.fin_retransmit_attempts + 1
        /\ s.fin_retransmit_attempts \in Int
    BY <2>0, SessionAssumption DEF SenderSession
  <2>2. ~ (s.fin_retransmit_attempts < RUDP_MAXRETRANS) =>
           ~ (t.fin_retransmit_attempts < RUDP_MAXRETRANS)
    BY <2>1, SessionAssumption
  <2>3. Retried(t, ev)
    BY <2>1, <2>2 DEF Retried
  <2> QED BY <2>3 DEF t
<1>3. CASE p.type \notin {"SYN", "FIN"}
  <2> DEFINE i == CHOOSE i \in SlotsOf(s, p) : TRUE
             attempts == [s.retransmission_attempts EXCEPT ![i] = @ + 1]
  <2>1. t = [s EXCEPT !.retransmission_attempts = attempts]
    BY <1>3 DEF CountAttempt
  <2>2. i \in Slot
    BY <1>3 DEF SlotsOf
  <2> HIDE DEF i
  <2>3. \A j \in Slot : /\ attempts[j] \in Int /\ s.retransmission_attempts[j] \in Int
                        /\ attempts[j] >= s.retransmission_attempts[j]
    BY <2>2, SessionAssumption DEF SenderSession
  <2> HIDE DEF attempts, t
  <2>4. /\ t.status = s.status /\ t.seqno = s.seqno
        /\ t.session_finished = s.session_finished
        /\ t.sliding_window = s.sliding_window
        /\ t.retransmission_attempts = attempts
        /\ t.syn_retransmit_attempts = s.syn_retransmit_attempts
        /\ t.fin_retransmit_attempts = s.fin_retransmit_attempts
    BY <2>1 DEF SenderSession
  <2>5. \A j \in Slot : ~ (s.retransmission_attempts[j] < RUDP_MAXRETRANS) =>
           ~ (t.retransmission_attempts[j] < RUDP_MAXRETRANS)
    BY <2>3, <2>4, SessionAssumption
  <2>6. Retried(t, ev)
    BY <2>4, <2>5 DEF Retried
  <2> QED BY <2>6 DEF t
<1> QED BY <1>1, <1>2, <1>3

\* The slot send_packet finds for a packet of the window is the packet's own.
LEMMA OwnSlot ==
    ASSUME NEW s \in SenderSession, NEW x \in SeqNo, NEW str \in Seq(Message),
           Len(str) <= MaxSend, NEW b \in Nat, Matches(s, x, str, b),
           NEW i \in Slot, s.sliding_window[i] # NULL
    PROVE  /\ s.sliding_window[i].type = "DATA"
           /\ SlotsOf(s, s.sliding_window[i]) = {i}
           /\ Attempts(s, s.sliding_window[i]) = s.retransmission_attempts[i]
           /\ \A j \in Slot : j # i => s.sliding_window[j] # s.sliding_window[i]
<1>1. Len(str) \in Nat /\ b \in 0 .. Len(str)
  BY WindowFacts
<1>2. ASSUME NEW j \in Slot, s.sliding_window[j] # NULL
      PROVE  /\ b + j + 1 \in 1 .. Len(str) /\ b + j + 1 \in 0 .. SeqMod - 1
             /\ s.sliding_window[j].type = "DATA"
             /\ s.sliding_window[j].seqno = SeqAdd(x, b + j + 1)
  <2>1. j \in Nat /\ b + j < Len(str)
        /\ s.sliding_window[j] = DataPacket(x, str, b + j + 1)
    BY <1>2 DEF Matches, Slot
  <2>2. b + j + 1 \in 1 .. Len(str) /\ b + j + 1 \in 0 .. SeqMod - 1
    <3> DEFINE L == Len(str)
    <3>1. /\ L \in Nat /\ MaxSend \in Nat /\ SeqMod \in Nat /\ j \in Nat /\ b \in Nat
          /\ L <= MaxSend /\ MaxSend + 2 < SeqMod /\ b + j < L
      BY <1>1, <2>1, SessionAssumption, SeqModAssumption
    <3> HIDE DEF L
    <3>2. b + j + 1 \in 1 .. L /\ b + j + 1 \in 0 .. SeqMod - 1
      BY <3>1
    <3> QED BY <3>2 DEF L
  <2> QED BY <2>1, <2>2, DataPacketType
<1>3. ASSUME NEW j \in Slot, s.sliding_window[j] # NULL,
             s.sliding_window[j].seqno = s.sliding_window[i].seqno
      PROVE  j = i
  <2>1. b + j + 1 = b + i + 1
    BY <1>2, <1>3, SeqInjective
  <2> QED BY <1>1, <2>1 DEF Slot
<1>4. SlotsOf(s, s.sliding_window[i]) = {i}
  BY <1>3 DEF SlotsOf
<1>5. Attempts(s, s.sliding_window[i]) = s.retransmission_attempts[i]
  BY <1>2, <1>4 DEF Attempts
<1> QED BY <1>2, <1>3, <1>4, <1>5

\* A packet whose attempts are used up loses its timer.
LEMMA ExpiredRetried ==
    ASSUME NEW s \in SenderSession, NEW x \in SeqNo, NEW str \in Seq(Message),
           Len(str) <= MaxSend, NEW b \in Nat, Matches(s, x, str, b),
           NEW p, NEW ev, ~ RetriesLeft(s, p), Retried(s, ev)
    PROVE  Retried(s, ev \ {p})
<1>1. ASSUME NEW i \in Slot, s.sliding_window[i] # NULL, s.sliding_window[i] = p
      PROVE  ~ (s.retransmission_attempts[i] < RUDP_MAXRETRANS)
  <2>1. Attempts(s, s.sliding_window[i]) = s.retransmission_attempts[i]
    BY <1>1, OwnSlot
  <2> QED BY <1>1, <2>1 DEF RetriesLeft
<1>2. p.type = "SYN" => ~ (s.syn_retransmit_attempts < RUDP_MAXRETRANS)
  BY DEF RetriesLeft, Attempts
<1>3. p.type = "FIN" => ~ (s.fin_retransmit_attempts < RUDP_MAXRETRANS)
  BY DEF RetriesLeft, Attempts
<1>4. \A y : /\ create_rudp_packet("SYN", y, NoPayload).type = "SYN"
             /\ create_rudp_packet("FIN", y, NoPayload).type = "FIN"
  BY DEF create_rudp_packet
<1> QED BY <1>1, <1>2, <1>3, <1>4 DEF Retried

\* A step that touches one session only.
LEMMA OneRetried ==
    ASSUME TypeInv, Retrying, NEW n \in Node, NEW m \in Node, NEW t, NEW ev,
           t # NULL => Retried(t, ev),
           sender' = [sender EXCEPT ![n][m] = t], events' = [events EXCEPT ![n][m] = ev]
    PROVE  Retrying'
<1>1. /\ sender \in [Node -> [Node -> SenderSession \cup {NULL}]]
      /\ events \in [Node -> [Node -> SUBSET Packet]]
  BY DEF TypeInv, TypeOK
<1>2. /\ sender'[n][m] = t /\ events'[n][m] = ev
      /\ \A x, y \in Node : <<x, y>> # <<n, m>> =>
            sender'[x][y] = sender[x][y] /\ events'[x][y] = events[x][y]
  BY <1>1
<1>3. ASSUME NEW x \in Node, NEW y \in Node, sender'[x][y] # NULL
      PROVE  Retried(sender'[x][y], events'[x][y])
  BY <1>2, <1>3 DEF Retrying
<1> QED BY <1>3 DEF Retrying

LEMMA SendtoRetrying ==
    ASSUME ~ SendtoFails, EngineInv, Retrying, NEW n \in Node, NEW m \in Node,
           rudp_sendto(n, m)
    PROVE  Retrying'
<1> DEFINE s == sender[n][m]
           item == handed[n][m] + 1
<1>1. /\ TypeInv /\ sender \in [Node -> [Node -> SenderSession \cup {NULL}]]
      /\ handed \in [Node -> [Node -> 0 .. MaxSend]]
      /\ handed[n][m] < MaxSend
  BY DEF EngineInv, TypeInv, TypeOK, rudp_sendto
<1>2. item \in Message
  BY <1>1, SessionAssumption DEF Message
<1>3. CASE SendtoOpens(n, m)
  <2>1. PICK x \in InitialSeqno :
          LET c == create_sender_session(x, item)
              syn == {c.syn_timeout_arg}
          IN \E sent \in Sent(syn) :
             /\ sender' = [sender EXCEPT ![n][m] = Untimed(c, syn \ sent)]
             /\ events' = [events EXCEPT ![n][m] = @ \cup sent]
    BY <1>3 DEF SendtoOpens, Register
  <2> DEFINE c == create_sender_session(x, item)
             syn == {c.syn_timeout_arg}
             ev == events[n][m] \cup syn
             t == Untimed(c, syn \ syn)
  <2>2. c \in SenderSession
    BY <1>2, CreateSenderType, NodeAssumption
  <2>3. sender' = [sender EXCEPT ![n][m] = t] /\ events' = [events EXCEPT ![n][m] = ev]
    <3>1. PICK sent \in Sent(syn) :
             /\ sender' = [sender EXCEPT ![n][m] = Untimed(c, syn \ sent)]
             /\ events' = [events EXCEPT ![n][m] = @ \cup sent]
      BY <2>1
    <3>2. sent = syn
      BY SentChoice
    <3> QED BY <3>1, <3>2
  <2>4. Retried(c, ev)
    BY DEF Retried, create_sender_session
  <2> HIDE DEF c
  <2>5. Retried(t, ev)
    BY <2>2, <2>4, UntimedRetried
  <2> HIDE DEF t, ev
  <2> QED BY <1>1, <2>3, <2>5, OneRetried
<1>4. CASE SendtoReceiverOnly(n, m)
  BY <1>4 DEF SendtoReceiverOnly, Retrying
<1>5. CASE SendtoSession(n, m)
  <2>1. s # NULL /\ s \in SenderSession
    BY <1>1, <1>5 DEF SendtoSession
  <2>2. Retried(s, events[n][m])
    BY <2>1 DEF Retrying
  <2>3. CASE sender' = [sender EXCEPT ![n][m] = Enqueue(s, item)] /\ UNCHANGED events
    <3> DEFINE t == Enqueue(s, item)
               ev == events[n][m]
    <3>1. Retried(t, ev)
      BY <2>1, <2>2, EnqueueRetried
    <3>2. sender' = [sender EXCEPT ![n][m] = t] /\ events' = [events EXCEPT ![n][m] = ev]
      BY <2>3, <1>1 DEF TypeInv, TypeOK
    <3> HIDE DEF t, ev
    <3> QED BY <1>1, <3>1, <3>2, OneRetried
  <2>4. ASSUME NEW i \in Free(s), s.status = "OPEN", NEW v, v = SendDirect(s, i, item),
               NEW sent \in Sent({v.sliding_window[i]}),
               sender' = [sender EXCEPT ![n][m] = Untimed(v, {v.sliding_window[i]} \ sent)],
               events' = [events EXCEPT ![n][m] = @ \cup sent]
        PROVE  Retrying'
    <3> DEFINE data == {v.sliding_window[i]}
               ev == events[n][m] \cup data
               t == Untimed(v, data \ data)
    <3>1. v \in SenderSession
      BY <1>2, <2>1, <2>4, SendDirectType DEF Free
    <3>2. Retried(v, ev)
      BY <2>1, <2>2, <2>4, DirectRetried DEF Free
    <3>3. sent = data
      BY <2>4, SentChoice
    <3>4. sender' = [sender EXCEPT ![n][m] = t] /\ events' = [events EXCEPT ![n][m] = ev]
      BY <2>4, <3>3
    <3>5. Retried(t, ev)
      BY <3>1, <3>2, UntimedRetried
    <3> HIDE DEF t, ev
    <3> QED BY <1>1, <3>4, <3>5, OneRetried
  <2> QED BY <1>5, <2>3, <2>4 DEF SendtoSession, Register
<1> QED BY <1>3, <1>4, <1>5 DEF rudp_sendto

LEMMA ReceiveAckSynSentRetrying ==
    ASSUME ~ SendtoFails, EngineInv, Retrying, NEW n \in Node, NEW m \in Node,
           NEW p \in net[m][n], ReceiveAckSynSent(n, m, p)
    PROVE  Retrying'
<1> DEFINE s == sender[n][m]
           v == OpenSession(s)
           out == NewPackets(s)
<1>1. /\ TypeInv /\ sender \in [Node -> [Node -> SenderSession \cup {NULL}]]
      /\ s # NULL /\ s.status = "SYN_SENT" /\ s \in SenderSession
  <2>1. TypeInv /\ sender \in [Node -> [Node -> SenderSession \cup {NULL}]]
    BY DEF EngineInv, TypeInv, TypeOK
  <2>2. s # NULL /\ s.status = "SYN_SENT"
    BY DEF ReceiveAckSynSent, ReceiveAck
  <2> QED BY <2>1, <2>2
<1>2. CASE SeqPrev(p.seqno) = s.seqno
  <2> DEFINE ev0 == events[n][m] \ {s.syn_timeout_arg}
             ev == ev0 \cup out
             t == Untimed(v, out \ out)
  <2>1. PICK sent \in Sent(out) :
            /\ sender' = [sender EXCEPT ![n][m] = Untimed(v, out \ sent)]
            /\ events' = [events EXCEPT ![n][m] = (@ \ {s.syn_timeout_arg}) \cup sent]
    BY <1>2 DEF ReceiveAckSynSent, Register, Cancel
  <2>2. sent = out
    BY SentChoice
  <2>3. sender' = [sender EXCEPT ![n][m] = t] /\ events' = [events EXCEPT ![n][m] = ev]
    BY <2>1, <2>2
  <2>4. \A i \in Slot : s.sliding_window[i] = NULL
    <3>1. PICK b \in 0 .. MaxSend :
             /\ Matches(s, isn[n][m], stream[n][m], b) /\ b \in Nat
             /\ Len(stream[n][m]) \in Nat /\ b <= Len(stream[n][m])
      BY <1>1, FlowFacts
    <3>2. Len(stream[n][m]) = 0
      BY <1>1, <3>1 DEF Matches
    <3>3. \A i \in Slot : ~ (b + i < Len(stream[n][m]))
      BY <3>1, <3>2, SessionAssumption DEF Slot
    <3> QED BY <3>1, <3>3 DEF Matches
  <2>5. Retried(v, ev)
    BY <1>1, <2>4, OpenRetried
  <2>6. v \in SenderSession
    BY <1>1, OpenSessionType
  <2> HIDE DEF v, out
  <2>7. Retried(t, ev)
    BY <2>5, <2>6, UntimedRetried
  <2> HIDE DEF t, ev
  <2> QED BY <1>1, <2>3, <2>7, OneRetried
<1>3. CASE SeqPrev(p.seqno) # s.seqno
  BY <1>3 DEF ReceiveAckSynSent, Retrying
<1> QED BY <1>2, <1>3

LEMMA ReceiveAckFinSentRetrying ==
    ASSUME EngineInv, Retrying, NEW n \in Node, NEW m \in Node,
           NEW p \in net[m][n], ReceiveAckFinSent(n, m, p)
    PROVE  Retrying'
<1> DEFINE s == sender[n][m]
           t == [s EXCEPT !.session_finished = TRUE]
           ev == events[n][m] \ {s.fin_timeout_arg}
<1>1. /\ TypeInv /\ sender \in [Node -> [Node -> SenderSession \cup {NULL}]]
      /\ s # NULL /\ s.status = "FIN_SENT" /\ s \in SenderSession
  <2>1. TypeInv /\ sender \in [Node -> [Node -> SenderSession \cup {NULL}]]
    BY DEF EngineInv, TypeInv, TypeOK
  <2>2. s # NULL /\ s.status = "FIN_SENT"
    BY DEF ReceiveAckFinSent, ReceiveAck
  <2> QED BY <2>1, <2>2
<1>2. CASE SeqNext(s.seqno) = p.seqno
  <2>1. sender' = [sender EXCEPT ![n][m] = t] /\ events' = [events EXCEPT ![n][m] = ev]
    BY <1>2 DEF ReceiveAckFinSent, Cancel
  <2>2. \A i \in Slot : s.sliding_window[i] = NULL
    <3>1. PICK b \in 0 .. MaxSend :
             /\ Matches(s, isn[n][m], stream[n][m], b) /\ b \in Nat
             /\ Len(stream[n][m]) \in Nat
      BY <1>1, FlowFacts
    <3>2. b = Len(stream[n][m])
      BY <1>1, <3>1 DEF Matches
    <3>3. \A i \in Slot : ~ (b + i < Len(stream[n][m]))
      BY <3>1, <3>2, SessionAssumption DEF Slot
    <3> QED BY <3>1, <3>3 DEF Matches
  <2>3. Retried(t, ev)
    BY <1>1, <2>2, FinishedRetried
  <2> HIDE DEF t, ev
  <2> QED BY <1>1, <2>1, <2>3, OneRetried
<1>3. CASE SeqNext(s.seqno) # p.seqno
  BY <1>3 DEF ReceiveAckFinSent, Retrying
<1> QED BY <1>2, <1>3

LEMMA TimeoutRetrying ==
    ASSUME ~ SendtoFails, EngineInv, Retrying, NEW n \in Node, NEW m \in Node,
           timeout_callback(n, m)
    PROVE  Retrying'
<1> DEFINE s == sender[n][m]
<1>1. /\ TypeInv /\ sender \in [Node -> [Node -> SenderSession \cup {NULL}]]
      /\ events \in [Node -> [Node -> SUBSET Packet]] /\ NoTimers
      /\ mode[n] = "up"
  BY DEF EngineInv, TypeInv, TypeOK, timeout_callback
<1>2. ASSUME NEW p \in events[n][m], RetriesLeft(s, p), p.type = "DATA" => SlotsOf(s, p) # {},
             NEW sent \in Sent({p}),
             sender' = [sender EXCEPT ![n][m] = CountAttempt(s, p)],
             events' = [events EXCEPT ![n][m] = (@ \ {p}) \cup sent]
      PROVE  Retrying'
  <2> DEFINE t == CountAttempt(s, p)
             ev == events[n][m]
  <2>1. s # NULL /\ s \in SenderSession /\ p \in Packet
    BY <1>1 DEF NoTimers
  <2>2. p \in Unacked(s)
    BY <1>1, <2>1, EngineTimers DEF TimersMatch
  <2>3. PICK b \in 0 .. MaxSend :
            /\ Matches(s, isn[n][m], stream[n][m], b) /\ b \in Nat
            /\ isn[n][m] \in SeqNo /\ stream[n][m] \in Seq(Message)
    BY <2>1, FlowFacts
  <2>4. Len(stream[n][m]) <= MaxSend
    BY <2>1, FlowTypes DEF EngineInv, StreamInv
  <2>5. p.type \in {"SYN", "FIN"} \/ SlotsOf(s, p) # {}
    <3>1. \A i \in Slot : s.sliding_window[i] # NULL => s.sliding_window[i].type = "DATA"
      BY <2>1, <2>3, <2>4, OwnSlot
    <3> QED BY <1>2, <2>2, <3>1 DEF Unacked, Outstanding, create_rudp_packet
  <2>6. Retried(s, ev)
    BY <2>1 DEF Retrying
  <2>7. Retried(t, ev)
    BY <1>2, <2>1, <2>5, <2>6, CountRetried
  <2>8. (ev \ {p}) \cup sent = ev
    BY <1>2, SentChoice
  <2>9. sender' = [sender EXCEPT ![n][m] = t] /\ events' = [events EXCEPT ![n][m] = ev]
    BY <1>2, <2>8
  <2> HIDE DEF t, ev
  <2> QED BY <1>1, <2>7, <2>9, OneRetried
<1>3. ASSUME NEW p \in events[n][m], ~ RetriesLeft(s, p),
             events' = [events EXCEPT ![n][m] = @ \ {p}], UNCHANGED sender
      PROVE  Retrying'
  <2> DEFINE ev == events[n][m] \ {p}
  <2>1. s # NULL /\ s \in SenderSession
    BY <1>1 DEF NoTimers
  <2>2. PICK b \in 0 .. MaxSend :
            /\ Matches(s, isn[n][m], stream[n][m], b) /\ b \in Nat
            /\ isn[n][m] \in SeqNo /\ stream[n][m] \in Seq(Message)
    BY <2>1, FlowFacts
  <2>3. Len(stream[n][m]) <= MaxSend
    BY <2>1, FlowTypes DEF EngineInv, StreamInv
  <2>4. Retried(s, events[n][m])
    BY <2>1 DEF Retrying
  <2>5. Retried(s, ev)
    BY <1>3, <2>1, <2>2, <2>3, <2>4, ExpiredRetried
  <2>6. sender' = [sender EXCEPT ![n][m] = s] /\ events' = [events EXCEPT ![n][m] = ev]
    BY <1>1, <1>3
  <2> HIDE DEF ev
  <2> QED BY <1>1, <2>5, <2>6, OneRetried
<1>4. CASE UNCHANGED <<sender, events>>
  BY <1>4 DEF Retrying
<1> QED BY <1>2, <1>3, <1>4 DEF timeout_callback, Expires, Register

\* A session that has sent its FIN has nothing in its window.
LEMMA EndedEmpty ==
    ASSUME NEW s, NEW x, NEW str, Len(str) \in Nat, NEW b, Matches(s, x, str, b),
           s.status = "FIN_SENT"
    PROVE  \A i \in Slot : s.sliding_window[i] = NULL
<1>1. b = Len(str)
  BY DEF Matches
<1>2. \A i \in Slot : ~ (b + i < Len(str))
  BY <1>1, SessionAssumption DEF Slot
<1> QED BY <1>2 DEF Matches

\* The slide of one session: its own packet's timer is cancelled and no other.
LEMMA SlideRetried ==
    ASSUME ~ SendtoFails, EngineInv, Retrying, NEW n \in Node, NEW m \in Node,
           sender[n][m] # NULL, sender[n][m].status = "OPEN",
           sender[n][m].sliding_window[0] # NULL
    PROVE  LET s == sender[n][m]
               u == ShiftWindow(s)
           IN Retried(FlushQueue(u), (events[n][m] \ {s.data_timeout_arg[0]}) \cup NewPackets(u))
<1> DEFINE s == sender[n][m]
           d == s.data_timeout_arg[0]
           u == ShiftWindow(s)
<1>1. PICK b \in 0 .. MaxSend :
          /\ Matches(s, isn[n][m], stream[n][m], b) /\ b \in Nat /\ s \in SenderSession
          /\ isn[n][m] \in SeqNo /\ stream[n][m] \in Seq(Message)
  BY FlowFacts
<1>2. Len(stream[n][m]) <= MaxSend
  BY FlowTypes DEF EngineInv, StreamInv
<1>3. 0 \in Slot
  BY SessionAssumption DEF Slot
<1>4. d = s.sliding_window[0]
  BY <1>1, <1>3 DEF Matches, ArgOf
<1>5. \A i \in Slot : i # 0 /\ s.sliding_window[i] # NULL => s.sliding_window[i] # d
  BY <1>1, <1>2, <1>3, <1>4, OwnSlot
<1>6. Retried(s, events[n][m])
  BY DEF Retrying
<1>7. Retried(u, events[n][m] \ {d}) /\ u.status = "OPEN" /\ u \in SenderSession
  BY <1>1, <1>5, <1>6, ShiftRetried, ShiftWindowType
<1> QED BY <1>7, FlushRetried

LEMMA SlideAndFillRetrying ==
    ASSUME ~ SendtoFails, EngineInv, EngineInv', Retrying, NEW n \in Node, NEW m \in Node,
           NEW p, sender[n][m] # NULL, sender[n][m].status = "OPEN",
           sender[n][m].sliding_window[0] # NULL, SlideAndFill(n, m, p)
    PROVE  Retrying'
<1> DEFINE u == ShiftWindow(sender[n][m])
           w == FlushQueue(u)
           slid == [sender[n] EXCEPT ![m] = w]
           fins == {h \in Visited(n) : close_requested[n] /\ Drained(slid[h])}
           out == [h \in Node |-> (IF h = m THEN NewPackets(u) ELSE {})
                                  \cup (IF h \in fins THEN {FinPacket(slid[h])} ELSE {})]
           done == [events[n] EXCEPT ![m] = Cancel(@, sender[n][m].data_timeout_arg[0])]
           after == [h \in Node |-> IF h \in fins THEN SendFin(slid[h]) ELSE slid[h]]
<1>1. /\ sender \in [Node -> [Node -> SenderSession \cup {NULL}]]
      /\ events \in [Node -> [Node -> SUBSET Packet]]
  BY DEF EngineInv, TypeInv, TypeOK
<1>2. w \in SenderSession
  BY <1>1, ShiftWindowType, FlushQueueType
<1>3. \E sent \in SentTo(out) :
         /\ sender' = [sender EXCEPT ![n] =
                [h \in Node |-> IF after[h] = NULL THEN NULL
                                ELSE Untimed(after[h], out[h] \ sent[h])]]
         /\ events' = [events EXCEPT ![n] = [h \in Node |-> done[h] \cup sent[h]]]
  BY DEF Register, SlideAndFill
<1>4. \A h \in fins : sender[n][h] # NULL
  <2> TAKE h \in fins
  <2>1. PICK i \in DOMAIN sessions_list[n] :
          h = sessions_list[n][i] /\ \A j \in 1 .. i : sender[n][sessions_list[n][j]] # NULL
    BY DEF Visited
  <2>2. i \in 1 .. i
    <3>1. sessions_list[n] \in Seq(Node)
      BY DEF EngineInv, TypeInv, TypeOK
    <3>2. DOMAIN sessions_list[n] = 1 .. Len(sessions_list[n]) /\ Len(sessions_list[n]) \in Nat
      BY <3>1, LenProperties
    <3> QED BY <3>2
  <2> QED BY <2>1, <2>2
<1>5. /\ Retried(w, Cancel(events[n][m], sender[n][m].data_timeout_arg[0]) \cup NewPackets(u))
  BY SlideRetried DEF Cancel
<1> HIDE DEF u, w
<1>6. /\ slid[m] = w
      /\ \A h \in Node : h # m => slid[h] = sender[n][h]
      /\ \A h \in Node : sender[n][h] # NULL => slid[h] \in SenderSession
      /\ \A h \in Node : slid[h] # NULL => slid[h] \in SenderSession
  BY <1>1, <1>2
<1> HIDE DEF slid, fins
<1>7. /\ done[m] = Cancel(events[n][m], sender[n][m].data_timeout_arg[0])
      /\ \A h \in Node : h # m => done[h] = events[n][h]
  BY <1>1
<1>8. \A h \in Node : h \notin fins /\ slid[h] # NULL => Retried(slid[h], done[h] \cup out[h])
  <2> TAKE h \in Node
  <2> HAVE h \notin fins /\ slid[h] # NULL
  <2>1. CASE h = m
    <3>1. out[h] = NewPackets(u)
      BY <2>1
    <3> HIDE DEF out, done
    <3> QED BY <1>5, <1>6, <1>7, <2>1, <3>1
  <2>2. CASE h # m
    <3>1. out[h] = {}
      BY <2>2
    <3> HIDE DEF out, done
    <3>2. Retried(sender[n][h], events[n][h])
      BY <1>6, <2>2 DEF Retrying
    <3>3. done[h] \cup out[h] = events[n][h]
      BY <1>7, <2>2, <3>1
    <3> QED BY <1>6, <2>2, <3>2, <3>3
  <2> QED BY <2>1, <2>2
<1>9. \A h \in Node : /\ h \in fins => after[h] = SendFin(slid[h]) /\ FinPacket(slid[h]) \in out[h]
                      /\ h \notin fins => after[h] = slid[h]
  OBVIOUS
<1>10. \A h \in Node : after[h] # NULL => after[h] \in SenderSession
  BY <1>4, <1>6, SendFinType
<1> HIDE DEF out, done, after
<1>11. /\ sender' = [sender EXCEPT ![n] =
              [h \in Node |-> IF after[h] = NULL THEN NULL
                              ELSE Untimed(after[h], out[h] \ out[h])]]
       /\ events' = [events EXCEPT ![n] = [h \in Node |-> done[h] \cup out[h]]]
  BY <1>3 DEF SentTo
<1> DEFINE row == [h \in Node |-> IF after[h] = NULL THEN NULL
                                  ELSE Untimed(after[h], out[h] \ out[h])]
           timers == [h \in Node |-> done[h] \cup out[h]]
<1>12. \A h \in Node : /\ after[h] = NULL => row[h] = NULL
                       /\ after[h] # NULL => row[h] = Untimed(after[h], out[h] \ out[h])
                       /\ timers[h] = done[h] \cup out[h]
  OBVIOUS
<1>13. sender' = [sender EXCEPT ![n] = row] /\ events' = [events EXCEPT ![n] = timers]
  BY <1>11
<1> HIDE DEF row, timers
<1>14. /\ \A x, y \in Node : x # n => sender'[x][y] = sender[x][y] /\ events'[x][y] = events[x][y]
       /\ \A y \in Node : sender'[n][y] = row[y] /\ events'[n][y] = timers[y]
  <2>1. /\ \A x, y \in Node : x # n => sender'[x][y] = sender[x][y]
        /\ \A y \in Node : sender'[n][y] = row[y]
    BY <1>1, <1>13
  <2>2. /\ \A x, y \in Node : x # n => events'[x][y] = events[x][y]
        /\ \A y \in Node : events'[n][y] = timers[y]
    BY <1>1, <1>13
  <2> QED BY <2>1, <2>2
<1>15. ASSUME NEW h \in Node, h \in fins
       PROVE  Retried(after[h], done[h] \cup out[h])
  <2>1. slid[h] \in SenderSession
    BY <1>4, <1>6, <1>15
  <2>2. /\ after[h] \in SenderSession /\ after[h] # NULL /\ after[h].status = "FIN_SENT"
        /\ after[h].sliding_window = slid[h].sliding_window
    BY <1>9, <1>15, <2>1, SendFinType, NullAssumption
  <2>3. /\ sender'[n][h] # NULL /\ sender'[n][h].status = "FIN_SENT"
        /\ sender'[n][h].sliding_window = slid[h].sliding_window
    <3>1. sender'[n][h] = Untimed(after[h], out[h] \ out[h])
      BY <1>12, <1>14, <2>2
    <3> QED BY <2>2, <3>1, UntimedType
  <2>4. \A i \in Slot : sender'[n][h].sliding_window[i] = NULL
    <3>1. PICK b, e \in 0 .. MaxSend : TransferAt(n, h, b, e)'
      BY DEF EngineInv, TransferInv
    <3>2. Matches(sender'[n][h], isn'[n][h], stream'[n][h], b)
      BY <2>3, <3>1 DEF TransferAt, Sending
    <3>3. Len(stream'[n][h]) \in Nat
      <4>1. stream'[n][h] \in Seq(Message)
        BY DEF EngineInv, TypeInv, TypeOK
      <4> QED BY <4>1, LenProperties
    <3> QED BY <2>3, <3>2, <3>3, EndedEmpty
  <2>5. Retried(SendFin(slid[h]), (done[h] \cup out[h]) \cup {FinPacket(slid[h])})
    BY <2>1, <2>3, <2>4, FinRetried
  <2>6. (done[h] \cup out[h]) \cup {FinPacket(slid[h])} = done[h] \cup out[h]
    BY <1>9, <1>15
  <2> QED BY <1>9, <1>15, <2>5, <2>6
<1>16. ASSUME NEW x \in Node, NEW y \in Node, sender'[x][y] # NULL
       PROVE  Retried(sender'[x][y], events'[x][y])
  <2>1. CASE x # n
    BY <1>14, <1>16, <2>1 DEF Retrying
  <2>2. CASE x = n
    <3>1. after[y] # NULL /\ sender'[x][y] = Untimed(after[y], out[y] \ out[y])
          /\ events'[x][y] = done[y] \cup out[y]
      BY <1>12, <1>14, <1>16, <2>2
    <3>2. Retried(after[y], done[y] \cup out[y])
      BY <1>8, <1>9, <1>15, <3>1
    <3> QED BY <1>10, <3>1, <3>2, UntimedRetried
  <2> QED BY <2>1, <2>2
<1> QED BY <1>16 DEF Retrying

LEMMA RetryingNext ==
    ASSUME ~ SendtoFails, EngineInv, EngineInv', Retrying, [Next]_vars
    PROVE  Retrying'
<1>1. ASSUME NEW n \in Node, NEW m \in Node, receive_callback(n, m) PROVE Retrying'
  <2>1. PICK p \in net[m][n] :
          \/ ReceiveNoSession(n, m, p)
          \/ ReceiveSyn(n, m, p)
          \/ ReceiveMissingHalf(n, m, p)
          \/ ReceiveAckSynSent(n, m, p)
          \/ ReceiveAckOpen(n, m, p)
          \/ ReceiveAckFinSent(n, m, p)
          \/ ReceiveData(n, m, p)
          \/ ReceiveFin(n, m, p)
    BY <1>1 DEF receive_callback
  <2>2. CASE \/ ReceiveNoSession(n, m, p) \/ ReceiveSyn(n, m, p)
             \/ ReceiveMissingHalf(n, m, p) \/ ReceiveData(n, m, p) \/ ReceiveFin(n, m, p)
    <3>1. UNCHANGED <<sender, events>>
      BY <2>2 DEF ReceiveNoSession, ReceiveSyn, ReceiveMissingHalf, ReceiveData, ReceiveFin,
                  session
    <3> QED BY <3>1 DEF Retrying
  <2>3. CASE ReceiveAckOpen(n, m, p)
    <3>1. sender[n][m] # NULL /\ sender[n][m].status = "OPEN"
      BY <2>3 DEF ReceiveAckOpen, ReceiveAck
    <3>2. CASE UNCHANGED <<sender, events>>
      BY <3>2 DEF Retrying
    <3>3. CASE AcksOldest(sender[n][m], p) /\ SlideAndFill(n, m, p)
      BY <3>1, <3>3, SlideAndFillRetrying DEF AcksOldest
    <3> QED BY <2>3, <3>2, <3>3 DEF ReceiveAckOpen
  <2> QED BY <2>1, <2>2, <2>3, ReceiveAckSynSentRetrying, ReceiveAckFinSentRetrying
<1>2. CASE UNCHANGED <<sender, events>>
  BY <1>2 DEF Retrying
<1> QED BY <1>1, <1>2, SendtoRetrying, TimeoutRetrying
        DEF Next, Lose, rudp_close, vars, session

\* What the engine keeps, in the words of KeepsTrying.
LEMMA EngineKeeps == EngineInv /\ Retrying => KeepsTrying
<1> SUFFICES ASSUME EngineInv, Retrying, NEW n \in Node, NEW m \in Node, sender[n][m] # NULL,
                    NEW p \in Unacked(sender[n][m]), p \notin events[n][m]
             PROVE  ~ RetriesLeft(sender[n][m], p)
  BY DEF KeepsTrying
<1> DEFINE s == sender[n][m]
<1>1. Retried(s, events[n][m])
  BY DEF Retrying
<1>2. CASE p \in {s.sliding_window[i] : i \in Outstanding(s)}
  <2>1. PICK i \in Slot : s.sliding_window[i] # NULL /\ p = s.sliding_window[i]
    BY <1>2 DEF Outstanding
  <2>2. PICK b \in 0 .. MaxSend :
          /\ Matches(s, isn[n][m], stream[n][m], b) /\ b \in Nat /\ s \in SenderSession
          /\ isn[n][m] \in SeqNo /\ stream[n][m] \in Seq(Message)
    BY FlowFacts
  <2>3. Len(stream[n][m]) <= MaxSend
    BY FlowTypes DEF EngineInv, StreamInv
  <2>4. Attempts(s, p) = s.retransmission_attempts[i]
    BY <2>1, <2>2, <2>3, OwnSlot
  <2> QED BY <1>1, <2>1, <2>4 DEF Retried, RetriesLeft
<1>3. CASE s.status = "SYN_SENT" /\ p = create_rudp_packet("SYN", s.seqno, NoPayload)
  <2>1. Attempts(s, p) = s.syn_retransmit_attempts
    BY <1>3 DEF Attempts, create_rudp_packet
  <2> QED BY <1>1, <1>3, <2>1 DEF Retried, RetriesLeft
<1>4. CASE /\ s.status = "FIN_SENT" /\ ~ s.session_finished
           /\ p = create_rudp_packet("FIN", s.seqno, NoPayload)
  <2>1. p.type = "FIN"
    BY <1>4 DEF create_rudp_packet
  <2>2. Attempts(s, p) = s.fin_retransmit_attempts
    BY <2>1 DEF Attempts
  <2> QED BY <1>1, <1>4, <2>2 DEF Retried, RetriesLeft
<1> QED BY <1>2, <1>3, <1>4 DEF Unacked

(***************************************************************************)
(* KeepsTrying: a packet kept in a session has a timer or has been sent as *)
(* often as RUDP_MAXRETRANS allows, through the slides of the window, its  *)
(* refills and the retransmissions, as long as sendto takes every packet.  *)
(***************************************************************************)
THEOREM TryingCorrect == ASSUME FaithfulNumbers, ~ SendtoFails PROVE Spec => []KeepsTrying
<1>1. EngineInv /\ EngineInv' /\ Retrying /\ [Next]_vars => Retrying'
  BY RetryingNext
<1>2. Init => Retrying
  BY DEF Init, Retrying
<1> QED BY <1>1, <1>2, EngineKeeps, EngineCorrect, PTL DEF Spec

=============================================================================
