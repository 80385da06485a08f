------------------------- MODULE RudpSessionProofs -------------------------
(***************************************************************************)
(* What the operators of RudpSeq and RudpSession return, for every window  *)
(* size, retransmission limit and width of the sequence numbers.           *)
(***************************************************************************)
EXTENDS RudpWindow, FiniteSetTheorems, SequenceTheorems, TLAPS

(***************************************************************************)
(* Sequence numbers: the arithmetic stays within the type, and a session   *)
(* that is shorter than a cycle never gives two packets the same number.   *)
(***************************************************************************)
LEMMA SeqArithmetic ==
    ASSUME NEW x \in SeqNo, NEW k \in 0 .. SeqMod - 1
    PROVE  /\ SeqAdd(x, k) \in SeqNo
           /\ SeqNext(x) \in SeqNo
           /\ SeqPrev(x) \in SeqNo
           /\ SeqNext(x) = SeqAdd(x, 1)
BY SeqModAssumption DEF SeqNo, SeqAdd, SeqSub, SeqNext, SeqPrev

LEMMA SeqAddition ==
    ASSUME NEW x \in SeqNo, NEW j \in Nat, NEW k \in Nat, j + k < SeqMod
    PROVE  SeqAdd(SeqAdd(x, j), k) = SeqAdd(x, j + k)
BY SeqModAssumption DEF SeqNo, SeqAdd

LEMMA SeqInjective ==
    ASSUME NEW x \in SeqNo, NEW j \in 0 .. SeqMod - 1, NEW k \in 0 .. SeqMod - 1,
           SeqAdd(x, j) = SeqAdd(x, k)
    PROVE  j = k
BY SeqModAssumption DEF SeqNo, SeqAdd

-----------------------------------------------------------------------------
LEMMA PacketType ==
    ASSUME NEW type \in {"DATA", "ACK", "SYN", "FIN"}, NEW seqno \in SeqNo,
           NEW payload \in Message \cup {NoPayload}
    PROVE  create_rudp_packet(type, seqno, payload) \in Packet
BY DEF create_rudp_packet, Packet

LEMMA CreateSenderType ==
    ASSUME NEW seqno \in SeqNo, NEW item \in Message
    PROVE  /\ create_sender_session(seqno, item) \in SenderSession
           /\ create_sender_session(seqno, item).syn_timeout_arg \in Packet
<1>1. create_rudp_packet("SYN", seqno, NoPayload) \in Packet
  BY PacketType
<1>2. <<item>> \in Seq(Message)
  OBVIOUS
<1> QED BY <1>1, <1>2, SessionAssumption DEF create_sender_session, SenderSession

LEMMA CreateReceiverType ==
    ASSUME NEW seqno \in SeqNo
    PROVE  create_receiver_session(seqno) \in ReceiverSession
BY DEF create_receiver_session, ReceiverSession

-----------------------------------------------------------------------------
\* The window: putting a packet into a slot and moving the slots down.
LEMMA PutPacketType ==
    ASSUME NEW s \in SenderSession, NEW i \in Slot, NEW p \in Packet
    PROVE  /\ PutPacket(s, i, p) \in SenderSession
           /\ PutPacket(s, i, p).status = s.status
           /\ PutPacket(s, i, p).seqno = s.seqno
           /\ PutPacket(s, i, p).data_queue = s.data_queue
           /\ PutPacket(s, i, p).syn_timeout_arg = s.syn_timeout_arg
           /\ PutPacket(s, i, p).sliding_window = [s.sliding_window EXCEPT ![i] = p]
<1> DEFINE window == [s.sliding_window EXCEPT ![i] = p]
           attempts == [s.retransmission_attempts EXCEPT ![i] = 0]
           args == [s.data_timeout_arg EXCEPT ![i] = p]
<1>1. window \in [Slot -> Packet \cup {NULL}] /\ args \in [Slot -> Packet \cup {NULL}]
  BY DEF SenderSession
<1>2. attempts \in [Slot -> 0 .. RUDP_MAXRETRANS]
  BY SessionAssumption DEF SenderSession
<1>3. PutPacket(s, i, p) = [s EXCEPT !.sliding_window = window,
                                     !.retransmission_attempts = attempts,
                                     !.data_timeout_arg = args]
  BY DEF PutPacket, SenderSession
<1> HIDE DEF window, attempts, args
<1>4. PutPacket(s, i, p).sliding_window = window
  BY <1>3 DEF SenderSession
<1> QED BY <1>1, <1>2, <1>3, <1>4 DEF SenderSession, window

LEMMA SendDirectType ==
    ASSUME NEW s \in SenderSession, NEW i \in Slot, NEW item \in Message
    PROVE  LET p == create_rudp_packet("DATA", SeqNext(s.seqno), item)
               t == SendDirect(s, i, item)
           IN /\ t \in SenderSession
              /\ p \in Packet
              /\ t.status = s.status
              /\ t.seqno = SeqNext(s.seqno)
              /\ t.data_queue = s.data_queue
              /\ t.syn_timeout_arg = s.syn_timeout_arg
              /\ t.sliding_window = [s.sliding_window EXCEPT ![i] = p]
              /\ t.sliding_window[i] = p
<1> DEFINE p == create_rudp_packet("DATA", SeqNext(s.seqno), item)
           numbered == [s EXCEPT !.seqno = SeqNext(@)]
<1>1. s.seqno \in SeqNo /\ SeqNext(s.seqno) \in SeqNo
  BY SeqArithmetic, SeqModAssumption DEF SenderSession
<1>2. p \in Packet
  BY <1>1, PacketType
<1>3. /\ numbered \in SenderSession
      /\ numbered.status = s.status
      /\ numbered.seqno = SeqNext(s.seqno)
      /\ numbered.data_queue = s.data_queue
      /\ numbered.syn_timeout_arg = s.syn_timeout_arg
      /\ numbered.sliding_window = s.sliding_window
  BY <1>1 DEF SenderSession
<1>4. SendDirect(s, i, item) = PutPacket(numbered, i, p)
  BY DEF SendDirect
<1>5. s.sliding_window \in [Slot -> Packet \cup {NULL}]
  BY DEF SenderSession
<1> HIDE DEF numbered, p
<1> QED BY <1>2, <1>3, <1>4, <1>5, PutPacketType DEF p

LEMMA EnqueueType ==
    ASSUME NEW s \in SenderSession, NEW item \in Message
    PROVE  Enqueue(s, item) \in SenderSession
<1>1. Append(s.data_queue, item) \in Seq(Message)
  BY DEF SenderSession
<1> QED BY <1>1 DEF Enqueue, SenderSession

LEMMA ShiftWindowType ==
    ASSUME NEW s \in SenderSession
    PROVE  LET t == ShiftWindow(s)
           IN /\ t \in SenderSession
              /\ t.status = s.status
              /\ t.seqno = s.seqno
              /\ t.data_queue = s.data_queue
              /\ t.syn_timeout_arg = s.syn_timeout_arg
              /\ \A i \in Slot : t.sliding_window[i] # NULL =>
                    i + 1 \in Slot /\ t.sliding_window[i] = s.sliding_window[i + 1]
<1> DEFINE window == [i \in Slot |-> IF i = RUDP_WINDOW - 1 THEN NULL
                                     ELSE s.sliding_window[i + 1]]
           attempts == [i \in Slot |-> IF i = RUDP_WINDOW - 1 THEN 0
                                       ELSE s.retransmission_attempts[i + 1]]
           args == [i \in Slot |-> IF i = RUDP_WINDOW - 1 THEN NULL
                                   ELSE s.data_timeout_arg[i + 1]]
<1>1. \A i \in Slot : i = RUDP_WINDOW - 1 \/ i + 1 \in Slot
  BY SessionAssumption DEF Slot
<1>2. window \in [Slot -> Packet \cup {NULL}] /\ args \in [Slot -> Packet \cup {NULL}]
  BY <1>1 DEF SenderSession
<1>3. attempts \in [Slot -> 0 .. RUDP_MAXRETRANS]
  BY <1>1, SessionAssumption DEF SenderSession
<1>4. ShiftWindow(s) = [s EXCEPT !.sliding_window = window,
                                 !.retransmission_attempts = attempts,
                                 !.data_timeout_arg = args]
  BY DEF ShiftWindow, SenderSession
<1>5. \A i \in Slot : window[i] # NULL =>
         i + 1 \in Slot /\ window[i] = s.sliding_window[i + 1]
  BY <1>1
<1> HIDE DEF window, attempts, args
<1>6. ShiftWindow(s).sliding_window = window
  BY <1>4 DEF SenderSession
<1> QED BY <1>2, <1>3, <1>4, <1>5, <1>6 DEF SenderSession

-----------------------------------------------------------------------------
(***************************************************************************)
(* The flush: as many messages leave the queue as there are slots to fill, *)
(* and the rank of a slot names one of them.                               *)
(***************************************************************************)
LEMMA FlushCounts ==
    ASSUME NEW s \in SenderSession
    PROVE  /\ Filled(s) \subseteq Slot
           /\ Cardinality(Filled(s)) \in Nat
           /\ Cardinality(Filled(s)) <= Len(s.data_queue)
           /\ Cardinality(Filled(s)) <= RUDP_WINDOW
           /\ \A i \in Filled(s) : Rank(s, i) \in 1 .. Cardinality(Filled(s))
<1> DEFINE UpTo(i) == {j \in Room(s) : j <= i}
           N == Len(s.data_queue)
<1>1. IsFiniteSet(Slot) /\ Cardinality(Slot) = RUDP_WINDOW
  <2>1. RUDP_WINDOW \in Nat /\ RUDP_WINDOW > 0 /\ Slot = 0 .. (RUDP_WINDOW - 1)
    BY SessionAssumption DEF Slot
  <2> QED BY <2>1, FS_Interval
<1>2. /\ Room(s) \subseteq Slot
      /\ Filled(s) = {i \in Room(s) : Rank(s, i) <= N}
      /\ N \in Nat
  BY DEF Room, Filled, Free, SenderSession
<1>3. \A T \in SUBSET Room(s) : IsFiniteSet(T) /\ Cardinality(T) \in Nat
  BY <1>1, <1>2, FS_Subset, FS_CardinalityType
<1>4. /\ Cardinality(Filled(s)) \in Nat
      /\ Cardinality(Filled(s)) <= RUDP_WINDOW
  BY <1>1, <1>2, <1>3, FS_Subset
<1>5. \A i \in Room(s) : Rank(s, i) = Cardinality(UpTo(i)) /\ UpTo(i) \in SUBSET Room(s)
  BY DEF Rank
<1>6. \A i \in Room(s) : Rank(s, i) \in Nat \ {0}
  <2> TAKE i \in Room(s)
  <2>1. i \in UpTo(i)
    BY <1>2 DEF Slot
  <2> QED BY <1>3, <1>5, <2>1, FS_EmptySet
<1>7. \A i, j \in Room(s) : i < j => Rank(s, i) < Rank(s, j)
  <2> TAKE i, j \in Room(s)
  <2> HAVE i < j
  <2>1. UpTo(i) \in SUBSET UpTo(j) /\ j \in UpTo(j) /\ j \notin UpTo(i)
    BY <1>2 DEF Slot
  <2>2. /\ Cardinality(UpTo(i)) <= Cardinality(UpTo(j))
        /\ Cardinality(UpTo(i)) # Cardinality(UpTo(j))
    <3> HIDE DEF UpTo
    <3> QED BY <1>3, <1>5, <2>1, FS_Subset
  <2> QED BY <1>3, <1>5, <2>2
<1>8. \A i \in Filled(s) : Rank(s, i) <= Cardinality(Filled(s))
  <2> TAKE i \in Filled(s)
  <2>1. UpTo(i) \in SUBSET Filled(s)
    BY <1>2, <1>6, <1>7 DEF Slot
  <2> HIDE DEF UpTo
  <2> QED BY <1>2, <1>3, <1>5, <2>1, FS_Subset
<1>9. Cardinality(Filled(s)) <= N
  <2> DEFINE f == [i \in Filled(s) |-> Rank(s, i)]
  <2>1. f \in Injection(Filled(s), 1 .. N)
    BY <1>2, <1>6, <1>7 DEF Injection, IsInjective, Slot
  <2>2. IsFiniteSet(1 .. N) /\ Cardinality(1 .. N) = N
    BY <1>2, FS_Interval
  <2> QED BY <2>1, <2>2, FS_Injection DEF ExistsInjection
<1> HIDE DEF UpTo, N
<1> QED BY <1>2, <1>4, <1>6, <1>8, <1>9 DEF N

\* What is moved and what remains are the two parts of the queue.
LEMMA QueueSplit ==
    ASSUME NEW s \in SenderSession
    PROVE  /\ Moved(s) \in Seq(Message)
           /\ Remaining(s) \in Seq(Message)
           /\ Len(Moved(s)) = Cardinality(Filled(s))
           /\ Len(Moved(s)) + Len(Remaining(s)) = Len(s.data_queue)
           /\ \A k \in 1 .. Len(Moved(s)) : Moved(s)[k] = s.data_queue[k]
           /\ \A k \in 1 .. Len(Remaining(s)) :
                 Remaining(s)[k] = s.data_queue[Len(Moved(s)) + k]
<1> DEFINE N == Len(s.data_queue)
           C == Cardinality(Filled(s))
<1>1. N \in Nat /\ C \in Nat /\ C <= N
  BY FlushCounts DEF SenderSession
<1>2. \A k \in 1 .. N : s.data_queue[k] \in Message
  BY DEF SenderSession
<1>3. Moved(s) = SubSeq(s.data_queue, 1, C) /\ Remaining(s) = SubSeq(s.data_queue, C + 1, N)
  BY DEF Moved, Remaining
<1> HIDE DEF N, C
<1>4. (\A k \in 1 .. C : s.data_queue[k] \in Message)
      /\ (\A k \in (C + 1) .. N : s.data_queue[k] \in Message)
  BY <1>1, <1>2
<1>5. /\ SubSeq(s.data_queue, 1, C) \in Seq(Message)
      /\ Len(SubSeq(s.data_queue, 1, C)) = IF 1 <= C THEN C - 1 + 1 ELSE 0
      /\ \A k \in 1 .. C - 1 + 1 : SubSeq(s.data_queue, 1, C)[k] = s.data_queue[1 + k - 1]
  BY <1>1, <1>4, SubSeqProperties
<1>6. /\ SubSeq(s.data_queue, C + 1, N) \in Seq(Message)
      /\ Len(SubSeq(s.data_queue, C + 1, N)) = IF C + 1 <= N THEN N - (C + 1) + 1 ELSE 0
      /\ \A k \in 1 .. N - (C + 1) + 1 :
            SubSeq(s.data_queue, C + 1, N)[k] = s.data_queue[C + 1 + k - 1]
  <2>1. C + 1 \in Int
    BY <1>1
  <2> QED BY <1>1, <1>4, <2>1, SubSeqProperties
<1>7. Len(Moved(s)) = C /\ \A k \in 1 .. C : Moved(s)[k] = s.data_queue[k]
  <2>1. /\ C - 1 + 1 = C
        /\ \A k \in 1 .. C : 1 + k - 1 = k
        /\ IF 1 <= C THEN C - 1 + 1 = C ELSE C = 0
    BY <1>1
  <2> QED BY <1>3, <1>5, <2>1
<1>8. Len(Moved(s)) + Len(Remaining(s)) = N
  <2>1. Len(Remaining(s)) = N - C
    BY <1>1, <1>3, <1>6
  <2>2. C + (N - C) = N
    BY <1>1
  <2> QED BY <1>7, <2>1, <2>2
<1>9. Moved(s) \in Seq(Message) /\ Remaining(s) \in Seq(Message)
  BY <1>3, <1>5, <1>6
<1>10. \A k \in 1 .. Len(Remaining(s)) : Remaining(s)[k] = s.data_queue[C + k]
  <2>1. Len(Remaining(s)) = N - C
    BY <1>1, <1>3, <1>6
  <2>2. N - (C + 1) + 1 = N - C /\ \A k \in 1 .. N - C : C + 1 + k - 1 = C + k
    BY <1>1
  <2> QED BY <1>3, <1>6, <2>1, <2>2
<1> QED BY <1>7, <1>8, <1>9, <1>10 DEF N, C

LEMMA NewPacketType ==
    ASSUME NEW s \in SenderSession, NEW i \in Filled(s)
    PROVE  /\ NewPacket(s, i) \in Packet
           /\ Rank(s, i) \in 1 .. Len(Moved(s))
           /\ NewPacket(s, i) = create_rudp_packet("DATA", SeqAdd(s.seqno, Rank(s, i)),
                                                   Moved(s)[Rank(s, i)])
<1>1. /\ Rank(s, i) \in 1 .. Cardinality(Filled(s))
      /\ Cardinality(Filled(s)) \in Nat
      /\ Cardinality(Filled(s)) <= RUDP_WINDOW
  BY FlushCounts
<1>2. /\ Rank(s, i) \in 1 .. Len(Moved(s))
      /\ Moved(s)[Rank(s, i)] = s.data_queue[Rank(s, i)]
      /\ Moved(s)[Rank(s, i)] \in Message
  BY <1>1, QueueSplit
<1>3. s.seqno \in SeqNo /\ Rank(s, i) \in 0 .. SeqMod - 1
  BY <1>1, SessionAssumption, SeqModAssumption DEF SenderSession
<1> QED BY <1>2, <1>3, SeqArithmetic, PacketType DEF NewPacket

LEMMA FlushQueueType ==
    ASSUME NEW s \in SenderSession
    PROVE  LET t == FlushQueue(s)
           IN /\ t \in SenderSession
              /\ t.status = s.status
              /\ t.seqno = SeqAdd(s.seqno, Len(Moved(s)))
              /\ t.data_queue = Remaining(s)
              /\ t.syn_timeout_arg = s.syn_timeout_arg
              /\ \A i \in Slot : t.sliding_window[i] =
                    IF i \in Filled(s) THEN NewPacket(s, i) ELSE s.sliding_window[i]
              /\ NewPackets(s) \subseteq Packet
<1> DEFINE window == [i \in Slot |-> IF i \in Filled(s) THEN NewPacket(s, i)
                                     ELSE s.sliding_window[i]]
           attempts == [i \in Slot |-> IF i \in Filled(s) THEN 0
                                       ELSE s.retransmission_attempts[i]]
           args == [i \in Slot |-> IF i \in Filled(s) THEN NewPacket(s, i)
                                   ELSE s.data_timeout_arg[i]]
           seqno == SeqAdd(s.seqno, Cardinality(Filled(s)))
<1>1. \A i \in Filled(s) : NewPacket(s, i) \in Packet
  BY NewPacketType
<1>2. window \in [Slot -> Packet \cup {NULL}] /\ args \in [Slot -> Packet \cup {NULL}]
  BY <1>1 DEF SenderSession
<1>3. attempts \in [Slot -> 0 .. RUDP_MAXRETRANS]
  BY SessionAssumption DEF SenderSession
<1>4. seqno \in SeqNo /\ seqno = SeqAdd(s.seqno, Len(Moved(s)))
  <2>1. Cardinality(Filled(s)) \in 0 .. SeqMod - 1 /\ s.seqno \in SeqNo
    BY FlushCounts, SessionAssumption, SeqModAssumption DEF SenderSession
  <2> QED BY <2>1, SeqArithmetic, QueueSplit
<1>5. Remaining(s) \in Seq(Message)
  BY QueueSplit
<1>6. FlushQueue(s) = [s EXCEPT !.sliding_window = window,
                                !.retransmission_attempts = attempts,
                                !.data_timeout_arg = args,
                                !.data_queue = Remaining(s),
                                !.seqno = seqno]
  BY DEF FlushQueue, SenderSession
<1>7. \A i \in Slot : window[i] =
          IF i \in Filled(s) THEN NewPacket(s, i) ELSE s.sliding_window[i]
  OBVIOUS
<1> HIDE DEF window, attempts, args, seqno
<1>8. FlushQueue(s).sliding_window = window
  BY <1>6 DEF SenderSession
<1>9. NewPackets(s) \subseteq Packet
  BY <1>1 DEF NewPackets
<1> QED BY <1>2, <1>3, <1>4, <1>5, <1>6, <1>7, <1>8, <1>9, ZenonT(30) DEF SenderSession

-----------------------------------------------------------------------------
\* Opening, closing and counting attempts.
LEMMA OpenSessionType ==
    ASSUME NEW s \in SenderSession
    PROVE  LET t == OpenSession(s)
           IN /\ t \in SenderSession
              /\ t.status = "OPEN"
              /\ 613 \notin AsWritten => t.seqno = SeqAdd(s.seqno, Len(Moved(s)))
              /\ t.data_queue = Remaining(s)
              /\ t.syn_timeout_arg = s.syn_timeout_arg
              /\ \A i \in Slot : t.sliding_window[i] =
                    IF i \in Filled(s) THEN NewPacket(s, i) ELSE s.sliding_window[i]
<1> DEFINE f == FlushQueue(s)
           seqno == IF 613 \in AsWritten /\ Filled(s) # {} THEN 1 ELSE f.seqno
<1>1. f \in SenderSession
  BY FlushQueueType
<1>2. OpenSession(s) = [f EXCEPT !.status = "OPEN", !.seqno = seqno]
  BY <1>1 DEF OpenSession, SenderSession
<1>3. seqno \in SeqNo
  BY <1>1, SeqModAssumption DEF SenderSession, SeqNo
<1>4. 613 \notin AsWritten => seqno = SeqAdd(s.seqno, Len(Moved(s)))
  BY FlushQueueType
<1>5. /\ f.data_queue = Remaining(s)
      /\ f.syn_timeout_arg = s.syn_timeout_arg
      /\ \A i \in Slot : f.sliding_window[i] =
            IF i \in Filled(s) THEN NewPacket(s, i) ELSE s.sliding_window[i]
  BY FlushQueueType
<1> HIDE DEF f, seqno
<1>6. /\ OpenSession(s) \in SenderSession
      /\ OpenSession(s).status = "OPEN"
      /\ OpenSession(s).seqno = seqno
      /\ OpenSession(s).data_queue = f.data_queue
      /\ OpenSession(s).syn_timeout_arg = f.syn_timeout_arg
      /\ OpenSession(s).sliding_window = f.sliding_window
  BY <1>1, <1>2, <1>3 DEF SenderSession
<1> QED BY <1>4, <1>5, <1>6

LEMMA SendFinType ==
    ASSUME NEW s \in SenderSession
    PROVE  LET t == SendFin(s)
           IN /\ t \in SenderSession
              /\ FinPacket(s) \in Packet
              /\ t.status = "FIN_SENT"
              /\ t.seqno = SeqNext(s.seqno)
              /\ t.data_queue = s.data_queue
              /\ t.syn_timeout_arg = s.syn_timeout_arg
              /\ t.sliding_window = s.sliding_window
<1>1. s.seqno \in SeqNo /\ SeqNext(s.seqno) \in SeqNo
  BY SeqArithmetic, SeqModAssumption DEF SenderSession
<1>2. FinPacket(s) \in Packet
  BY <1>1, PacketType DEF FinPacket
<1> QED BY <1>1, <1>2 DEF SendFin, SenderSession

\* A refused packet costs the session a timeout argument and nothing else.
LEMMA UntimedType ==
    ASSUME NEW s \in SenderSession, NEW unsent
    PROVE  LET t == Untimed(s, unsent)
           IN /\ t \in SenderSession
              /\ t # NULL
              /\ t.status = s.status
              /\ t.seqno = s.seqno
              /\ t.data_queue = s.data_queue
              /\ t.sliding_window = s.sliding_window
              /\ t.session_finished = s.session_finished
<1> DEFINE t == Untimed(s, unsent)
           Kept(arg) == IF arg \in unsent THEN NULL ELSE arg
           args == [i \in Slot |-> Kept(s.data_timeout_arg[i])]
<1>1. /\ Kept(s.syn_timeout_arg) \in Packet \cup {NULL}
      /\ Kept(s.fin_timeout_arg) \in Packet \cup {NULL}
      /\ args \in [Slot -> Packet \cup {NULL}]
  BY DEF SenderSession
<1>2. t = [s EXCEPT !.syn_timeout_arg = Kept(s.syn_timeout_arg),
                    !.fin_timeout_arg = Kept(s.fin_timeout_arg),
                    !.data_timeout_arg = args]
  BY DEF Untimed
<1> HIDE DEF t, Kept, args
<1>3. /\ t \in SenderSession
      /\ t.status = s.status
      /\ t.seqno = s.seqno
      /\ t.data_queue = s.data_queue
      /\ t.sliding_window = s.sliding_window
      /\ t.session_finished = s.session_finished
  BY <1>1, <1>2 DEF SenderSession
<1> QED BY <1>3, NullAssumption DEF t

LEMMA CountAttemptType ==
    ASSUME NEW s \in SenderSession, NEW p \in Packet, RetriesLeft(s, p)
    PROVE  LET t == CountAttempt(s, p)
           IN /\ t \in SenderSession
              /\ t.status = s.status
              /\ t.seqno = s.seqno
              /\ t.data_queue = s.data_queue
              /\ t.syn_timeout_arg = s.syn_timeout_arg
              /\ t.sliding_window = s.sliding_window
<1>1. CASE p.type = "SYN"
  <2> DEFINE n == s.syn_retransmit_attempts + 1
  <2>1. n \in 0 .. RUDP_MAXRETRANS
    BY <1>1, SessionAssumption DEF RetriesLeft, Attempts, SenderSession
  <2>2. CountAttempt(s, p) = [s EXCEPT !.syn_retransmit_attempts = n]
    BY <1>1 DEF CountAttempt
  <2> HIDE DEF n
  <2> QED BY <2>1, <2>2 DEF SenderSession
<1>2. CASE p.type = "FIN"
  <2> DEFINE n == s.fin_retransmit_attempts + 1
  <2>1. n \in 0 .. RUDP_MAXRETRANS
    BY <1>2, SessionAssumption DEF RetriesLeft, Attempts, SenderSession
  <2>2. CountAttempt(s, p) = [s EXCEPT !.fin_retransmit_attempts = n]
    BY <1>2 DEF CountAttempt
  <2> HIDE DEF n
  <2> QED BY <2>1, <2>2 DEF SenderSession
<1>3. CASE p.type \notin {"SYN", "FIN"}
  <2> DEFINE i == CHOOSE i \in SlotsOf(s, p) : TRUE
             attempts == [s.retransmission_attempts EXCEPT ![i] = @ + 1]
  <2>1. Attempts(s, p) = s.retransmission_attempts[i]
    BY <1>3 DEF Attempts
  <2>2. CountAttempt(s, p) = [s EXCEPT !.retransmission_attempts = attempts]
    BY <1>3 DEF CountAttempt
  <2> HIDE DEF i
  <2>3. s.retransmission_attempts[i] < RUDP_MAXRETRANS
    BY <2>1 DEF RetriesLeft
  <2>4. attempts \in [Slot -> 0 .. RUDP_MAXRETRANS]
    <3>1. s.retransmission_attempts \in [Slot -> 0 .. RUDP_MAXRETRANS]
      BY DEF SenderSession
    <3>2. \A j \in Slot : attempts[j] \in 0 .. RUDP_MAXRETRANS
      BY <2>3, <3>1, SessionAssumption
    <3> QED BY <3>1, <3>2
  <2> HIDE DEF attempts
  <2> QED BY <2>2, <2>4 DEF SenderSession
<1> QED BY <1>1, <1>2, <1>3

-----------------------------------------------------------------------------
(***************************************************************************)
(* A session and its stream.  Every operation on a session keeps Matches,  *)
(* with one more message numbered or acknowledged where it says so.        *)
(***************************************************************************)
LEMMA SeqSteps ==
    ASSUME NEW x \in SeqNo, NEW k \in Nat, k + 1 < SeqMod
    PROVE  /\ SeqNext(SeqAdd(x, k)) = SeqAdd(x, k + 1)
           /\ SeqPrev(SeqAdd(x, k + 1)) = SeqAdd(x, k)
BY SeqModAssumption DEF SeqNo, SeqAdd, SeqSub, SeqNext, SeqPrev

LEMMA DataPacketType ==
    ASSUME NEW x \in SeqNo, NEW str \in Seq(Message), Len(str) <= MaxSend,
           NEW k \in 1 .. Len(str)
    PROVE  /\ DataPacket(x, str, k) \in Packet
           /\ DataPacket(x, str, k) # NULL
           /\ DataPacket(x, str, k).type = "DATA"
           /\ DataPacket(x, str, k).seqno = SeqAdd(x, k)
           /\ DataPacket(x, str, k).payload = str[k]
<1>1. Len(str) \in Nat /\ k \in 0 .. SeqMod - 1
  <2>1. Len(str) \in Nat
    BY LenProperties
  <2> QED BY <2>1, SessionAssumption, SeqModAssumption
<1>2. SeqAdd(x, k) \in SeqNo /\ str[k] \in Message
  BY <1>1, SeqArithmetic, ElementOfSeq
<1>3. DataPacket(x, str, k) \in Packet
  BY <1>2, PacketType DEF DataPacket
<1> QED BY <1>3, NullAssumption DEF DataPacket, create_rudp_packet

LEMMA WindowFacts ==
    ASSUME NEW s \in SenderSession, NEW x \in SeqNo, NEW str \in Seq(Message),
           Len(str) <= MaxSend, NEW b \in Nat, Matches(s, x, str, b)
    PROVE  /\ Len(str) \in Nat
           /\ b \in 0 .. Len(str)
           /\ Len(str) - b \in 0 .. RUDP_WINDOW
           /\ \A i \in Slot : s.sliding_window[i] = NULL <=> i >= Len(str) - b
           /\ \A k \in b + 1 .. Len(str) :
                 /\ k - b - 1 \in Slot
                 /\ s.sliding_window[k - b - 1] = DataPacket(x, str, k)
           /\ Free(s) = Len(str) - b .. RUDP_WINDOW - 1
<1> DEFINE L == Len(str)
<1>1. L \in Nat
  BY LenProperties
<1>2. b \in 0 .. L /\ L - b <= RUDP_WINDOW
  BY DEF Matches
<1>3. L - b \in 0 .. RUDP_WINDOW
  BY <1>1, <1>2, SessionAssumption
<1>4. \A i \in Slot : s.sliding_window[i] = NULL <=> i >= L - b
  <2> SUFFICES ASSUME NEW i \in Slot
               PROVE  s.sliding_window[i] = NULL <=> i >= L - b
    OBVIOUS
  <2>1. s.sliding_window[i] = IF b + i < L THEN DataPacket(x, str, b + i + 1) ELSE NULL
    BY DEF Matches
  <2>2. i \in Nat
    BY DEF Slot
  <2>3. CASE b + i < L
    <3>1. b + i + 1 \in 1 .. L
      BY <1>1, <1>2, <2>2, <2>3
    <3>2. DataPacket(x, str, b + i + 1) # NULL
      BY <3>1, DataPacketType
    <3>3. ~ (i >= L - b)
      BY <1>1, <1>2, <2>2, <2>3
    <3> QED BY <2>1, <2>3, <3>2, <3>3
  <2>4. CASE ~ (b + i < L)
    <3>1. i >= L - b
      BY <1>1, <1>2, <2>2, <2>4
    <3> QED BY <2>1, <2>4, <3>1
  <2> QED BY <2>3, <2>4
<1>5. ASSUME NEW k \in b + 1 .. L
      PROVE  k - b - 1 \in Slot /\ s.sliding_window[k - b - 1] = DataPacket(x, str, k)
  <2> DEFINE i == k - b - 1
  <2>1. i \in Slot /\ b + i < L /\ b + i + 1 = k
    BY <1>1, <1>2, SessionAssumption DEF Slot
  <2> HIDE DEF i
  <2>2. s.sliding_window[i] = DataPacket(x, str, b + i + 1)
    BY <2>1 DEF Matches
  <2> QED BY <2>1, <2>2 DEF i
<1>6. Free(s) = L - b .. RUDP_WINDOW - 1
  BY <1>3, <1>4, SessionAssumption DEF Free, Slot
<1> QED BY <1>1, <1>2, <1>3, <1>4, <1>5, <1>6

(***************************************************************************)
(* The window slides: one more message is acknowledged.                    *)
(***************************************************************************)
LEMMA ShiftMatches ==
    ASSUME NEW s \in SenderSession, NEW x \in SeqNo, NEW str \in Seq(Message),
           Len(str) <= MaxSend, NEW b \in Nat, Matches(s, x, str, b),
           s.status = "OPEN", s.sliding_window[0] # NULL
    PROVE  LET u == ShiftWindow(s) IN
           /\ b + 1 \in 0 .. Len(str)
           /\ s.sliding_window[0] = DataPacket(x, str, b + 1)
           /\ u.session_finished = s.session_finished
           /\ Matches(u, x, str, b + 1)
           /\ \A k \in b + 2 .. Len(str) :
                 u.data_timeout_arg[k - (b + 1) - 1] = s.data_timeout_arg[k - b - 1]
<1> DEFINE L == Len(str)
           window == [i \in Slot |-> IF i = RUDP_WINDOW - 1 THEN NULL
                                     ELSE s.sliding_window[i + 1]]
           attempts == [i \in Slot |-> IF i = RUDP_WINDOW - 1 THEN 0
                                       ELSE s.retransmission_attempts[i + 1]]
           args == [i \in Slot |-> IF i = RUDP_WINDOW - 1 THEN NULL
                                   ELSE s.data_timeout_arg[i + 1]]
           u == [s EXCEPT !.sliding_window = window,
                          !.retransmission_attempts = attempts,
                          !.data_timeout_arg = args]
<1>1. ShiftWindow(s) = u
  BY DEF ShiftWindow, SenderSession
<1>2. /\ u.sliding_window = window
      /\ u.data_timeout_arg = args
      /\ u.status = "OPEN" /\ u.seqno = s.seqno /\ u.session_finished = s.session_finished
  <2> HIDE DEF window, attempts, args
  <2> QED BY DEF SenderSession
<1>3. L \in Nat /\ b \in 0 .. L /\ L - b \in 0 .. RUDP_WINDOW /\ 0 \in Slot
      /\ (s.sliding_window[0] = NULL <=> 0 >= L - b)
  <2>1. 0 \in Slot
    BY SessionAssumption DEF Slot
  <2> QED BY <2>1, WindowFacts
<1>4. b + 1 \in 0 .. L /\ L - (b + 1) <= RUDP_WINDOW
  BY <1>3, SessionAssumption
<1>5. s.sliding_window[0] = DataPacket(x, str, b + 1)
  <2>1. b + 1 \in b + 1 .. L /\ b + 1 - b - 1 = 0
    BY <1>3, <1>4
  <2> QED BY <2>1, WindowFacts, SMTT(30)
<1>6. ASSUME NEW i \in Slot
      PROVE  /\ window[i] = IF b + 1 + i < L THEN DataPacket(x, str, b + 1 + i + 1) ELSE NULL
             /\ ArgOf(args[i], window[i])
  <2>1. i \in Nat /\ i <= RUDP_WINDOW - 1
    BY SessionAssumption DEF Slot
  <2>2. CASE i = RUDP_WINDOW - 1
    <3>1. ~ (b + 1 + i < L)
      BY <1>3, <2>1, <2>2, SessionAssumption
    <3> QED BY <2>2, <3>1 DEF ArgOf
  <2>3. CASE i # RUDP_WINDOW - 1
    <3>1. i + 1 \in Slot /\ b + (i + 1) = b + 1 + i /\ b + (i + 1) + 1 = b + 1 + i + 1
      BY <1>3, <2>1, <2>3, SessionAssumption DEF Slot
    <3>2. /\ s.sliding_window[i + 1]
                = IF b + (i + 1) < L THEN DataPacket(x, str, b + (i + 1) + 1) ELSE NULL
          /\ ArgOf(s.data_timeout_arg[i + 1], s.sliding_window[i + 1])
      BY <3>1 DEF Matches
    <3>3. window[i] = s.sliding_window[i + 1] /\ args[i] = s.data_timeout_arg[i + 1]
      BY <2>3
    <3> QED BY <3>1, <3>2, <3>3
  <2> QED BY <2>2, <2>3
<1>7. s.seqno = SeqAdd(x, L) /\ ~ s.session_finished
  BY DEF Matches
<1>8. ASSUME NEW k \in b + 2 .. L
      PROVE  args[k - (b + 1) - 1] = s.data_timeout_arg[k - b - 1]
  <2> DEFINE i == k - (b + 1) - 1
  <2>1. i \in Slot /\ i # RUDP_WINDOW - 1 /\ i + 1 = k - b - 1
    BY <1>3, SessionAssumption DEF Slot
  <2> HIDE DEF i
  <2>2. args[i] = s.data_timeout_arg[i + 1]
    BY <2>1
  <2> QED BY <2>1, <2>2 DEF i
<1> HIDE DEF window, attempts, args, u
<1>9. Matches(u, x, str, b + 1)
  BY <1>2, <1>4, <1>6, <1>7 DEF Matches
<1> QED BY <1>1, <1>2, <1>4, <1>5, <1>8, <1>9

\* The flush fills the slots right behind the packets of the window.
LEMMA FlushInterval ==
    ASSUME NEW s \in SenderSession, NEW x \in SeqNo, NEW str \in Seq(Message),
           Len(str) <= MaxSend, NEW b \in Nat, Matches(s, x, str, b)
    PROVE  LET l == Len(str) - b
               C == Len(Moved(s))
           IN /\ C \in Nat
              /\ l + C <= RUDP_WINDOW
              /\ \A i \in Slot : i \in Filled(s) <=> (l <= i /\ i < l + C)
              /\ \A i \in Filled(s) : Rank(s, i) = i - l + 1
<1> DEFINE l == Len(str) - b
           N == Len(s.data_queue)
           W == RUDP_WINDOW
           top == IF l + N < W THEN l + N - 1 ELSE W - 1
<1>1. /\ l \in Nat /\ l <= W /\ W \in Nat /\ W > 0
      /\ Free(s) = l .. W - 1
      /\ \A i \in Slot : s.sliding_window[i] = NULL <=> i >= l
  BY WindowFacts, SessionAssumption
<1>2. N \in Nat
  BY DEF SenderSession
<1> HIDE DEF l, N
<1>3. Room(s) = l .. W - 1
  <2>1. W - 1 \in Slot
    BY <1>1 DEF Slot
  <2>2. CASE s.sliding_window[W - 1] = NULL
    BY <1>1, <2>2 DEF Room
  <2>3. CASE s.sliding_window[W - 1] # NULL
    <3>1. ~ (W - 1 >= l)
      BY <1>1, <2>1, <2>3
    <3>2. l .. W - 1 = {}
      BY <1>1, <3>1
    <3> QED BY <2>3, <3>2 DEF Room
  <2> QED BY <2>2, <2>3
<1>4. ASSUME NEW i \in Room(s) PROVE Rank(s, i) = i - l + 1
  <2>1. i \in l .. W - 1 /\ i \in Nat
    BY <1>1, <1>3
  <2>2. {j \in Room(s) : j <= i} = l .. i
    BY <1>1, <1>3, <2>1
  <2>3. Cardinality(l .. i) = i - l + 1
    BY <1>1, <2>1, FS_Interval
  <2> QED BY <2>2, <2>3 DEF Rank
<1>5. Filled(s) = l .. top
  <2>1. Filled(s) = {i \in l .. W - 1 : i - l + 1 <= N}
    BY <1>3, <1>4 DEF Filled, N
  <2> QED BY <1>1, <1>2, <2>1
<1>6. top \in Int /\ top >= l - 1 /\ top <= W - 1
  BY <1>1, <1>2
<1> HIDE DEF top
<1>7. Cardinality(Filled(s)) = top - l + 1
  <2>1. CASE top >= l
    <3>1. l \in Int /\ top \in Int
      BY <1>1, <1>6
    <3>2. Cardinality(l .. top) = IF l > top THEN 0 ELSE top - l + 1
      BY <3>1, FS_Interval
    <3>3. ~ (l > top)
      BY <2>1, <3>1
    <3> QED BY <1>5, <3>2, <3>3
  <2>2. CASE top = l - 1
    <3>1. l .. top = {}
      BY <1>1, <2>2
    <3>2. Cardinality(Filled(s)) = 0
      BY <1>5, <3>1, FS_EmptySet
    <3> QED BY <1>1, <2>2, <3>2
  <2> QED BY <1>1, <1>6, <2>1, <2>2
<1>8. Len(Moved(s)) = top - l + 1
  BY <1>7, QueueSplit
<1>9. /\ top - l + 1 \in Nat
      /\ l + (top - l + 1) <= W
      /\ \A i \in Slot : i \in l .. top <=> (l <= i /\ i < l + (top - l + 1))
  BY <1>1, <1>6 DEF Slot
<1>10. Filled(s) \subseteq Room(s)
  BY DEF Filled
<1> QED BY <1>4, <1>5, <1>8, <1>9, <1>10 DEF l

\* The messages of a stream keep their packets when it grows.
LEMMA StreamConcat ==
    ASSUME NEW old \in Seq(Message), NEW new \in Seq(Message)
    PROVE  /\ old \o new \in Seq(Message)
           /\ Len(old \o new) = Len(old) + Len(new)
           /\ \A k \in 1 .. Len(old) : (old \o new)[k] = old[k]
           /\ \A k \in 1 .. Len(new) : (old \o new)[Len(old) + k] = new[k]
<1>1. Len(old) \in Nat /\ Len(new) \in Nat
  BY LenProperties
<1>2. /\ old \o new \in Seq(Message)
      /\ Len(old \o new) = Len(old) + Len(new)
      /\ \A i \in 1 .. Len(old) + Len(new) :
            (old \o new)[i] = IF i <= Len(old) THEN old[i] ELSE new[i - Len(old)]
  BY ConcatProperties
<1>3. \A k \in 1 .. Len(old) : (old \o new)[k] = old[k]
  BY <1>1, <1>2
<1>4. ASSUME NEW k \in 1 .. Len(new) PROVE (old \o new)[Len(old) + k] = new[k]
  <2>1. /\ Len(old) + k \in 1 .. Len(old) + Len(new)
        /\ ~ (Len(old) + k <= Len(old))
        /\ Len(old) + k - Len(old) = k
    BY <1>1
  <2> QED BY <1>2, <2>1
<1> QED BY <1>2, <1>3, <1>4

(***************************************************************************)
(* The session opens or goes on: what leaves the queue is numbered, behind *)
(* the window's packets, and every new packet has its timeout argument.    *)
(***************************************************************************)
LEMMA OpenMatches ==
    ASSUME NEW s \in SenderSession, NEW x \in SeqNo, NEW str \in Seq(Message),
           NEW b \in Nat, Len(str) <= MaxSend, Matches(s, x, str, b),
           s.status # "FIN_SENT", 613 \notin AsWritten,
           Len(str) + Len(s.data_queue) <= MaxSend
    PROVE  LET v == OpenSession(s)
               str2 == str \o Moved(s)
           IN /\ str2 \in Seq(Message)
              /\ Len(str2) = Len(str) + Len(Moved(s))
              /\ Len(str2) <= MaxSend
              /\ \A k \in 1 .. Len(str) : str2[k] = str[k]
              /\ Matches(v, x, str2, b)
              /\ NewPackets(s) = {DataPacket(x, str2, k) : k \in Len(str) + 1 .. Len(str2)}
              /\ \A k \in b + 1 .. Len(str) :
                    v.data_timeout_arg[k - b - 1] = s.data_timeout_arg[k - b - 1]
              /\ \A k \in Len(str) + 1 .. Len(str2) :
                    v.data_timeout_arg[k - b - 1] = DataPacket(x, str2, k)
              /\ v.session_finished = s.session_finished
              /\ v.fin_timeout_arg = s.fin_timeout_arg
<1> DEFINE v == OpenSession(s)
           q == Moved(s)
           C == Len(q)
           L == Len(str)
           l == L - b
           str2 == str \o q
           window == [i \in Slot |-> IF i \in Filled(s) THEN NewPacket(s, i)
                                     ELSE s.sliding_window[i]]
           args == [i \in Slot |-> IF i \in Filled(s) THEN NewPacket(s, i)
                                   ELSE s.data_timeout_arg[i]]
<1>1. /\ L \in Nat /\ b \in 0 .. L /\ l \in Nat /\ C \in Nat /\ l + C <= RUDP_WINDOW
      /\ \A i \in Slot : i \in Filled(s) <=> (l <= i /\ i < l + C)
      /\ \A i \in Filled(s) : Rank(s, i) = i - l + 1
  BY WindowFacts, FlushInterval
<1>2. /\ q \in Seq(Message)
      /\ C <= Len(s.data_queue)
  <2>1. /\ q \in Seq(Message) /\ Remaining(s) \in Seq(Message)
        /\ C + Len(Remaining(s)) = Len(s.data_queue)
    BY QueueSplit
  <2>2. Len(Remaining(s)) \in Nat
    BY <2>1, LenProperties
  <2> QED BY <1>1, <2>1, <2>2
<1>3. /\ str2 \in Seq(Message)
      /\ Len(str2) = L + C
      /\ \A k \in 1 .. L : str2[k] = str[k]
      /\ \A k \in 1 .. C : str2[L + k] = q[k]
  BY <1>2, StreamConcat
<1>4. L + C <= MaxSend /\ L + C + 2 < SeqMod
  <2>1. Len(s.data_queue) \in Nat
    BY DEF SenderSession
  <2> QED BY <1>1, <1>2, <2>1, SessionAssumption, SeqModAssumption
<1>5. s.seqno = SeqAdd(x, L) /\ ~ s.session_finished
  BY DEF Matches
<1>6. Filled(s) \subseteq Slot
  BY FlushCounts
<1>7. /\ v.sliding_window = window
      /\ v.data_timeout_arg = args
      /\ v.status = "OPEN"
      /\ v.seqno = SeqAdd(s.seqno, C)
      /\ v.session_finished = s.session_finished
      /\ v.fin_timeout_arg = s.fin_timeout_arg
  <2> DEFINE attempts == [i \in Slot |-> IF i \in Filled(s) THEN 0
                                         ELSE s.retransmission_attempts[i]]
             n == SeqAdd(s.seqno, C)
  <2>1. C = Cardinality(Filled(s))
    BY QueueSplit
  <2>2. v = [[s EXCEPT !.sliding_window = window,
                       !.retransmission_attempts = attempts,
                       !.data_timeout_arg = args,
                       !.data_queue = Remaining(s),
                       !.seqno = n] EXCEPT !.status = "OPEN", !.seqno = n]
    BY <2>1 DEF OpenSession, FlushQueue, SenderSession
  <2> HIDE DEF window, attempts, args, n, v
  <2>3. /\ v.sliding_window = window /\ v.data_timeout_arg = args
        /\ v.status = "OPEN" /\ v.seqno = n
        /\ v.session_finished = s.session_finished
        /\ v.fin_timeout_arg = s.fin_timeout_arg
    BY <2>2 DEF SenderSession
  <2> QED BY <2>3 DEF n
<1>8. v.seqno = SeqAdd(x, L + C)
  <2>1. L + C < SeqMod
    BY <1>1, <1>4, SeqModAssumption
  <2> QED BY <1>1, <1>5, <1>7, <2>1, SeqAddition
<1>9. ASSUME NEW i \in Filled(s)
      PROVE  /\ b + i + 1 \in L + 1 .. L + C
             /\ NewPacket(s, i) = DataPacket(x, str2, b + i + 1)
  <2> DEFINE r == Rank(s, i)
  <2>1. i \in Slot /\ r = i - l + 1 /\ i \in Int
    BY <1>1, <1>6 DEF Slot
  <2>2. r \in 1 .. C /\ r \in Nat /\ L + r = b + i + 1 /\ b + i + 1 \in L + 1 .. L + C
    BY <1>1, <2>1
  <2>3. NewPacket(s, i) = create_rudp_packet("DATA", SeqAdd(s.seqno, r), q[r])
    BY NewPacketType
  <2>4. L + r < SeqMod
    BY <1>1, <1>4, <2>2, SeqModAssumption
  <2>5. SeqAdd(s.seqno, r) = SeqAdd(x, L + r)
    BY <1>1, <1>5, <2>2, <2>4, SeqAddition
  <2>6. str2[L + r] = q[r]
    BY <1>3, <2>2
  <2> HIDE DEF r, str2, q
  <2> QED BY <2>2, <2>3, <2>5, <2>6 DEF DataPacket
<1>10. \A k \in 1 .. L : DataPacket(x, str2, k) = DataPacket(x, str, k)
  BY <1>3 DEF DataPacket
<1>11. ASSUME NEW i \in Slot
       PROVE  /\ window[i] = IF b + i < L + C THEN DataPacket(x, str2, b + i + 1) ELSE NULL
              /\ ArgOf(args[i], window[i])
  <2>1. i \in Nat
    BY DEF Slot
  <2>2. CASE i \in Filled(s)
    <3>1. b + i < L + C
      BY <1>1, <1>9, <2>1, <2>2
    <3> QED BY <1>9, <2>2, <3>1 DEF ArgOf
  <2>3. CASE i \notin Filled(s)
    <3>1. window[i] = s.sliding_window[i] /\ args[i] = s.data_timeout_arg[i]
      BY <2>3
    <3>2. /\ s.sliding_window[i] = IF b + i < L THEN DataPacket(x, str, b + i + 1) ELSE NULL
          /\ ArgOf(s.data_timeout_arg[i], s.sliding_window[i])
      BY DEF Matches
    <3>3. b + i < L + C <=> b + i < L
      BY <1>1, <2>1, <2>3
    <3>4. b + i < L => b + i + 1 \in 1 .. L
      BY <1>1, <2>1
    <3> HIDE DEF window, args, str2
    <3> QED BY <1>10, <3>1, <3>2, <3>3, <3>4
  <2> QED BY <2>2, <2>3
<1>12. ASSUME NEW k \in L + 1 .. L + C
       PROVE  /\ k - b - 1 \in Filled(s)
              /\ b + (k - b - 1) + 1 = k
  <2>1. k - b - 1 \in Slot
    BY <1>1, SessionAssumption DEF Slot
  <2> QED BY <1>1, <2>1
<1>13. NewPackets(s) = {DataPacket(x, str2, k) : k \in L + 1 .. L + C}
  <2> HIDE DEF str2, q, l
  <2>1. NewPackets(s) \subseteq {DataPacket(x, str2, k) : k \in L + 1 .. L + C}
    BY <1>9 DEF NewPackets
  <2>2. ASSUME NEW k \in L + 1 .. L + C PROVE DataPacket(x, str2, k) \in NewPackets(s)
    <3>1. NewPacket(s, k - b - 1) = DataPacket(x, str2, k)
      BY <1>9, <1>12
    <3> QED BY <1>12, <3>1 DEF NewPackets
  <2> QED BY <2>1, <2>2
<1>14. ASSUME NEW k \in b + 1 .. L PROVE args[k - b - 1] = s.data_timeout_arg[k - b - 1]
  <2> DEFINE i == k - b - 1
  <2>1. i \in Slot
    BY <1>1, SessionAssumption DEF Slot
  <2>2. ~ (l <= i)
    BY <1>1
  <2> HIDE DEF i
  <2> QED BY <1>1, <2>1, <2>2 DEF i
<1>15. ASSUME NEW k \in L + 1 .. L + C PROVE args[k - b - 1] = DataPacket(x, str2, k)
  <2> DEFINE i == k - b - 1
  <2>1. i \in Filled(s) /\ b + i + 1 = k
    BY <1>12
  <2> HIDE DEF i, str2
  <2>2. NewPacket(s, i) = DataPacket(x, str2, k)
    BY <1>9, <2>1
  <2> QED BY <1>6, <2>1, <2>2 DEF i
<1> HIDE DEF v, window, args, str2, q
<1>16. Matches(v, x, str2, b)
  <2>1. b \in 0 .. L + C /\ L + C - b <= RUDP_WINDOW
    BY <1>1
  <2> QED BY <1>3, <1>5, <1>7, <1>8, <1>11, <2>1 DEF Matches
<1> QED BY <1>3, <1>4, <1>7, <1>13, <1>14, <1>15, <1>16 DEF v, str2, q

\* No message gets lost between the queue and the window.
LEMMA OpenKeeps ==
    ASSUME NEW s \in SenderSession, NEW str \in Seq(Message), NEW h,
           AllKept(s, str, h), NEW v, v.data_queue = Remaining(s)
    PROVE  AllKept(v, str \o Moved(s), h)
<1> DEFINE q == Moved(s)
           r == Remaining(s)
           d == s.data_queue
<1>1. /\ q \in Seq(Message) /\ r \in Seq(Message) /\ d \in Seq(Message)
      /\ Len(q) + Len(r) = Len(d)
      /\ \A k \in 1 .. Len(q) : q[k] = d[k]
      /\ \A k \in 1 .. Len(r) : r[k] = d[Len(q) + k]
  BY QueueSplit DEF SenderSession
<1>2. Len(q) \in Nat /\ Len(r) \in Nat /\ Len(d) \in Nat /\ Len(str) \in Nat
  BY <1>1, LenProperties
<1>3. /\ Len(str \o q) = Len(str) + Len(q)
      /\ \A k \in 1 .. Len(str) : (str \o q)[k] = str[k]
      /\ \A k \in 1 .. Len(q) : (str \o q)[Len(str) + k] = q[k]
  BY <1>1, StreamConcat
<1> HIDE DEF q, r, d
<1> SUFFICES ASSUME NEW k \in 1 .. h
             PROVE  \/ \E i \in 1 .. Len(str \o q) : (str \o q)[i] = k
                    \/ \E i \in 1 .. Len(r) : r[i] = k
  BY DEF AllKept, q, r
<1>4. CASE \E i \in 1 .. Len(str) : str[i] = k
  <2>1. PICK i \in 1 .. Len(str) : str[i] = k
    BY <1>4
  <2>2. i \in 1 .. Len(str \o q)
    BY <1>2, <1>3
  <2> QED BY <1>3, <2>1, <2>2
<1>5. CASE \E i \in 1 .. Len(d) : d[i] = k
  <2>1. PICK i \in 1 .. Len(d) : d[i] = k
    BY <1>5
  <2>2. CASE i <= Len(q)
    <3>1. i \in 1 .. Len(q) /\ Len(str) + i \in 1 .. Len(str \o q)
      BY <1>2, <1>3, <2>1, <2>2
    <3> QED BY <1>1, <1>3, <2>1, <3>1
  <2>3. CASE i > Len(q)
    <3>1. i - Len(q) \in 1 .. Len(r) /\ Len(q) + (i - Len(q)) = i
      BY <1>1, <1>2, <2>1, <2>3
    <3> QED BY <1>1, <2>1, <3>1
  <2> QED BY <1>2, <2>1, <2>2, <2>3
<1> QED BY <1>4, <1>5 DEF AllKept, d

\* Without a change of status the flush is what opens a session.
LEMMA FlushIsOpen ==
    ASSUME NEW s \in SenderSession, s.status = "OPEN", 613 \notin AsWritten
    PROVE  OpenSession(s) = FlushQueue(s)
<1> DEFINE f == FlushQueue(s)
<1>1. f \in SenderSession /\ f.status = "OPEN"
  BY FlushQueueType
<1>2. OpenSession(s) = [f EXCEPT !.status = "OPEN", !.seqno = f.seqno]
  BY <1>1 DEF OpenSession, SenderSession
<1> HIDE DEF f
<1>3. [f EXCEPT !.status = "OPEN", !.seqno = f.seqno] = f
  BY <1>1 DEF SenderSession
<1> QED BY <1>2, <1>3 DEF f

\* The FIN takes the number after the last message, once all are acknowledged.
LEMMA FinMatches ==
    ASSUME NEW s \in SenderSession, NEW x \in SeqNo, NEW str \in Seq(Message),
           NEW b \in Nat, Len(str) <= MaxSend, Matches(s, x, str, b), Drained(s)
    PROVE  LET t == SendFin(s) IN
           /\ b = Len(str)
           /\ Matches(t, x, str, b)
           /\ t.data_timeout_arg = s.data_timeout_arg
           /\ t.fin_timeout_arg = create_rudp_packet("FIN", t.seqno, NoPayload)
           /\ FinPacket(s) = t.fin_timeout_arg
           /\ ~ t.session_finished
<1> DEFINE L == Len(str)
           t == SendFin(s)
<1>1. /\ L \in Nat /\ b \in 0 .. L /\ 0 \in Slot
      /\ (s.sliding_window[0] = NULL <=> 0 >= L - b)
  <2>1. 0 \in Slot
    BY SessionAssumption DEF Slot
  <2> QED BY <2>1, WindowFacts
<1>2. b = L
  BY <1>1 DEF Drained
<1>3. s.seqno = SeqAdd(x, L) /\ ~ s.session_finished
  BY DEF Matches, Drained
<1>4. SeqNext(s.seqno) = SeqAdd(x, L + 1)
  <2>1. L + 1 < SeqMod
    BY <1>1, SessionAssumption, SeqModAssumption
  <2> QED BY <1>1, <1>3, <2>1, SeqSteps
<1>5. /\ t.status = "FIN_SENT" /\ t.seqno = SeqNext(s.seqno)
      /\ t.fin_timeout_arg = create_rudp_packet("FIN", SeqNext(s.seqno), NoPayload)
      /\ FinPacket(s) = create_rudp_packet("FIN", SeqNext(s.seqno), NoPayload)
      /\ t.sliding_window = s.sliding_window
      /\ t.data_timeout_arg = s.data_timeout_arg
      /\ t.session_finished = s.session_finished
  BY DEF SendFin, FinPacket, SenderSession
<1> HIDE DEF t
<1>6. /\ b \in 0 .. L /\ L - b <= RUDP_WINDOW
      /\ \A i \in Slot :
            /\ s.sliding_window[i] = IF b + i < L THEN DataPacket(x, str, b + i + 1) ELSE NULL
            /\ ArgOf(s.data_timeout_arg[i], s.sliding_window[i])
  BY DEF Matches
<1>7. Matches(t, x, str, b)
  BY <1>2, <1>4, <1>5, <1>6 DEF Matches, ArgOf
<1> QED BY <1>2, <1>3, <1>5, <1>7 DEF t

\* A message sent at once is numbered and takes the next slot.
LEMMA DirectMatches ==
    ASSUME NEW s \in SenderSession, NEW x \in SeqNo, NEW str \in Seq(Message),
           NEW b \in Nat, Len(str) < MaxSend, Matches(s, x, str, b), s.status = "OPEN",
           NEW i \in Free(s), \A j \in Free(s) : i <= j, NEW item \in Message
    PROVE  LET t == SendDirect(s, i, item)
               str2 == Append(str, item)
               p == DataPacket(x, str2, Len(str) + 1)
           IN /\ Matches(t, x, str2, b)
              /\ Len(str2) = Len(str) + 1
              /\ \A k \in 1 .. Len(str) : str2[k] = str[k]
              /\ t.sliding_window[i] = p
              /\ t.data_timeout_arg[Len(str2) - b - 1] = p
              /\ \A k \in b + 1 .. Len(str) :
                    t.data_timeout_arg[k - b - 1] = s.data_timeout_arg[k - b - 1]
<1> DEFINE L == Len(str)
           str2 == Append(str, item)
           p == DataPacket(x, str2, L + 1)
           q == create_rudp_packet("DATA", SeqNext(s.seqno), item)
           t == SendDirect(s, i, item)
<1>1. /\ L \in Nat /\ b \in 0 .. L /\ L - b \in 0 .. RUDP_WINDOW
      /\ Free(s) = L - b .. RUDP_WINDOW - 1
  <2>1. L \in Nat
    BY LenProperties
  <2>2. L <= MaxSend
    BY <2>1, SessionAssumption
  <2> QED BY <2>2, WindowFacts
<1>2. i = L - b /\ L + 1 - b <= RUDP_WINDOW /\ i \in Slot
  <2>1. i \in L - b .. RUDP_WINDOW - 1
    BY <1>1
  <2>2. L - b \in L - b .. RUDP_WINDOW - 1
    BY <1>1, <2>1, SessionAssumption
  <2>3. i <= L - b
    BY <1>1, <2>2
  <2> QED BY <1>1, <2>1, <2>3, SessionAssumption DEF Slot
<1>3. /\ str2 \in Seq(Message) /\ Len(str2) = L + 1
      /\ \A k \in 1 .. L : str2[k] = str[k]
      /\ str2[L + 1] = item
  BY <1>1, AppendProperties
<1>4. s.seqno = SeqAdd(x, L) /\ ~ s.session_finished
  BY DEF Matches
<1>5. SeqNext(s.seqno) = SeqAdd(x, L + 1)
  <2>1. L + 1 < SeqMod
    BY <1>1, SessionAssumption, SeqModAssumption
  <2> QED BY <1>1, <1>4, <2>1, SeqSteps
<1>6. q = p
  BY <1>3, <1>5 DEF DataPacket
<1>7. /\ t.sliding_window = [s.sliding_window EXCEPT ![i] = q]
      /\ t.data_timeout_arg = [s.data_timeout_arg EXCEPT ![i] = q]
      /\ t.status = "OPEN" /\ t.seqno = SeqNext(s.seqno)
      /\ t.session_finished = s.session_finished
  <2> HIDE DEF q
  <2> QED BY DEF SendDirect, PutPacket, SenderSession, q
<1>8. \A k \in 1 .. L : DataPacket(x, str2, k) = DataPacket(x, str, k)
  BY <1>3 DEF DataPacket
<1> HIDE DEF q, p, t, str2
<1>9. s.sliding_window \in [Slot -> Packet \cup {NULL}]
      /\ s.data_timeout_arg \in [Slot -> Packet \cup {NULL}]
  BY DEF SenderSession
<1>10. ASSUME NEW j \in Slot
       PROVE  /\ t.sliding_window[j]
                    = IF b + j < L + 1 THEN DataPacket(x, str2, b + j + 1) ELSE NULL
              /\ ArgOf(t.data_timeout_arg[j], t.sliding_window[j])
  <2>1. j \in Nat
    BY DEF Slot
  <2>2. CASE j = i
    <3>1. b + j = L /\ b + j < L + 1 /\ b + j + 1 = L + 1
      BY <1>1, <1>2, <2>1, <2>2
    <3> QED BY <1>6, <1>7, <1>9, <2>2, <3>1 DEF p, ArgOf
  <2>3. CASE j # i
    <3>1. /\ t.sliding_window[j] = s.sliding_window[j]
          /\ t.data_timeout_arg[j] = s.data_timeout_arg[j]
      BY <1>7, <1>9, <2>3
    <3>2. /\ s.sliding_window[j] = IF b + j < L THEN DataPacket(x, str, b + j + 1) ELSE NULL
          /\ ArgOf(s.data_timeout_arg[j], s.sliding_window[j])
      BY DEF Matches
    <3>3. (b + j < L + 1 <=> b + j < L) /\ (b + j < L => b + j + 1 \in 1 .. L)
      BY <1>1, <1>2, <2>1, <2>3
    <3> QED BY <1>8, <3>1, <3>2, <3>3
  <2> QED BY <2>2, <2>3
<1>11. Matches(t, x, str2, b)
  <2>1. b \in 0 .. L + 1
    BY <1>1
  <2> QED BY <1>2, <1>3, <1>4, <1>5, <1>7, <1>10, <2>1 DEF Matches
<1>12. ASSUME NEW k \in b + 1 .. L
       PROVE  t.data_timeout_arg[k - b - 1] = s.data_timeout_arg[k - b - 1]
  <2>1. k - b - 1 \in Slot /\ k - b - 1 # i
    BY <1>1, <1>2, SessionAssumption DEF Slot
  <2> QED BY <1>7, <1>9, <2>1
<1>13. L + 1 - b - 1 = i
  BY <1>1, <1>2
<1>14. t.sliding_window[i] = p /\ t.data_timeout_arg[Len(str2) - b - 1] = p
  <2>1. Len(str2) - b - 1 = i
    BY <1>1, <1>2, <1>3
  <2>2. t.sliding_window[i] = p /\ t.data_timeout_arg[i] = p
    BY <1>2, <1>6, <1>7, <1>9
  <2> QED BY <2>1, <2>2
<1> HIDE DEF L
<1> QED BY <1>3, <1>11, <1>12, <1>14 DEF t, str2, p, L

-----------------------------------------------------------------------------
(***************************************************************************)
(* A packet of the session that is sent, not acknowledged, and whose       *)
(* timeout argument is kept: what may be in flight or wait for a timeout.  *)
(***************************************************************************)
Timed(s, x, str, b, p) ==
    \/ \E k \in b + 1 .. Len(str) :
          p = DataPacket(x, str, k) /\ s.data_timeout_arg[k - b - 1] = p
    \/ /\ s.status = "SYN_SENT"
       /\ p = create_rudp_packet("SYN", s.seqno, NoPayload)
       /\ s.syn_timeout_arg = p
    \/ /\ s.status = "FIN_SENT" /\ ~ s.session_finished
       /\ p = create_rudp_packet("FIN", s.seqno, NoPayload)
       /\ s.fin_timeout_arg = p

LEMMA TimedType ==
    ASSUME NEW s \in SenderSession, NEW x \in SeqNo, NEW str \in Seq(Message),
           NEW b \in Nat, Len(str) <= MaxSend, NEW p, Timed(s, x, str, b, p)
    PROVE  p \in Packet /\ p # NULL
<1>1. ASSUME NEW k \in b + 1 .. Len(str) PROVE DataPacket(x, str, k) \in Packet
  <2>1. k \in 1 .. Len(str)
    BY LenProperties
  <2> QED BY <2>1, DataPacketType
<1>2. s.seqno \in SeqNo
  BY DEF SenderSession
<1>3. /\ create_rudp_packet("SYN", s.seqno, NoPayload) \in Packet
      /\ create_rudp_packet("FIN", s.seqno, NoPayload) \in Packet
  BY <1>2, PacketType
<1> QED BY <1>1, <1>3, NullAssumption DEF Timed

\* sendto refuses some of the packets that a session was to transmit.
LEMMA UntimedMatches ==
    ASSUME NEW s \in SenderSession, NEW x \in SeqNo, NEW str \in Seq(Message),
           NEW b \in Nat, Len(str) <= MaxSend, Matches(s, x, str, b),
           NEW unsent, SendtoFails \/ unsent = {},
           \A p \in unsent : Timed(s, x, str, b, p)
    PROVE  LET t == Untimed(s, unsent) IN
           /\ Matches(t, x, str, b)
           /\ \A p : Timed(s, x, str, b, p) /\ p \notin unsent => Timed(t, x, str, b, p)
           /\ \A k \in b + 1 .. Len(str) :
                 \/ t.data_timeout_arg[k - b - 1] = s.data_timeout_arg[k - b - 1]
                 \/ DataPacket(x, str, k) \in unsent
<1> DEFINE t == Untimed(s, unsent)
           Kept(arg) == IF arg \in unsent THEN NULL ELSE arg
           args == [i \in Slot |-> Kept(s.data_timeout_arg[i])]
<1>1. b \in Nat /\ Len(str) \in Nat /\ b <= Len(str)
  BY LenProperties DEF Matches
<1>2. \A p \in unsent : p # NULL
  BY <1>1, TimedType
<1>3. /\ t.syn_timeout_arg = Kept(s.syn_timeout_arg)
      /\ t.fin_timeout_arg = Kept(s.fin_timeout_arg)
      /\ t.data_timeout_arg = args
      /\ t.sliding_window = s.sliding_window
      /\ t.status = s.status
      /\ t.seqno = s.seqno
      /\ t.session_finished = s.session_finished
  <2>1. t = [s EXCEPT !.syn_timeout_arg = Kept(s.syn_timeout_arg),
                      !.fin_timeout_arg = Kept(s.fin_timeout_arg),
                      !.data_timeout_arg = args]
    BY DEF Untimed
  <2> HIDE DEF t, Kept, args
  <2> QED BY <2>1 DEF SenderSession
<1>4. \A i \in Slot : t.data_timeout_arg[i] = Kept(s.data_timeout_arg[i])
  BY <1>3
<1>5. \A arg, p : ArgOf(arg, p) => ArgOf(Kept(arg), p)
  BY DEF ArgOf
<1>6. \A p : p \notin unsent => Kept(p) = p
  OBVIOUS
<1>7. \A k \in b + 1 .. Len(str) :
         k - b - 1 \in Slot /\ ArgOf(s.data_timeout_arg[k - b - 1], DataPacket(x, str, k))
  <2>1. \A k \in b + 1 .. Len(str) :
           k - b - 1 \in Slot /\ s.sliding_window[k - b - 1] = DataPacket(x, str, k)
    BY WindowFacts
  <2> QED BY <2>1 DEF Matches
<1> HIDE DEF t, args
<1>8. Matches(t, x, str, b)
  <2> HIDE DEF Kept
  <2> QED BY <1>3, <1>4, <1>5 DEF Matches
<1>9. ASSUME NEW p, Timed(s, x, str, b, p), p \notin unsent PROVE Timed(t, x, str, b, p)
  <2>1. Timed(s, x, str, b, p) /\ Kept(p) = p
    BY <1>6, <1>9
  <2> HIDE DEF Kept
  <2> QED BY <1>3, <1>4, <1>7, <2>1 DEF Timed
<1>10. ASSUME NEW k \in b + 1 .. Len(str)
       PROVE  \/ t.data_timeout_arg[k - b - 1] = s.data_timeout_arg[k - b - 1]
              \/ DataPacket(x, str, k) \in unsent
  BY <1>2, <1>4, <1>7 DEF ArgOf
<1> QED BY <1>8, <1>9, <1>10 DEF t

-----------------------------------------------------------------------------
\* A new session has numbered nothing, and its SYN has a timeout argument.
LEMMA CreateMatches ==
    ASSUME NEW x \in SeqNo, NEW item \in Message
    PROVE  LET s == create_sender_session(x, item) IN
           /\ Matches(s, x, << >>, 0)
           /\ Timed(s, x, << >>, 0, s.syn_timeout_arg)
           /\ s.syn_timeout_arg = create_rudp_packet("SYN", x, NoPayload)
           /\ s.status = "SYN_SENT" /\ ~ s.session_finished
           /\ s.data_queue = <<item>>
<1> DEFINE s == create_sender_session(x, item)
<1>1. /\ s.status = "SYN_SENT" /\ s.seqno = x /\ ~ s.session_finished
      /\ s.sliding_window = [i \in Slot |-> NULL]
      /\ s.data_timeout_arg = [i \in Slot |-> NULL]
      /\ s.syn_timeout_arg = create_rudp_packet("SYN", x, NoPayload)
      /\ s.data_queue = <<item>>
  BY DEF create_sender_session
<1>2. SeqAdd(x, 0) = x
  BY SeqModAssumption DEF SeqNo, SeqAdd
<1>3. Len(<< >>) = 0 /\ 0 \in 0 .. 0 /\ 0 - 0 <= RUDP_WINDOW
  BY SessionAssumption
<1>4. \A i \in Slot : ~ (0 + i < 0)
  BY DEF Slot
<1> HIDE DEF s
<1>5. Matches(s, x, << >>, 0)
  BY <1>1, <1>2, <1>3, <1>4 DEF Matches, ArgOf
<1> QED BY <1>1, <1>5 DEF Timed, s

\* What changes neither the window nor the numbering.
LEMMA EnqueueMatches ==
    ASSUME NEW s \in SenderSession, NEW item \in Message
    PROVE  LET t == Enqueue(s, item) IN
           /\ t = [s EXCEPT !.data_queue = Append(s.data_queue, item)]
           /\ t \in SenderSession
           /\ t.data_queue = Append(s.data_queue, item)
           /\ t.status = s.status /\ t.seqno = s.seqno
           /\ t.session_finished = s.session_finished
           /\ t.sliding_window = s.sliding_window
           /\ t.data_timeout_arg = s.data_timeout_arg
           /\ t.syn_timeout_arg = s.syn_timeout_arg
           /\ t.fin_timeout_arg = s.fin_timeout_arg
BY EnqueueType DEF Enqueue, SenderSession

LEMMA CountFields ==
    ASSUME NEW s \in SenderSession, NEW p
    PROVE  LET t == CountAttempt(s, p) IN
           /\ t.status = s.status /\ t.seqno = s.seqno
           /\ t.data_queue = s.data_queue
           /\ t.session_finished = s.session_finished
           /\ t.sliding_window = s.sliding_window
           /\ t.data_timeout_arg = s.data_timeout_arg
           /\ t.syn_timeout_arg = s.syn_timeout_arg
           /\ t.fin_timeout_arg = s.fin_timeout_arg
BY DEF CountAttempt, SenderSession

LEMMA SameMatches ==
    ASSUME NEW s, NEW t, NEW x, NEW str, NEW b \in Nat,
           t.status = s.status, t.seqno = s.seqno,
           t.session_finished = s.session_finished \/ s.status = "FIN_SENT",
           t.sliding_window = s.sliding_window,
           t.data_timeout_arg = s.data_timeout_arg,
           t.syn_timeout_arg = s.syn_timeout_arg,
           t.fin_timeout_arg = s.fin_timeout_arg,
           Matches(s, x, str, b)
    PROVE  Matches(t, x, str, b)
BY DEF Matches

\* One more message is queued, none is forgotten.
LEMMA EnqueueKeeps ==
    ASSUME NEW s \in SenderSession, NEW str, NEW h \in Nat, h + 1 \in Message,
           AllKept(s, str, h)
    PROVE  AllKept(Enqueue(s, h + 1), str, h + 1)
<1> DEFINE d == s.data_queue
           d2 == Append(d, h + 1)
<1>1. d \in Seq(Message) /\ Enqueue(s, h + 1).data_queue = d2
  BY EnqueueMatches DEF SenderSession
<1>2. /\ Len(d) \in Nat /\ Len(d2) = Len(d) + 1
      /\ \A i \in 1 .. Len(d) : d2[i] = d[i]
      /\ d2[Len(d) + 1] = h + 1
  BY <1>1, AppendProperties, LenProperties
<1> HIDE DEF d, d2
<1>3. 1 .. Len(d) \subseteq 1 .. Len(d2) /\ Len(d) + 1 \in 1 .. Len(d2)
  BY <1>2
<1>4. \A k \in 1 .. h + 1 : k \in 1 .. h \/ k = h + 1
  OBVIOUS
<1> QED BY <1>1, <1>2, <1>3, <1>4 DEF AllKept, d

LEMMA DirectKeeps ==
    ASSUME NEW s, NEW t, t.data_queue = s.data_queue,
           NEW str \in Seq(Message), NEW h \in Nat, h + 1 \in Message,
           AllKept(s, str, h)
    PROVE  AllKept(t, Append(str, h + 1), h + 1)
<1> DEFINE str2 == Append(str, h + 1)
<1>1. /\ Len(str) \in Nat /\ Len(str2) = Len(str) + 1
      /\ \A i \in 1 .. Len(str) : str2[i] = str[i]
      /\ str2[Len(str) + 1] = h + 1
  BY AppendProperties, LenProperties
<1> HIDE DEF str2
<1>2. 1 .. Len(str) \subseteq 1 .. Len(str2) /\ Len(str) + 1 \in 1 .. Len(str2)
  BY <1>1
<1>3. \A k \in 1 .. h + 1 : k \in 1 .. h \/ k = h + 1
  OBVIOUS
<1> QED BY <1>1, <1>2, <1>3 DEF AllKept, str2

=============================================================================
