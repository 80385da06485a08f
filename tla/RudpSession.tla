---------------------------- MODULE RudpSession ----------------------------
(***************************************************************************)
(* The two halves of an RUDP session and what the handlers do to one of    *)
(* them: packets, the sender's window, its queue of unsent data and its    *)
(* timeout arguments.  Nothing here has state; Rudp.tla holds the sessions *)
(* of every socket and applies these operators to them.                    *)
(***************************************************************************)
EXTENDS RudpSeq, Sequences, FiniteSets

CONSTANTS
    NULL,             \* a null pointer
    RUDP_WINDOW,      \* slots of sliding_window
    RUDP_MAXRETRANS,  \* retransmissions before a packet is given up
    MaxSend,          \* messages an application hands to one session
    AsWritten,        \* source lines of rudp_with_ack.c taken to the letter
    SendtoFails       \* whether sendto may refuse a datagram

\* Lines of rudp_with_ack.c at which a single token contradicts its own
\* neighbourhood.  A line in AsWritten is modelled to the letter; otherwise
\* the statement is the one its sibling lines fix (README, "The reading").
SlipLine == {528, 551, 555, 613, 665}

\* All the messages of a session and its SYN and FIN have sequence numbers
\* of their own: a session is shorter than one cycle of the counter.  The
\* window is an array of at most half as many slots as there are numbers, so
\* that SEQ_LT tells a packet of the last window from one of the next.
ASSUME SessionAssumption ==
    /\ RUDP_WINDOW \in Nat \ {0}
    /\ RUDP_MAXRETRANS \in Nat
    /\ MaxSend \in Nat
    /\ MaxSend + 2 < SeqMod
    /\ 2 * RUDP_WINDOW <= SeqMod
    /\ AsWritten \subseteq SlipLine
    /\ SendtoFails \in BOOLEAN

Slot == 0 .. RUDP_WINDOW - 1

\* The k-th message an application hands to a session is called k.
Message == 1 .. MaxSend

NoPayload == 0

Packet == [type : {"DATA", "ACK", "SYN", "FIN"},
           seqno : SeqNo,
           payload : Message \cup {NoPayload}]

SenderSession ==
    [status : {"SYN_SENT", "OPEN", "FIN_SENT"},
     seqno : SeqNo,
     sliding_window : [Slot -> Packet \cup {NULL}],
     retransmission_attempts : [Slot -> 0 .. RUDP_MAXRETRANS],
     data_queue : Seq(Message),
     session_finished : BOOLEAN,
     syn_timeout_arg : Packet \cup {NULL},
     fin_timeout_arg : Packet \cup {NULL},
     data_timeout_arg : [Slot -> Packet \cup {NULL}],
     syn_retransmit_attempts : 0 .. RUDP_MAXRETRANS,
     fin_retransmit_attempts : 0 .. RUDP_MAXRETRANS]

ReceiverSession ==
    [status : {"OPENING", "OPEN"},
     expected_seqno : SeqNo,
     session_finished : BOOLEAN]

\* A null pointer points to none of these.
ASSUME NullAssumption ==
    NULL \notin SeqNo \cup Packet \cup SenderSession \cup ReceiverSession

create_rudp_packet(type, seqno, payload) ==
    [type |-> type, seqno |-> seqno, payload |-> payload]

-----------------------------------------------------------------------------
(***************************************************************************)
(* Sessions are created by the SYN side with the first message queued and  *)
(* by the SYN's receiver with nothing but the number it expects.  The SYN  *)
(* that opens a sender session is sent at once, so the timeout argument    *)
(* send_packet stores for it is part of the new session; the same holds of *)
(* every packet below that enters the window, and of the FIN.              *)
(***************************************************************************)
\* Mutant of create_sender_session: the session need not wait for its SYN's ACK.
create_open_session(seqno, item) ==
    [status |-> "OPEN",
     seqno |-> seqno,
     sliding_window |-> [i \in Slot |-> NULL],
     retransmission_attempts |-> [i \in Slot |-> 0],
     data_queue |-> <<item>>,
     session_finished |-> FALSE,
     syn_timeout_arg |-> create_rudp_packet("SYN", seqno, NoPayload),
     fin_timeout_arg |-> NULL,
     data_timeout_arg |-> [i \in Slot |-> NULL],
     syn_retransmit_attempts |-> 0,
     fin_retransmit_attempts |-> 0]

create_sender_session(seqno, item) ==
    [status |-> "SYN_SENT",
     seqno |-> seqno,
     sliding_window |-> [i \in Slot |-> NULL],
     retransmission_attempts |-> [i \in Slot |-> 0],
     data_queue |-> <<item>>,
     session_finished |-> FALSE,
     syn_timeout_arg |-> create_rudp_packet("SYN", seqno, NoPayload),
     fin_timeout_arg |-> NULL,
     data_timeout_arg |-> [i \in Slot |-> NULL],
     syn_retransmit_attempts |-> 0,
     fin_retransmit_attempts |-> 0]

create_receiver_session(seqno) ==
    [status |-> "OPENING", expected_seqno |-> seqno, session_finished |-> FALSE]

-----------------------------------------------------------------------------
(***************************************************************************)
(* The window.  Every loop that looks for room takes the lowest slot that  *)
(* is null.  send_packet finds the slot again by sequence number and       *)
(* stores the timeout argument there, which is the slot just filled.       *)
(***************************************************************************)
Free(s) == {i \in Slot : s.sliding_window[i] = NULL}

PutPacket(s, i, p) ==
    [s EXCEPT !.sliding_window[i] = p,
              !.retransmission_attempts[i] = 0,
              !.data_timeout_arg[i] = p]

\* The slots send_packet finds for a DATA packet.
SlotsOf(s, p) ==
    {i \in Slot : /\ s.sliding_window[i] # NULL
                  /\ s.sliding_window[i].seqno = p.seqno}

\* A new message sent at once, without passing through the queue.
SendDirect(s, i, item) ==
    PutPacket([s EXCEPT !.seqno = SeqNext(@)], i,
              create_rudp_packet("DATA", SeqNext(s.seqno), item))

Enqueue(s, item) == [s EXCEPT !.data_queue = Append(@, item)]

\* Mutant of ShiftWindow: the last slot is not cleared.
ShiftKeepingLast(s) ==
    LET Shifted(f) == [i \in Slot |-> IF i = RUDP_WINDOW - 1 THEN f[i] ELSE f[i + 1]]
    IN [s EXCEPT !.sliding_window = Shifted(@),
                 !.retransmission_attempts = Shifted(@),
                 !.data_timeout_arg = Shifted(@)]

\* Mutant of ShiftWindow: the timeout arguments stay where they were.
ShiftWithoutTimers(s) ==
    LET Shifted(f, last) ==
            [i \in Slot |-> IF i = RUDP_WINDOW - 1 THEN last ELSE f[i + 1]]
    IN [s EXCEPT !.sliding_window = Shifted(@, NULL),
                 !.retransmission_attempts = Shifted(@, 0)]

\* Mutant of ShiftWindow: the attempt counters stay where they were.
ShiftWithoutCounters(s) ==
    LET Shifted(f, last) ==
            [i \in Slot |-> IF i = RUDP_WINDOW - 1 THEN last ELSE f[i + 1]]
    IN [s EXCEPT !.sliding_window = Shifted(@, NULL),
                 !.data_timeout_arg = Shifted(@, NULL)]

\* The acknowledged packet leaves slot 0 and every later slot moves down.
ShiftWindow(s) ==
    LET Shifted(f, last) ==
            [i \in Slot |-> IF i = RUDP_WINDOW - 1 THEN last ELSE f[i + 1]]
    IN [s EXCEPT !.sliding_window = Shifted(@, NULL),
                 !.retransmission_attempts = Shifted(@, 0),
                 !.data_timeout_arg = Shifted(@, NULL)]

(***************************************************************************)
(* The loop that moves queued messages into the window while the last slot *)
(* is free: the j-th message goes to the j-th free slot with the j-th next *)
(* sequence number, until the queue or the slots run out.                  *)
(***************************************************************************)
Room(s) == IF s.sliding_window[RUDP_WINDOW - 1] = NULL THEN Free(s) ELSE {}

Rank(s, i) == Cardinality({j \in Room(s) : j <= i})

Filled(s) == {i \in Room(s) : Rank(s, i) <= Len(s.data_queue)}

NewPacket(s, i) ==
    create_rudp_packet("DATA", SeqAdd(s.seqno, Rank(s, i)), s.data_queue[Rank(s, i)])

NewPackets(s) == {NewPacket(s, i) : i \in Filled(s)}

Moved(s) == SubSeq(s.data_queue, 1, Cardinality(Filled(s)))

\* Mutants of Remaining: the last message sent stays queued; one is dropped.
RemainingKeepsOne(s) ==
    SubSeq(s.data_queue,
           IF Filled(s) = {} THEN 1 ELSE Cardinality(Filled(s)), Len(s.data_queue))

RemainingDropsOne(s) == SubSeq(s.data_queue, Cardinality(Filled(s)) + 2, Len(s.data_queue))

\* What the flush leaves in the queue.
Remaining(s) == SubSeq(s.data_queue, Cardinality(Filled(s)) + 1, Len(s.data_queue))

FlushQueue(s) ==
    [s EXCEPT
        !.sliding_window = [i \in Slot |-> IF i \in Filled(s) THEN NewPacket(s, i) ELSE @[i]],
        !.retransmission_attempts = [i \in Slot |-> IF i \in Filled(s) THEN 0 ELSE @[i]],
        !.data_timeout_arg = [i \in Slot |-> IF i \in Filled(s) THEN NewPacket(s, i) ELSE @[i]],
        !.data_queue = Remaining(s),
        !.seqno = SeqAdd(@, Cardinality(Filled(s)))]

(***************************************************************************)
(* send_packet returns as soon as sendto fails.  The packet keeps its      *)
(* place in the session, without a timeout argument.                       *)
(***************************************************************************)
Untimed(s, unsent) ==
    LET Kept(arg) == IF arg \in unsent THEN NULL ELSE arg
    IN [s EXCEPT !.syn_timeout_arg = Kept(@),
                 !.fin_timeout_arg = Kept(@),
                 !.data_timeout_arg = [i \in Slot |-> Kept(@[i])]]

-----------------------------------------------------------------------------
\* The SYN is acknowledged: the session opens and what is queued is sent.
OpenSession(s) ==
    [FlushQueue(s) EXCEPT
        !.status = "OPEN",
        !.seqno = IF 613 \in AsWritten /\ Filled(s) # {} THEN 1 ELSE @]

\* Mutant of AcksOldest: the ACK's number is not reduced by one.
AcksSameNumber(s, p) ==
    /\ s.sliding_window[0] # NULL
    /\ s.sliding_window[0].seqno = p.seqno

\* The ACK of a DATA packet counts only for the oldest one in the window.
AcksOldest(s, p) ==
    /\ s.sliding_window[0] # NULL
    /\ s.sliding_window[0].seqno = SeqPrev(p.seqno)

\* Mutants of Drained: the window is not looked at; nor the status and the
\* queue; finished is not negated.
DrainedQueue(s) ==
    /\ ~ s.session_finished
    /\ s.data_queue = << >>
    /\ s.status = "OPEN"

DrainedWindow(s) == ~ s.session_finished /\ s.sliding_window[0] = NULL

DrainedWhenFinished(s) ==
    /\ s.session_finished
    /\ s.data_queue = << >>
    /\ s.sliding_window[0] = NULL
    /\ s.status = "OPEN"

\* What rudp_close waits for before the FIN.
Drained(s) ==
    /\ ~ s.session_finished
    /\ s.data_queue = << >>
    /\ s.sliding_window[0] = NULL
    /\ s.status = "OPEN"

FinPacket(s) == create_rudp_packet("FIN", SeqNext(s.seqno), NoPayload)

SendFin(s) ==
    [s EXCEPT !.status = "FIN_SENT",
              !.seqno = SeqNext(@),
              !.fin_timeout_arg = FinPacket(s)]

-----------------------------------------------------------------------------
\* Mutants: a SYN restarts any receiver; DATA beyond the expected is taken;
\* DATA taken before is taken again.
MayAlwaysRestart(r) == TRUE

InSequenceOrLater(r, p) == SEQ_GEQ(p.seqno, r.expected_seqno)

InSequenceOrRepeated(r, p) == SEQ_GEQ(p.seqno, SeqPrev(r.expected_seqno))

\* The receiver's tests on SYN and DATA.
MayRestart(r) == r = NULL \/ r.status = "OPENING"

InSequence(r, p) == p.seqno = r.expected_seqno

\* Mutant of OfLastWindow: the window is taken to be one slot shorter.
OfShorterWindow(r, p) ==
    /\ SEQ_GEQ(p.seqno, SeqSub(r.expected_seqno, RUDP_WINDOW - 1))
    /\ SEQ_LT(p.seqno, r.expected_seqno)

OfLastWindow(r, p) ==
    /\ SEQ_GEQ(p.seqno, SeqSub(r.expected_seqno, RUDP_WINDOW))
    /\ SEQ_LT(p.seqno, r.expected_seqno)

-----------------------------------------------------------------------------
(***************************************************************************)
(* timeout_callback's view of a session.  The function is declared and     *)
(* registered by the repository's code, but its body is not there: only    *)
(* the attempt counters it needs are.                                      *)
(***************************************************************************)
Attempts(s, p) ==
    CASE p.type = "SYN" -> s.syn_retransmit_attempts
      [] p.type = "FIN" -> s.fin_retransmit_attempts
      [] OTHER -> LET i == CHOOSE i \in SlotsOf(s, p) : TRUE
                  IN s.retransmission_attempts[i]

RetriesLeft(s, p) == Attempts(s, p) < RUDP_MAXRETRANS

CountAttempt(s, p) ==
    CASE p.type = "SYN" -> [s EXCEPT !.syn_retransmit_attempts = @ + 1]
      [] p.type = "FIN" -> [s EXCEPT !.fin_retransmit_attempts = @ + 1]
      [] OTHER -> LET i == CHOOSE i \in SlotsOf(s, p) : TRUE
                  IN [s EXCEPT !.retransmission_attempts[i] = @ + 1]

=============================================================================
