------------------------------ MODULE PlainUdp ------------------------------
(***************************************************************************)
(* The programs without RUDP: receivers on one host that all want port     *)
(* 12345, of which those of udp_with_ack answer each datagram with an ack  *)
(* and go on while the others take one datagram and end, and senders that  *)
(* send once per run.                                                      *)
(***************************************************************************)
EXTENDS Integers, Sequences, FiniteSets

CONSTANTS
    Receiver,
    Acking,         \* those that run udp_with_ack/udp_fr.c
    Printing,       \* those that run udp_recv.c and have no output file
    Sender,
    FileSender,     \* those that run udp_getinfo2.c
    MayFail,        \* calls that may fail: "open", "socket", "write"
    MaxArrivals,    \* bound on the datagrams of a sender that arrive
    Nobody

ASSUME PlainAssumption ==
    /\ Acking \cap Printing = {}
    /\ Acking \cup Printing \subseteq Receiver
    /\ FileSender \subseteq Sender
    /\ Nobody \notin Receiver \cup Sender
    /\ MayFail \subseteq {"open", "socket", "write"}
    /\ MaxArrivals \in Nat

VARIABLES
    pc,            \* pc[r]: where receiver r is
    sock,          \* sock[r]: it has a socket
    n,             \* n[r]: whether its last recvfrom returned a datagram
    senderinfo,    \* senderinfo[r]: who sent it
    output,        \* output[r]: the senders whose data it wrote, in order
    port,          \* the receiver that port 12345 is bound to
    queue,         \* the senders of the datagrams waiting there
    ran,           \* senders that have sent
    arrived,       \* arrived[s]: datagrams of s that reached the host
    acks,          \* acks[r][s]: acks r has handed to sendto for s
    unwritten      \* history: receivers of which a write failed

receivers == <<pc, sock, n, senderinfo, output, acks, unwritten>>
host == <<port, queue>>
senders == <<ran, arrived>>
vars == <<receivers, host, senders>>

Init ==
    /\ pc = [r \in Receiver |-> "open"]
    /\ sock = [r \in Receiver |-> FALSE]
    /\ n = [r \in Receiver |-> FALSE]
    /\ senderinfo = [r \in Receiver |-> Nobody]
    /\ output = [r \in Receiver |-> << >>]
    /\ port = Nobody
    /\ queue = << >>
    /\ ran = {}
    /\ arrived = [s \in Sender |-> 0]
    /\ acks = [r \in Receiver |-> [s \in Sender |-> 0]]
    /\ unwritten = {}

Goto(r, label) == pc' = [pc EXCEPT ![r] = label]

-----------------------------------------------------------------------------
(***************************************************************************)
(* A sender.  udp_getinfo2.c passes the descriptor of its file where       *)
(* sendto wants a buffer: the call fails and nothing is sent.  UDP may     *)
(* lose a datagram, deliver it late or more than once.                     *)
(***************************************************************************)
Transmits(s) == s \notin FileSender

Send(s) ==
    /\ Transmits(s)
    /\ ran' = ran \cup {s}
    /\ UNCHANGED <<arrived, receivers, host>>

Arrive(s) ==
    /\ s \in ran
    /\ arrived[s] < MaxArrivals
    /\ arrived' = [arrived EXCEPT ![s] = @ + 1]
    /\ queue' = IF port = Nobody THEN queue ELSE Append(queue, s)
    /\ UNCHANGED <<ran, receivers, port>>

-----------------------------------------------------------------------------
(***************************************************************************)
(* A receiver.  The test in udp_with_ack/udp_fr.c is on the function       *)
(* socket and the others have none: a failure goes unnoticed, and so does  *)
(* a failure of bind.                                                      *)
(***************************************************************************)
Open(r) ==
    /\ pc[r] = "open"
    /\ \/ Goto(r, "socket")
       \/ r \notin Printing /\ "open" \in MayFail /\ Goto(r, "ended")
    /\ UNCHANGED <<sock, n, senderinfo, output, acks, unwritten, host, senders>>

\* Mutant of Owner: the port is taken over from its owner.
NewOwner(r) == r

Owner(r) == IF port = Nobody THEN r ELSE port

SocketAndBind(r) ==
    /\ pc[r] = "socket"
    /\ \/ /\ sock' = [sock EXCEPT ![r] = TRUE]
          /\ port' = Owner(r)
       \/ "socket" \in MayFail /\ UNCHANGED <<sock, port>>
    /\ Goto(r, "recvfrom")
    /\ UNCHANGED <<n, senderinfo, output, acks, unwritten, queue, senders>>

\* Mutant of Rest: the datagram stays in the queue.
All(q) == q

Rest(q) == Tail(q)

\* Mutant of Taken: the ack is sent instead of the write.
AckAtOnce(r) == IF r \in Acking THEN "sendto" ELSE "write"

Taken(r) == "write"

\* Without a socket recvfrom fails; with one that is not bound it blocks.
Recvfrom(r) ==
    /\ pc[r] = "recvfrom"
    /\ \/ /\ port = r
          /\ queue # << >>
          /\ n' = [n EXCEPT ![r] = TRUE]
          /\ senderinfo' = [senderinfo EXCEPT ![r] = Head(queue)]
          /\ queue' = Rest(queue)
       \/ /\ ~ sock[r]
          /\ n' = [n EXCEPT ![r] = FALSE]
          /\ UNCHANGED <<senderinfo, queue>>
    /\ Goto(r, Taken(r))
    /\ UNCHANGED <<sock, output, acks, unwritten, port, senders>>

\* The result of write is not looked at, nor was that of recvfrom.
Write(r) ==
    /\ pc[r] = "write"
    /\ \/ /\ n[r]
          /\ output' = [output EXCEPT ![r] = Append(@, senderinfo[r])]
          /\ UNCHANGED unwritten
       \/ /\ n[r] => "write" \in MayFail
          /\ unwritten' = unwritten \cup {r}
          /\ UNCHANGED output
    /\ Goto(r, IF r \in Acking THEN "sendto" ELSE "close")
    /\ UNCHANGED <<sock, n, senderinfo, acks, host, senders>>

\* The address of the sender is printed into six bytes before it is answered.
Sendto(r) ==
    /\ pc[r] = "sendto"
    /\ \/ Goto(r, "undefined") /\ UNCHANGED acks
       \/ /\ Goto(r, "recvfrom")
          /\ acks' = IF n[r] THEN [acks EXCEPT ![r][senderinfo[r]] = @ + 1] ELSE acks
    /\ UNCHANGED <<sock, n, senderinfo, output, unwritten, host, senders>>

\* Mutant of Discarded: what nobody read waits for the next owner.
Kept(q) == q

\* close(sock) discards what is still in the buffer.
Discarded(q) == << >>

Close(r) ==
    /\ pc[r] = "close"
    /\ Goto(r, "ended")
    /\ IF port = r THEN port' = Nobody /\ queue' = Discarded(queue) ELSE UNCHANGED host
    /\ UNCHANGED <<sock, n, senderinfo, output, acks, unwritten, senders>>

Next ==
    \/ \E s \in Sender : Send(s) \/ Arrive(s)
    \/ \E r \in Receiver :
        \/ Open(r) \/ SocketAndBind(r) \/ Recvfrom(r)
        \/ Write(r) \/ Sendto(r) \/ Close(r)

Spec == Init /\ [][Next]_vars

-----------------------------------------------------------------------------
Written(r, s) == {k \in DOMAIN output[r] : output[r][k] = s}

TypeOK ==
    /\ pc \in [Receiver -> {"open", "socket", "recvfrom", "write", "sendto", "close",
                           "ended", "undefined"}]
    /\ senderinfo \in [Receiver -> Sender \cup {Nobody}]
    /\ output \in [Receiver -> Seq(Sender)]
    /\ port \in Receiver \cup {Nobody}
    /\ queue \in Seq(Sender)
    /\ port = Nobody => queue = << >>
    /\ arrived \in [Sender -> 0 .. MaxArrivals]

(***************************************************************************)
(* Each datagram that arrives is for one receiver and is written once,     *)
(* also when receivers come and go: the buffer of the port never gives     *)
(* out more than came in.                                                  *)
(***************************************************************************)
ArrivalOnce ==
    \A s \in Sender :
        Cardinality(UNION {{r} \X Written(r, s) : r \in Receiver})
          + Cardinality({k \in DOMAIN queue : queue[k] = s}) <= arrived[s]

(***************************************************************************)
(* An ack means that the data is in the output file, at a receiver whose   *)
(* writes have all succeeded.                                              *)
(***************************************************************************)
AckedIsWritten ==
    \A r \in Receiver \ unwritten, s \in Sender :
        acks[r][s] <= Cardinality(Written(r, s))

(***************************************************************************)
(* Two receivers never share the port: one that was started when another   *)
(* had it (whose failure of bind nobody notices) writes nothing, not even  *)
(* when the other has ended.                                               *)
(***************************************************************************)
OnlyOwnerWrites ==
    [][\A r \in Receiver : output'[r] # output[r] => port = r]_vars

=============================================================================
