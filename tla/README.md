# Verification of the RUDP implementation in UDP_File_Transfer

This directory holds TLA+ modules that model the reliable-UDP (RUDP) layer of the
repository, configurations that model-check them with TLC, and theorems about
them whose proofs TLAPS checks.

## The system

The repository (12 files, 1,890 lines of C) is a set of UDP programs and an
implementation of RUDP in progress: a library that gives an application reliable
messages over UDP, with a handshake (SYN), a sliding window of DATA packets,
cumulative numbering, retransmission timers and a closing FIN.  Two drafts of the
library exist: `udp_with_ack/rudp_with_ack.c` (the complete one) and
`RUDP_File_Transfer/rudp_pra.c` (a later, cleaner rewrite that stops in the
middle of `receive_callback`).  Neither compiles as it stands.

| Component | Files | State | Operations |
|---|---|---|---|
| Sequence numbers and packets | both drafts, `rudp.h` (absent) | none | `create_rudp_packet`, `SEQ_LT`, `SEQ_GEQ` |
| Sender half of a session | both drafts | status, seqno, sliding_window, retransmission_attempts, data_queue, timeout arguments, session_finished | created by `rudp_sendto`; opened, slid, filled and finished by ACKs |
| Receiver half of a session | both drafts | status, expected_seqno, session_finished | created by SYN; advanced by DATA; finished by FIN |
| Socket | both drafts | close_requested, sessions_list_head, two handlers | `rudp_socket`, `rudp_sendto`, `rudp_close`, `receive_callback` |
| Timers | `event.h` (absent), `send_packet` | one pending timeout per unacknowledged packet | `event_timeout`, `event_timeout_delete`, `timeout_callback` (declared at rudp_pra.c:90, body absent) |
| Socket list | both drafts | socket_list_head, descriptors, event registrations | lookup by descriptor in `rudp_sendto`, `rudp_close`, `receive_callback`; append in `rudp_socket`; free on close |
| Receiving application | `rudp_recv.c` | its socket | arguments, handlers, `eventloop`; `rxfind` and its list are used by nothing |
| Sending application | `udp_fs.c`, `rudp_send.c` (a copy) | peers | `send_file`: one socket per file, `rudp_sendto` to each peer |
| Plain UDP programs | `udp_fr.c` (two), `udp_getinfo2.c`, `udp_recv.c`, `udp_sender.c` | a socket on port 12345, an output file | send one datagram; receive one; receive, write and acknowledge for ever |

How they interact: an application calls `rudp_sendto` and `rudp_close`, which
change the session list and send at most one packet.  All else happens in
callbacks of the event loop: `receive_callback` when a datagram is readable,
`timeout_callback` when a timer expires, and from these the application's own
handlers.  A process is single-threaded: callbacks and API calls do not overlap,
but their order is arbitrary, and the two ends only meet through UDP.

What is hard: datagrams lost, repeated and reordered on both ways; ACKs that come
after the window has moved; timers against late ACKs; numbers that wrap;
sessions with two halves; the close, which walks all sessions of a socket in
whatever state they are; messages handed over while older ones are queued; a
`sendto` that refuses some datagrams of a handler; sockets that are freed and stay
in the list; results of `rudp_socket` that its callers do not check.  The complete list, each at its line, is `hazards` in `PROJECT.json`.

## The reading

The text that does not compile needs a reading, and the model uses one throughout.

1. *Compile errors* (misspelt names, missing brackets, `p.sizeof`, `i-`) get the
   only repair that fits, for example `curr_session` for `curr_socket->receiver`
   at 566 and 747, and `fin_timeout_arg` for `sym_timeout_arg` at 334.
2. *A function present in both drafts* is taken from the draft whose statement
   takes effect: `create_sender_session` (rudp_with_ack.c:123 loses the new
   session and the sender pointer is never stored), `create_receiver_session`
   (:129 and rudp_pra.c:163 are slips of each other's correct line),
   `compare_sockaddr` (:185 is inverted, rudp_pra.c:203 is not), and the append of
   `rudp_socket` (:227-236; rudp_pra.c:248 assigns where it should compare).
3. *send_packet* compares instead of assigning at :295, copies into a pointer that
   was never set at :302 and loses the delay at :307-308.  A program that kept the
   first two would stop at its first packet; they are read as the allocation they
   are meant to be.  The delay does not matter: a timer may expire at any time.
4. *Five one-token slips* remain that change what the protocol does.  The constant
   `AsWritten`, a subset of `SlipLine`, says which of them are taken to the letter;
   the others are what their sibling lines say:

   | Line | To the letter | Otherwise |
   |---|---|---|
   | 528 | the SYN to a socket without sessions is answered with a SYN | ACK, as at rudp_pra.c:326 and at 577 |
   | 551 | `session_found = false`: no new peer is ever recognised | `==`, as at 456 |
   | 555 | the SYN of a new peer at a socket with sessions is answered with a SYN | ACK, as at 528 |
   | 613 | `seqno = +1` | `seqno + 1`, as at 669 |
   | 665 | `= NULL` empties the window, no index is found | `==`, as at 605 |

5. *The applications.*  `usege` is `usage` and `addr` at udp_fs.c:79 an uninitialised
   pointer: the store through it either is undefined or goes on, as does the one
   beyond a buffer too short (udp_fs.c:64 has a bracket in the wrong place, the `udp_fr.c`
   of `udp_with_ack` prints an address into six bytes).  What `strchr` is to find at
   udp_fs.c:61 is the constant `Address`.  `c == "d"` is literal: it never holds.
   `rudp_socket_t` is a type of an absent header; whether the test `rsock < 0` at 358
   can hold is left open.
6. *Everything else is literal*, including what looks unintended: the condition of
   the direct send at 421, the second session at 409-417, the walks of the session
   list on close, and the loop at 783-804.

What C leaves undefined is a state of the process: a null dereference is
`"crashed"`, an endless loop `"hung"`, the use of freed sessions or of an index
never assigned `"undefined"`; the process takes no further step.  `"exited"` is the
`exit(1)` of the TIMEOUT handler (rudp_recv.c:137) and `"closed"` the regular end.

## Modules

- **RudpSeq**: arithmetic of `u_int32_t` numbers modulo `SeqMod`, and the comparison
  macros (external: `rudp.h` is not in the repository).
- **RudpSession** (extends RudpSeq): packets, the two session structs and what the
  handlers do to one of them, as operators: `create_*`, `SendDirect`, `Enqueue`,
  `ShiftWindow`, `FlushQueue`, `OpenSession`, `SendFin`, the tests on ACK, SYN, DATA
  and FIN.  The flush loop is given by its result: the j-th queued message goes to
  the j-th free slot with the j-th next number.
- **Rudp** (extends RudpSession): the processes, their sessions and timers and the
  network.  One action per branch of the code.
- **RudpWindow** (extends RudpSession): how one sender session stands to the stream it
  has numbered.
- **RudpInv** (extends Rudp, RudpWindow): the inductive invariants `StreamInv`,
  `TransferInv` and `SocketInv`.
- **ReliableStream**: what RUDP promises the applications, without numbers, windows,
  timers and datagrams: messages are accepted, numbered, delivered, acknowledged,
  and the stream ends.
- **RudpStream** (extends RudpInv): the refinement mapping, `Streams == INSTANCE
  ReliableStream WITH ...`, and `ImplementsStream`.
- **RudpRetries** (extends RudpStream): Rudp with a history of how often each message
  was sent again, to compare with the attempt counters that a slide moves.
- **MCRudp** (extends RudpStream): values for the model-checked instances; **MCRetries**
  (extends MCRudp and RudpRetries): the same with the history.
- **RudpSessionProofs** (lemmas on the operators of RudpSession), **RudpProofs** (type
  correctness, `StreamInv`, prefix delivery), **RudpTransferProofs** (`TransferInv`),
  **RudpTheorems** (what follows for every safety property of Rudp; `SocketInv`; the
  refinement): each extends the one before.
- **RudpSockets**: the sockets of one process, `rudp_socket` with each way it can fail,
  and the lookups by descriptor.  A session is only the halves it has and whether it
  was freed; what happens inside is Rudp's subject.  A lookup that reads a freed entry
  may end the process as `"undefined"`, stop at the entry or go on past it:
  the memory usually still holds what it held, so that sockets are opened and closed
  again behind freed entries.  That `malloc` returns the chunk of a freed entry is one
  of the things `"undefined"` stands for.
- **SocketUser** (extends RudpSockets): any application, that opens, uses and closes
  sockets in any order; **MCSocketUser** its instances.  **RudpSocketsProofs** holds
  the lemmas on `rudp_socket`, the list and its lookups; **SocketUserProofs** the theorems.
- **CommandLine** (extends RudpSockets), **SendApp** (`udp_fs.c`), **RecvApp**
  (`rudp_recv.c`), **Apps** (a process that runs one of the two), **MCApps**;
  **AppsProofs** the theorems, over RudpSocketsProofs too.
- **PlainUdp**: the programs without RUDP, as receivers that compete for a port of one
  host and senders; **MCPlainUdp**; **PlainUdpProofs** the theorems.

State of Rudp and where it is in the code:

| Variable | Code |
|---|---|
| `sender[n][m]`, `receiver[n][m]` | the two pointers of n's `struct session` for peer m |
| `sessions_list[n]` | `sessions_list_head`, as the order of its peers |
| `close_requested[n]` | the field |
| `events[n][m]` | the timeouts registered with `event_timeout`, by their packet |
| `net[n][m]` | datagrams from n to m; a set, since a copy may stay when one is consumed |
| `mode[n]` | what became of the process |
| `handed`, `stream`, `isn`, `delivered` | history: what the applications gave and got, and the order of numbering |

A function from peers to sessions can stand for the list because a second session
for one peer arises only in `SendtoReceiverOnly`: either a moment before its process
crashes, or, if its SYN is refused, behind the first session of that peer, where no
lookup reaches it (its place in `sessions_list` stays, since the walks on close pass
it; the `break` at 416 leaves `session_found` false, so that 456-458 append one more).  Payloads are the position of the message in the sequence of calls of
`rudp_sendto`.  With `SendtoFails`, `sendto` refuses any of the datagrams a handler
sends: the packet gets no timer and its session no timeout argument (`Untimed`, 283).  A
refused ACK is an ACK the network loses.  Left out: a `malloc` that fails inside a session,
invalid arguments of `rudp_sendto` (rejected before any state changes), log messages.

| Action | Code (rudp_with_ack.c) |
|---|---|
| `rudp_sendto` = `SendtoOpens`, `SendtoReceiverOnly`, `SendtoSession` | 353-473 |
| `rudp_close` | 244-257 |
| `ReceiveNoSession` | 524-562 |
| `ReceiveSyn` | 563-584 |
| `ReceiveMissingHalf` | 588, 747, 772 with the pointer null |
| `ReceiveAckSynSent` | 586-625 |
| `ReceiveAckOpen`, `SlideAndFill` | 626-702 |
| `ReceiveAckFinSent` | 703-744 |
| `ReceiveData` | 746-770 |
| `ReceiveFin`, `FinLoop` | 771-811 |
| `timeout_callback` | external; `exit(1)` of rudp_recv.c:137 |
| `Lose` | external: UDP |

| RudpSockets, SocketUser | Code |
|---|---|
| `open`, `bound`, `watched` | descriptors, their ports, the registrations made with `event_fd` |
| `socket_list` | the entries from `socket_list_head` on; `freed` and `sessions_freed` mark what is freed and still linked |
| `rudp_socket` = `NoDescriptor`, `BindFails`, `MallocFails`, `Registers`; `WithSocket` | 188-242; 227-236 |
| `rudp_close`, `rudp_sendto` | 244-257; 353-401, the session part as the half it creates |
| `receive_callback` = `ReceiveOn` (`AddHalf`, `FinAcked`, `CloseSocket`, `CloseWalkFails`, `MeetsNull`) | 475-524; 711-738, 780-804; the null pointers of 551, 588, 747, 772 |
| `Close`, `Use`, `OpenSocket`, `Receive` of SocketUser | external: an application |
| `rudp_recvfrom_handler`, `rudp_event_handler` | external (rudp_api.h) |

| Apps | Code |
|---|---|
| `argv`, `pc`, `rsock`; `i`, `peers`, `p` | the locals of `main` and `send_file`, `peers` and `npeers` |
| `GetOpt`, `ReadAddress`, `EndOfAddresses`, `Return` | udp_fs.c 52-96 |
| `OpenFile`, `OpenSocket`, `SendName`, `FileDone`, `GiveUp` | `send_file`, 98-142 |
| `ReadArguments` ... `EventLoop` | rudp_recv.c 58-101 |

| PlainUdp | Code |
|---|---|
| `Send`, `Transmits` | udp_sender.c; udp_getinfo2.c:64, whose `sendto` gets a descriptor for a buffer and fails |
| `Open`, `SocketAndBind` | the unchecked `socket` and `bind` of both `udp_fr.c` and `udp_recv.c` |
| `Recvfrom`, `Write`, `Sendto`, `Close` | udp_with_ack/udp_fr.c 53-65; the others end after one datagram |

The external `timeout_callback` is built from what surrounds it: the attempt
counters and the limit `RUDP_MAXRETRANS`, `send_packet`, and the RUDP_EVENT_TIMEOUT
that the applications handle.

Operators named as mutants (`ShiftKeepingLast`, `AcksSameNumber`, ...) are used by
no specification.  Each is a plausible slip in the definition it follows, with
which some property must fail; `mutants` in `PROJECT.json` lists them.

## What the runs check

Run a configuration with `tlc -config <module>_<run>.cfg <module>`.

| Run | Instance | Checks |
|---|---|---|
| MCRetries `transfer` | a sends to b; 3 messages, window 2, 1 retry; a closes; sendto may fail; 141,448 states | type invariant, the safety and action properties of one session, `StreamInv`, the refinement |
| MCRudp `peers` | a sends to b and c and closes; 1 message each, window 1; sendto may fail; 171,802 states | the walks over several sessions, refused in the middle: no timer without a packet, no failure without a cause, each walk a step of two streams |
| MCRudp `both` | a and b send 1 message to each other and both close, b alone has an event handler; window 1; sendto may fail; 260,848 states | sessions with two halves, crossing SYNs, ACKs and FINs: `TransferInv`, FINs after delivery, the walks and the FIN loop end only for their causes |
| MCRudp `live` | a sends 2 messages to b, 1 retry, fair event loop; 7,178 states | the four liveness properties, and the timers they depend on |
| MCSocketUser `sockets` | 3 descriptors, up to 3 list entries, every failure of `rudp_socket`; 757,350 states | descriptors and list entries through opening, closing and reopening; no socket is closed for another's sake |
| MCApps `apps` | every command line of up to 4 of 7 arguments, 4 descriptors; 29,068 states | which files go where, what makes the programs fail, that main ends |
| MCPlainUdp `plain` | 3 receivers on a host, 3 senders, 2 arrivals of each; 140,028 states | who gets a datagram, what an ack means |
| MCRudp `order`, `idle`, `newpeer`, `synreply`, MCSocketUser `stale` | small instances | each must end in a violation, see below |

*Bounds.*  `MaxSend` bounds the messages of a session, and with it everything: the
numbers, the packets and, with `RUDP_MAXRETRANS`, the timeouts.  Three messages and
two slots are enough for a full window with a message queued behind it, for a slide
that refills the window and for a slot that is reused, and DATA that overtakes its
predecessor needs the two slots too; with one slot the code takes its other branch
(637-641), which `peers`, `both` and `live` use.
`SeqMod` is 8 and the first number 6, so that the numbers wrap within a transfer.
A datagram in flight may be delivered any number of times; a retry limit of one
gives one timeout that resends and one that gives up.  Three descriptors and three entries (`MaxEntries`, which counts freed ones) allow a socket
behind a freed entry and a descriptor that is given out twice more after it was closed.  In `apps`
descriptor 5 is one the process has inherited; four arguments are enough for two peers and
two files with one skipped, and two peers for an array that is full.

*Deadlock* is not checked: a transfer that has ended, a process that has failed, a
program that has returned or a receiver without a datagram legitimately leave nothing to do.

*Fairness.*  `FairSpec` of Rudp assumes weak fairness of `receive_callback` and
`timeout_callback`: the event loop (rudp_recv.c:101) runs the callback of a
descriptor that stays readable and of a timer that has expired.  Nothing obliges
an application to send or to close, nor the network to deliver: a datagram may be
lost each time.  For this reason every liveness property has the retry limit as
its other outcome (`GivenUp`).  `FairSpec` of Apps says that a program goes on as long as it
can: up to the event loop no statement of either main blocks.

*The abstract specification.*  `ImplementsStream` says that every step of Rudp, seen
through the mapping of RudpStream, is for each flow a step of ReliableStream or a
stutter: `handed` is what was accepted, `stream` what was numbered, `acked` the messages
that have left the window, `ended` a FIN sent.  It contains in one formula that messages are
numbered once and only if accepted, delivered in that order, acknowledged only after
delivery (also when a timeout, an ACK and a close meet), and that nothing is numbered or
acknowledged behind the end, although `rudp_sendto` still accepts messages there
(421-446).  A handler may take several flows a step further, which is why the
abstract `Next` has a conjunct for each flow: the walk of an ACK sends FINs to all
peers.  ReliableStream does not promise order of acceptance (see `order`).

*What they show.*  With the slips read as their siblings, a session delivers a
prefix of what was numbered, exactly once (`PrefixDelivery`); ACKs never free a slot
too early (`AckedIsDelivered`); a lost ACK is made good, because of the packets still in
the window exactly those already passed on lie in the receiver's last window
(`LastWindowIsDelivered`); no accepted message is dropped or doubled between
queue and window, even when part of a flush is refused (`EachMessageOnce`); window, numbers
and stream agree (`WindowIsStreamEnd`); timers belong to packets (`TimersMatch`), the attempt counter of a slot counts the
retransmissions of the message in that slot, wherever the slides have moved it
(`AttemptsCounted`), and an ACK that counts finds the timeout argument it frees (`AckFindsTimer`); as long as
`sendto` succeeds, what is unacknowledged has a timer or has used up its retries
(`KeepsTrying`); the FIN comes last and its ACK means that the peer saw it
(`FinAfterDelivery`); packets find the half of the session they are for (`HalfExists`); a
repeated SYN does not set a receiver back (`ReceiverAdvances`); and each way a process
ends has causes of its own (`FailureHasCause`), which are causes in the code as it is.  It
crashes after `rudp_sendto` to a peer that opened a session first, or when a walk after
`rudp_close` meets a session without the half it dereferences; it hangs in the FIN loop, or
goes on with freed sessions, only after `rudp_close`; it closes only when every sender of
the socket is finished, and leaves only over a packet sent as often as allowed.

Around it: each live entry of the socket list has a descriptor of its own, and what
else is open was leaked by a failed `rudp_socket` (`EntryPerSocket`), also when a closed
socket's number is given out again; and a descriptor is taken back only if `rudp_close` was
called since it was last given out, although the entry of an earlier socket with the same
number, with its `close_requested`, is still in the list (`CloseWasAsked`).  The applications
check one failure result of the two: `malloc` failing in `rudp_socket` is what can make
`send_file` fail (udp_fs.c:115), and `rudp_recv.c` can be taken down only in its event loop,
by the datagrams that come after a peer opened a session (`FailureIsUnchecked`; 551 and 588
are among the ways, see `newpeer`).  `udp_fs.c` sends anything at all
only if its first peer is also the name of a file, and never two neighbouring files
(`FilesTaken`, udp_fs.c:91-92); a socket serves one file and the peers in order
(`FilesDoNotMix`).  Among the plain receivers the port has one owner, who alone
writes (`OnlyOwnerWrites`), each datagram once (`ArrivalOnce`), and acknowledges what it
wrote unless a write has failed (`AckedIsWritten`).

*What does not hold* (the runs that expect a violation, `findings` in `PROJECT.json`):

- `order` and `idle`: the test at line 421 is the wrong way round.  A new message is
  sent at once only when older ones wait, and overtakes them; when none wait it is
  queued, and with nothing in flight nothing ever sends it.  So the order of
  delivery is the order of numbering, not of the calls, and `BusyQueueMoves` is the
  liveness that remains.
- `newpeer`: what line 551 does if taken to the letter.
- `synreply`: what lines 528 and 555 do if taken to the letter.  The SYN that answers a SYN
  opens a receiver at the peer, which answers with an ACK (577); this ACK meets a null
  sender at 588.  So `HalfExists` and what rests on it need the ACK of rudp_pra.c:326.
- `stale`: a closed socket is freed and stays in the list (736), so that the lookup of a
  socket behind it reads freed memory.

Two more instances fail and are not kept as runs: `live` with `SendtoFails = TRUE`
violates `KeepsTrying` (283: the packet has no timer, and `rudp_sendto` has returned 0);
with 613 in `AsWritten`, four messages and first number 0, `AckedIsDelivered` fails.
Line 665 to the letter is exercised by no run; all theorems below but `SocketCorrect` and `CauseCorrect` cover it.
The FIN loop over several receivers (783) is entered by no run either; `CauseCorrect` covers it.

## What is proved

Every safety invariant and every action property of a passing run but `AttemptsCounted`, and
the refinement, is a theorem for all values of the constants that satisfy the assumptions below: any set of
nodes and flows, window, retry limit, number of messages, initial numbers, handlers,
descriptors, receivers, senders and command lines.

| Module | Theorems | Under |
|---|---|---|
| RudpProofs | `TypeCorrect` (`TypeOK`) | |
| RudpProofs | `StreamCorrect` (`StreamInv`), `PrefixCorrect` (`PrefixDelivery`) | `FaithfulNumbers` |
| RudpTransferProofs | `TransferCorrect` (`TransferInv`) | `FaithfulNumbers` |
| RudpTheorems | `AckedCorrect`, `LastWindowCorrect`, `OnceCorrect`, `WindowCorrect`, `TimersCorrect`, `AckTimerCorrect`, `FinCorrect` (`AckedIsDelivered`, `LastWindowIsDelivered`, `EachMessageOnce`, `WindowIsStreamEnd`, `TimersMatch`, `AckFindsTimer`, `FinAfterDelivery`) | `FaithfulNumbers` |
| RudpTheorems | `HalfCorrect` (`HalfExists`) | `SynIsAcked` |
| RudpTheorems | `AdvancesCorrect` (`ReceiverAdvances`), `StreamImplemented` (`ImplementsStream`) | `FaithfulNumbers` |
| RudpTheorems | `TryingCorrect` (`KeepsTrying`) | `FaithfulNumbers`, `~ SendtoFails` |
| RudpTheorems | `SocketCorrect` (`SocketInv`), `CauseCorrect` (`FailureHasCause`) | `AsWritten = {}` |
| RudpTheorems | `StaysUpCorrect` (`ReceiverStaysUp`) | `SynIsAcked`, `551 \notin AsWritten` |
| SocketUserProofs | `SocketTypeCorrect`, `EntryCorrect`, `AskedCorrect` (`TypeOK`, `EntryPerSocket`, `CloseWasAsked`) | |
| AppsProofs | `AppsTypeCorrect`, `FilesTakenCorrect`, `FilesDoNotMixCorrect`, `UncheckedCorrect` | |
| PlainUdpProofs | `PlainTypeCorrect`, `ArrivalCorrect`, `AckedIsWrittenCorrect`, `OwnerCorrect` | |

*Hypotheses of theorems.*  They choose a reading of a line; none restricts what the
applications, the network or the peers do.
`FaithfulNumbers` says that 528, 555 and 613 are not taken to the letter: the first two let a
number travel that nobody chose, the third gives a number twice.  551 and 665 may be taken
either way there.  `SynIsAcked` says that 528 and 555 are not, and is all that `HalfCorrect`
needs; the run `synreply` shows that it is needed.  `StaysUpCorrect` needs 551 corrected in
addition (run `newpeer`).  `AsWritten = {}` is needed where the question is which causes a
process has to end: to the letter, each of 528, 551, 555 and 665 adds one that nobody misused,
and 613 takes `TransferInv` away, on which the causes rest.
`~ SendtoFails`: after a refused `sendto` (283) a packet has no timer, so that
`KeepsTrying` holds only without.

*Assumptions on the constants.*  The window has at least one slot and at most half as
many as there are sequence numbers, without which `SEQ_LT` could not tell the last
window from the next (the code has a few slots and 2^32 numbers); a session is shorter than
one cycle of the counter (`MaxSend + 2 < SeqMod`: fewer than four billion messages), without
which an old packet could be taken for a new one; nodes do not send to
themselves; NULL is no number, packet or session; descriptors are finitely many positive
numbers, and so differ from the -1 and the NULL that `rudp_socket` returns.

*Types.*  `TypeOK` alone is not inductive: `timeout_callback` reads the sender of a pending
timer, so that a timer needs a session (`NoTimers`).  `TypeInv` is the conjunction.

*`StreamInv`.*  `PrefixDelivery` says nothing of packets in flight, so a
step that delivers one cannot be justified by it.  `StreamInv` adds, for each flow:
the session's seqno is the initial number plus the length of the stream, until the
FIN (`Numbering`); each DATA packet in flight or waiting for its timeout is the
message at its own place of the stream (`Genuine`); the receiver expects the number
after what it has delivered, and one that still waits for its first DATA has
delivered nothing, so that a repeated SYN is harmless (`Expecting`); a session not yet
open has no numbers at all, and to a peer without any session nothing was handed: a
message can only vanish behind a receiving session, when its SYN is refused
(`Unopened`).  A step then belongs to one of few kinds, each
with a lemma: it leaves a flow alone (`FlowUnchanged`), numbers new messages at its
end (`FlowGrows`), starts a sender or a receiver (`FlowOpens`, `FlowStarts`) or
delivers (`FlowDelivers`; here two messages of a session must not share a number,
which is `SeqInjective` and the bound on `MaxSend`).  The flush loop rests on a count:
the slots filled are as many as the messages moved, and their ranks are 1, 2, ...
(`FlushCounts`).

*`TransferInv`.*  What an ACK does at the sender depends on what the receiver had done when
it sent it, so this invariant relates the two ends.  For each flow there are b <= e: b
messages have left the window, e have been taken.  `Matches`: slot i holds message b + i + 1
under its own number, or nothing at the end of the stream, and its timeout argument is that
packet or, where `sendto` may fail, null.  `Taking`: the receiver
expects number e + 1, and the FIN is the last it takes.  `Acks`: every ACK in
flight names one of the first e messages, the SYN or the FIN.  `Phases`: a sender is past
its SYN, or finished, only if the receiver is there, or finished.  `Refused`: a packet
without a timeout argument is on its way nowhere and was not taken, which is why an ACK that
counts always finds the argument it frees.  An ACK for
slot 0 names message b + 1 in particular; as numbers do not repeat within a session,
b + 1 <= e, and the slide keeps b <= e (`OldestTaken`).  The steps of the sender are all
instances of `SenderMoves` (the stream grows, b moves on within e), which
`SenderStep` turns into the invariant for all flows of the socket, as the walk of the
close touches several.  The seven invariants of RudpTheorems under `FaithfulNumbers` then
follow without a further induction.

*`HalfInv`.*  Which half a packet finds depends on no number, only on the answers to a SYN.
For each packet in flight or waiting for its timeout, the half it is for is there
(`Finds`): a SYN travels only from a sender session, an ACK only from a receiver session to
a sender session, DATA and FIN only once the peer has a receiver, which is what a sender
past SYN_SENT knows (`Begun`).  No step loses a half (`NothingLost`).  The one exception is a
process that has just crashed in `SendtoReceiverOnly` after its SYN went out.  With 528 or
555 to the letter a SYN would travel from a receiver, and the first clause fails.
`StaysUpCorrect` follows: a socket that neither sends nor closes has no sender, gets no ACK,
and DATA or FIN find its receiver.

*`SocketInv`.*  `sessions_list` has the peers with a session and no others, and each
way a process ended has its cause.  A walk meets a null sender only if some
session of the list has a receiver alone.

*The refinement.*  A step of Rudp is, for each flow, at most one step of the abstract
stream: `ForwardOnward` derives from the proof of `TransferInv` how far b moved, and
`NextAdvance` what was accepted, numbered and delivered; the messages numbered are
new ones, since stream and queue together are a permutation of what was
accepted (`Permutation`, a count by pigeonhole on the two).

*`KeepsTrying`* has an invariant of its own, `Retrying`: the packet of each slot has a
timer, or the counter of *that slot* has reached the limit.  The counters move with
the slots (`ShiftRetried`), the slot that `send_packet` finds by number is the packet's own
(`OwnSlot`), and the timer that a slide cancels is of the packet that leaves.

*Sockets.*  `UserInv` adds to `EntryPerSocket` that a freed entry had its sessions freed by
a close (`FreedByClose`) and that a live entry is marked for closing only if the
application asked since `rudp_socket` returned its descriptor (`MarkWasAsked`).  The second
needs the first part of `EntryPerSocket`: two live entries never share a descriptor, so a
mark is never set on, or inherited by, another socket with the same number.

*Applications.*  `FilesTaken` rests on a parity: from the first address on, main's index is
odd in the loop over the files, because the loop advances by two (`Odd`); and to get past
the first round the first argument must be a file.  `FilesDoNotMix` needs that descriptors
in use are open, that `rudp_socket` returns none that is open, and that nothing closes one.

*Plain programs.*  `ArrivalOnce` is proved by an account (`Accounted`): what is stored, in
hand and waiting of a sender never exceeds what arrived; `OwnerCorrect` by `Owns`: only the
owner of the port holds a datagram that it has received and not yet written.

Only model-checked: `AttemptsCounted`, which speaks of a history that the proofs do not
have, and the liveness properties (`HandshakeEnds`, `NumberedIsDelivered`,
`BusyQueueMoves`, `BusyCloseEnds`, `MainEnds`), whose proofs need ENABLED and fairness,
which the prover does not handle.  No module declares a recursive operator.

## Not modelled, and the plan

Not modelled: a `malloc` that fails inside a session; `rxfind` (rudp_recv.c:111-119), which
nothing calls; `rudp_receiver`, `event.h`, `rudp.h` and `rudp_api.h`, which the repository does not
hold, except where the code shows what it needs of them; the name resolution of
`udp_getinfo2.c`; what the packets of `udp_fs.c` contain (the name of the file, and
nothing of the file itself).  RudpSockets and Rudp are two views of `receive_callback`
and are not composed: Rudp has one socket per process, RudpSockets only the halves of a
session.  A failing `sendto` is not combined with the liveness properties, which do not
survive it.

What is left for the proofs: safety properties implied by the liveness ones (that a
process with unacknowledged data always has a step to take), and a composition of RudpSockets
with Rudp, through which `SocketInv` and `EntryPerSocket` would become one invariant.
