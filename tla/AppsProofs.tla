----------------------------- MODULE AppsProofs -----------------------------
(***************************************************************************)
(* The two applications, for any command line, any number of descriptors   *)
(* and whatever calls fail.                                                *)
(***************************************************************************)
EXTENDS Apps, RudpSocketsProofs

\* The places of the two programs.
SendPlaces == {"getopt", "addresses", "files", "socket", "sendto", "close", "exit"}

RecvPlaces ==
    {"getopt", "rudp_socket", "recvfrom_handler", "event_handler", "eventloop", "exit"}

AppType ==
    /\ argv \in Seq(Argument)
    /\ bound \in [Fd -> Port \cup {AnyPort}]
    /\ \/ program = "udp_fs" /\ pc \in SendPlaces
       \/ program = "rudp_recv" /\ pc \in RecvPlaces
    /\ \A x \in sent : x \in [file : Nat, peer : Nat \ {0}, rsock : Fd]

Odd(k) == \E j \in 0 .. k : k = 2 * j + 1

(***************************************************************************)
(* udp_fs.c has read an address when it has a peer.  From then on its      *)
(* index is odd, and no file is reached unless the first argument is one.  *)
(***************************************************************************)
Arguments ==
    program = "udp_fs" =>
        /\ pc \in {"getopt", "addresses"} =>
               (peers # << >> => i > 1) /\ (i > 1 => argv[1] \in Address)
        /\ pc \in {"files", "socket", "sendto", "close"} =>
               Odd(i) /\ argv[1] \in Address /\ (i > 1 => argv[1] \in File)
        /\ pc \in {"socket", "sendto", "close"} => i <= Len(argv) /\ argv[i] \in File

(***************************************************************************)
(* What has been sent was sent for a file behind main's index, over a      *)
(* socket that is still open, or for the file and over the socket that     *)
(* send_file works with, to the peers it has passed.                       *)
(***************************************************************************)
SentInOrder ==
    /\ program = "rudp_recv" \/ pc \in {"getopt", "addresses"} => sent = {}
    /\ \A x \in sent :
        /\ x.rsock \in open
        /\ Odd(x.file)
        /\ pc \in {"files", "socket"} => x.file < i
        /\ pc \in {"sendto", "close"} =>
               x.file <= i /\ (x.file = i <=> x.rsock = rsock)
    /\ pc = "sendto" =>
        \A q \in 1 .. p - 1 : [file |-> i, peer |-> q, rsock |-> rsock] \in sent

(***************************************************************************)
(* Neither program ever frees an entry.  The sender takes no datagram, and *)
(* its socket is in the list unless rudp_socket returned -1.               *)
(***************************************************************************)
NothingFreed ==
    \A k \in DOMAIN socket_list :
        ~ socket_list[k].freed /\ ~ socket_list[k].sessions_freed

SenderSockets ==
    program = "udp_fs" =>
        /\ \A k \in DOMAIN socket_list : "receiver" \notin socket_list[k].halves
        /\ pc \in {"sendto", "close"} =>
               rsock = Error \/ (rsock \in open /\ Matching(rsock) # {})

\* The receiver has no socket before it asks for one, asks for no close, and
\* takes no datagram before its event loop.
ReceiverSockets ==
    program = "rudp_recv" =>
        /\ pc \in {"getopt", "rudp_socket"} => socket_list = << >>
        /\ pc # "getopt" => Len(argv) = 1 /\ atoi[argv[1]] \in Port
        /\ \A k \in DOMAIN socket_list :
               /\ ~ socket_list[k].close_requested
               /\ socket_list[k].halves # {} => pc = "eventloop"

AppInv ==
    /\ TypeOK /\ AppType /\ Arguments /\ SentInOrder /\ FilesTaken /\ FilesDoNotMix
    /\ NothingFreed /\ SenderSockets /\ ReceiverSockets /\ FailureIsUnchecked

-----------------------------------------------------------------------------
LEMMA AppsInit == ASSUME Init PROVE AppInv
<1>1. << >> \in Seq(Argument) /\ << >> \in Seq(GoodPort) /\ << >> \in Seq(Entry)
      /\ Len(<< >>) = 0 /\ DOMAIN << >> = {}
  BY EmptySeq
<1>2. argv \in Seq(Argument) /\ Len(argv) \in Nat
  <2>1. PICK k \in 0 .. MaxArgs : argv \in [1 .. k -> Argument]
    BY DEF Init, CommandLineInit
  <2>2. k \in Nat
    BY <2>1, CommandLineAssumption
  <2> QED BY <2>1, <2>2, IsASeq, LenProperties
<1>3. TypeOK /\ AppType
  BY <1>1, <1>2, SendAssumption
     DEF Init, CommandLineInit, SocketsInit, SendInit, TypeOK, AppType, Result, SendPlaces,
         RecvPlaces
<1>4. /\ Arguments /\ SentInOrder /\ FilesTaken /\ FilesDoNotMix /\ NothingFreed
      /\ SenderSockets /\ ReceiverSockets /\ FailureIsUnchecked
  BY <1>1 DEF Init, CommandLineInit, SocketsInit, SendInit, Arguments, SentInOrder, FilesTaken,
              FilesDoNotMix, NothingFreed, SenderSockets, ReceiverSockets, FailureIsUnchecked,
              Failures
<1> QED BY <1>3, <1>4 DEF AppInv

LEMMA AppSockets == AppInv => SocketsOK
BY DEF AppInv, TypeOK, AppType, SocketsOK

\* The program ends, or fails while it reads addresses.
LEMMA Ended ==
    ASSUME AppInv, NEW what, mode' = what,
           \/ what \in {"usage", "exited", "returned"}
           \/ what = "undefined" /\ program = "udp_fs" /\ pc = "addresses",
           UNCHANGED <<kernel, socket_list, argv, pc, rsock, sending, program>>
    PROVE  AppInv'
<1>1. UNCHANGED <<open, bound, watched, socket_list, argv, pc, rsock, i, peers, p, sent, program>>
  BY DEF kernel, sending, send_file
<1>2. TypeOK' /\ AppType'
  BY <1>1 DEF AppInv, TypeOK, AppType, Failures
<1>3. Arguments' /\ SentInOrder' /\ FilesTaken' /\ FilesDoNotMix'
  BY <1>1 DEF AppInv, Arguments, SentInOrder, FilesTaken, FilesDoNotMix
<1>4. NothingFreed' /\ SenderSockets' /\ ReceiverSockets'
  BY <1>1 DEF AppInv, NothingFreed, SenderSockets, Matching, ReceiverSockets
<1>5. FailureIsUnchecked'
  BY <1>1 DEF FailureIsUnchecked, Failures
<1> QED BY <1>2, <1>3, <1>4, <1>5 DEF AppInv

-----------------------------------------------------------------------------
(***************************************************************************)
(* The steps of udp_fs.c.                                                  *)
(***************************************************************************)
\* The process is up, so that it has not failed.
LEMMA UpIsUnchecked == ASSUME mode' = "up" PROVE FailureIsUnchecked'
BY DEF FailureIsUnchecked, Failures

\* A step that sends nothing and leaves the list of sockets alone.
LEMMA NothingSent ==
    ASSUME AppInv, program = "udp_fs", UNCHANGED <<program, argv, sent, socket_list>>
    PROVE  FilesTaken' /\ FilesDoNotMix' /\ NothingFreed' /\ ReceiverSockets'
BY DEF AppInv, FilesTaken, FilesDoNotMix, NothingFreed, ReceiverSockets

LEMMA GetOptKeeps ==
    ASSUME AppInv, program = "udp_fs", GetOpt, UNCHANGED program
    PROVE  AppInv'
<1>1. CASE SendEnd("usage")
  BY <1>1, Ended DEF SendEnd, End
<1>2. CASE Goto("addresses") /\ UNCHANGED <<sockets, argv, rsock, sending>>
  <2>1. /\ pc = "getopt" /\ pc' = "addresses" /\ mode' = "up"
        /\ UNCHANGED <<open, bound, watched, socket_list, argv, rsock, i, peers, p, sent, program>>
    BY <1>2 DEF GetOpt, At, Goto, sockets, sending, send_file
  <2>2. TypeOK' /\ AppType'
    BY <2>1 DEF AppInv, TypeOK, AppType, SendPlaces
  <2>3. Arguments' /\ SentInOrder' /\ SenderSockets'
    BY <2>1 DEF AppInv, Arguments, SentInOrder, SenderSockets
  <2> QED BY <2>1, <2>2, <2>3, NothingSent, UpIsUnchecked DEF AppInv
<1> QED BY <1>1, <1>2 DEF GetOpt

LEMMA ReadAddressKeeps ==
    ASSUME AppInv, program = "udp_fs", ReadAddress, UNCHANGED program
    PROVE  AppInv'
<1>1. ASSUME NEW what \in {"exited", "undefined"}, SendEnd(what) PROVE AppInv'
  BY <1>1, Ended DEF ReadAddress, At, SendEnd, End
<1>2. CASE /\ argv[i] \in GoodPort
           /\ Len(peers) < MAXPEERS
           /\ peers' = Append(peers, argv[i])
           /\ i' = i + 1
           /\ UNCHANGED <<process, send_file>>
  <2>1. /\ pc = "addresses" /\ mode' = "up" /\ i <= Len(argv) /\ argv[i] \in Address
        /\ UNCHANGED <<open, bound, watched, socket_list, argv, pc, rsock, p, sent, program>>
    BY <1>2 DEF ReadAddress, At, process, sockets, send_file
  <2>2. /\ peers \in Seq(GoodPort) /\ Len(peers) \in Nat /\ MAXPEERS \in Nat
        /\ Len(argv) \in Nat /\ i \in 1 .. Len(argv) + 2
    BY SendAssumption, LenProperties DEF AppInv, TypeOK, AppType
  <2>3. peers' \in Seq(GoodPort) /\ Len(peers') = Len(peers) + 1
    BY <1>2, <2>2, AppendProperties
  <2>4. TypeOK'
    BY <1>2, <2>1, <2>2, <2>3 DEF AppInv, TypeOK
  <2>5. AppType' /\ SentInOrder' /\ SenderSockets'
    BY <2>1 DEF AppInv, AppType, SentInOrder, SenderSockets
  <2>6. Arguments'
    BY <1>2, <2>1, <2>2 DEF AppInv, Arguments
  <2> QED BY <2>1, <2>4, <2>5, <2>6, NothingSent, UpIsUnchecked DEF AppInv
<1> QED BY <1>1, <1>2 DEF ReadAddress

LEMMA EndOfAddressesKeeps ==
    ASSUME AppInv, program = "udp_fs", EndOfAddresses, UNCHANGED program
    PROVE  AppInv'
<1>1. CASE SendEnd("usage")
  BY <1>1, Ended DEF SendEnd, End
<1>2. CASE /\ peers # << >> /\ Goto("files") /\ i' = Restart(i)
           /\ UNCHANGED <<sockets, argv, rsock, peers, send_file>>
  <2>1. /\ pc = "addresses" /\ mode' = "up" /\ pc' = "files" /\ i' = 1
        /\ UNCHANGED <<open, bound, watched, socket_list, argv, rsock, peers, p, sent, program>>
    BY <1>2 DEF EndOfAddresses, At, Goto, Restart, sockets, send_file
  <2>2. Len(argv) \in Nat
    BY LenProperties DEF AppInv, AppType
  <2>3. TypeOK' /\ AppType'
    BY <2>1, <2>2 DEF AppInv, TypeOK, AppType, SendPlaces
  <2>4. Odd(1)
    BY DEF Odd
  <2>5. Arguments' /\ SenderSockets'
    BY <1>2, <2>1, <2>4 DEF AppInv, Arguments, SenderSockets
  <2>6. SentInOrder'
    BY <2>1 DEF AppInv, SentInOrder
  <2> QED BY <2>1, <2>3, <2>5, <2>6, NothingSent, UpIsUnchecked DEF AppInv
<1> QED BY <1>1, <1>2 DEF EndOfAddresses

LEMMA ReturnKeeps ==
    ASSUME AppInv, program = "udp_fs", Return \/ SendExit, UNCHANGED program
    PROVE  AppInv'
BY Ended DEF Return, SendExit, Exit, SendEnd, End

LEMMA OpenFileKeeps ==
    ASSUME AppInv, program = "udp_fs", OpenFile, UNCHANGED program
    PROVE  AppInv'
<1>1. CASE SendEnd("exited")
  BY <1>1, Ended DEF SendEnd, End
<1>2. CASE /\ argv[i] \in File /\ open # Fd
           /\ open' = open \cup {Lowest(Fd \ open)}
           /\ Goto("socket")
           /\ UNCHANGED <<mode, bound, watched, socket_list>>
           /\ UNCHANGED <<argv, rsock, sending>>
  <2>1. /\ pc = "files" /\ mode' = "up" /\ pc' = "socket" /\ i <= Len(argv)
        /\ UNCHANGED <<bound, watched, socket_list, argv, rsock, i, peers, p, sent, program>>
    BY <1>2 DEF OpenFile, At, Goto, sending, send_file
  <2>2. Lowest(Fd \ open) \in Fd
    BY <1>2, LowestIn, SocketAssumption DEF AppInv, TypeOK
  <2>3. TypeOK' /\ AppType'
    BY <1>2, <2>1, <2>2 DEF AppInv, TypeOK, AppType, SendPlaces
  <2>4. Arguments' /\ SenderSockets'
    <3>1. i = 1 \/ i > 1
      BY DEF AppInv, TypeOK
    <3> QED BY <1>2, <2>1, <3>1 DEF AppInv, Arguments, SenderSockets
  <2>5. SentInOrder'
    BY <1>2, <2>1 DEF AppInv, SentInOrder
  <2> QED BY <2>1, <2>3, <2>4, <2>5, NothingSent, UpIsUnchecked DEF AppInv
<1> QED BY <1>1, <1>2 DEF OpenFile

\* The next file is two arguments further on.
LEMMA OddNext == ASSUME NEW k \in Nat, Odd(k) PROVE Odd(k + 2)
<1>1. PICK j \in 0 .. k : k = 2 * j + 1
  BY DEF Odd
<1>2. j + 1 \in 0 .. k + 2 /\ k + 2 = 2 * (j + 1) + 1
  BY <1>1
<1> QED BY <1>2 DEF Odd

LEMMA OddNotNext == ASSUME NEW k \in Nat, Odd(k) PROVE ~ Odd(k + 1)
BY DEF Odd

\* What both ways back to the loop over the files have in common.
LEMMA BackToFiles ==
    ASSUME AppInv, program = "udp_fs", pc \in {"sendto", "close"}, Goto("files"),
           i' = NextFile(i), UNCHANGED <<argv, rsock, peers, send_file, program, open>>
    PROVE  /\ Arguments' /\ SentInOrder' /\ i' \in 1 .. Len(argv') + 2
           /\ FilesTaken' /\ FilesDoNotMix'
<1>1. pc' = "files" /\ i' = i + 2 /\ UNCHANGED <<p, sent>>
  BY DEF Goto, NextFile, send_file
<1>2. i \in Nat /\ i >= 1 /\ i <= Len(argv) /\ Len(argv) \in Nat
  BY LenProperties DEF AppInv, TypeOK, AppType, Arguments
<1>3. Odd(i) /\ argv[1] \in Address /\ argv[i] \in File /\ (i > 1 => argv[1] \in File)
  BY DEF AppInv, Arguments
<1>4. Odd(i')
  BY <1>1, <1>2, <1>3, OddNext
<1>5. Arguments'
  BY <1>1, <1>2, <1>3, <1>4 DEF Arguments
<1>6. \A x \in sent : x.file \in Nat
  BY DEF AppInv, AppType
<1>7. SentInOrder'
  BY <1>1, <1>2, <1>6 DEF AppInv, SentInOrder
<1> QED BY <1>1, <1>2, <1>5, <1>7 DEF AppInv, FilesTaken, FilesDoNotMix

LEMMA FileDoneKeeps ==
    ASSUME AppInv, program = "udp_fs", FileDone, UNCHANGED program
    PROVE  AppInv'
<1>1. /\ pc = "sendto" /\ mode' = "up" /\ pc' = "files"
      /\ UNCHANGED <<open, bound, watched, socket_list, argv, rsock, peers, p, sent, program>>
  BY DEF FileDone, At, Goto, sockets, send_file
<1>2. /\ Arguments' /\ SentInOrder' /\ i' \in 1 .. Len(argv') + 2
  BY <1>1, BackToFiles DEF FileDone
<1>3. TypeOK' /\ AppType'
  BY <1>1, <1>2 DEF AppInv, TypeOK, AppType, SendPlaces
<1>4. SenderSockets'
  BY <1>1 DEF AppInv, SenderSockets
<1> QED BY <1>1, <1>2, <1>3, <1>4, NothingSent, UpIsUnchecked DEF AppInv

\* rudp_close, for a socket that rudp_sendto has refused.
LEMMA GiveUpKeeps ==
    ASSUME AppInv, program = "udp_fs", GiveUp, UNCHANGED program
    PROVE  AppInv'
<1>1. PICK r \in {0, Error} : rudp_close(rsock, r)
  BY DEF GiveUp
<1>2. /\ pc = "close" /\ mode = "up" /\ pc' = "files"
      /\ UNCHANGED <<argv, rsock, peers, p, sent, program>>
  BY DEF GiveUp, At, Goto, send_file
<1>3. /\ SocketsOK /\ SocketsOK'
      /\ EmptyRead \/ UNCHANGED sockets \/ CloseMarks(rsock)
  <2>1. ~ FreedRead
    BY DEF AppInv, NothingFreed, FreedRead
  <2> QED BY <1>1, <2>1, AppSockets, CloseRequested
<1>4. UNCHANGED <<open, bound, watched>>
  BY <1>3 DEF EmptyRead, CloseMarks, Turns, Fail, sockets, kernel
<1>5. /\ Arguments' /\ SentInOrder' /\ i' \in 1 .. Len(argv') + 2
      /\ FilesTaken' /\ FilesDoNotMix'
  BY <1>2, <1>4, BackToFiles DEF GiveUp
<1>6. /\ NothingFreed'
      /\ \A k \in DOMAIN socket_list' : "receiver" \notin socket_list'[k].halves
  <2>1. CASE CloseMarks(rsock)
    <3>1. PICK n \in Found(rsock) :
             Turns(rsock, n, [socket_list[n] EXCEPT !.close_requested = TRUE])
      BY <2>1 DEF CloseMarks
    <3> DEFINE e == [socket_list[n] EXCEPT !.close_requested = TRUE]
    <3>2. n \in DOMAIN socket_list /\ socket_list[n] \in Entry
      BY <1>3, Lookup
    <3>3. /\ e.freed = socket_list[n].freed /\ e.sessions_freed = socket_list[n].sessions_freed
          /\ e.halves = socket_list[n].halves
      BY <3>2 DEF Entry
    <3>4. Replaces(n, e)
      BY <3>1 DEF Turns
    <3> HIDE DEF e
    <3>5. /\ DOMAIN socket_list' = DOMAIN socket_list /\ socket_list'[n] = e
          /\ \A k \in DOMAIN socket_list : k # n => socket_list'[k] = socket_list[k]
      BY <1>3, <3>4, ReplacesFacts DEF SameEntries
    <3> QED BY <1>2, <3>2, <3>3, <3>5 DEF AppInv, NothingFreed, SenderSockets
  <2>2. CASE UNCHANGED socket_list
    BY <2>2 DEF AppInv, NothingFreed, SenderSockets
  <2> QED BY <1>3, <2>1, <2>2 DEF EmptyRead, Fail, sockets
<1>7. SenderSockets'
  BY <1>2, <1>6 DEF SenderSockets
<1>8. mode' \in {"up"} \cup Failures
  BY <1>2, <1>3 DEF EmptyRead, CloseMarks, Turns, Fail, sockets, Failures
<1>9. TypeOK' /\ AppType'
  BY <1>2, <1>3, <1>5, <1>8, <1>4 DEF AppInv, TypeOK, AppType, SendPlaces, SocketsOK
<1>10. FailureIsUnchecked'
  <2>1. CASE EmptyRead
    <3>1. rsock = Error \/ Matching(rsock) # {}
      BY <1>2 DEF AppInv, SenderSockets
    <3>2. Matching(rsock) # {} => socket_list # << >>
      BY EmptySeq DEF Matching
    <3> QED BY <1>2, <2>1, <3>1, <3>2 DEF EmptyRead, FailureIsUnchecked
  <2> QED BY <1>2, <1>3, <2>1, UpIsUnchecked DEF CloseMarks, Turns, sockets
<1>11. ReceiverSockets'
  BY <1>2 DEF ReceiverSockets
<1> QED BY <1>5, <1>6, <1>7, <1>9, <1>10, <1>11 DEF AppInv

\* The socket of a file is a new one, or none.
LEMMA OpenSocketKeeps ==
    ASSUME AppInv, program = "udp_fs", OpenSocket, UNCHANGED program
    PROVE  AppInv'
<1>1. PICK r \in Result : /\ rudp_socket(AnyPort, r)
                          /\ rsock' = r
                          /\ pc' = IF r = Null THEN "exit" ELSE "sendto"
  BY DEF OpenSocket, CreateSocket, Goto, IsFailure, OnFailure
<1>2. /\ pc = "socket" /\ mode = "up" /\ p' = 1
      /\ UNCHANGED <<argv, i, peers, sent, program>>
  BY DEF OpenSocket, At
<1>3. ~ FreedRead
  BY DEF AppInv, NothingFreed, FreedRead
<1>4. /\ SocketsOK /\ SocketsOK'
      /\ NothingOpened(r) \/ (\E f \in Fd : LeftBehind(f, r)) \/ NewSocket(AnyPort, r)
  BY <1>1, <1>3, AppSockets, SocketCreated
<1>5. mode' = "up" /\ open \subseteq open'
  BY <1>2, <1>4 DEF NothingOpened, LeftBehind, NewSocket, sockets
<1>6. TypeOK' /\ AppType'
  <2>1. 1 \in 1 .. MAXPEERS + 1
    BY SendAssumption
  <2> QED BY <1>1, <1>2, <1>4, <1>5, <2>1
          DEF AppInv, TypeOK, AppType, SendPlaces, SocketsOK
<1>7. Arguments'
  BY <1>1, <1>2 DEF AppInv, Arguments
<1>8. /\ NothingFreed'
      /\ \A k \in DOMAIN socket_list' : "receiver" \notin socket_list'[k].halves
      /\ pc' = "sendto" => r = Error \/ (r \in open' /\ Matching(r)' # {})
  <2>1. CASE NewSocket(AnyPort, r)
    <3> DEFINE last == Len(socket_list) + 1
    <3>1. /\ DOMAIN socket_list' = DOMAIN socket_list \cup {last}
          /\ socket_list'[last] = NewEntry(r)
          /\ \A k \in DOMAIN socket_list : socket_list'[k] = socket_list[k]
          /\ r \in open'
      BY <1>4, <2>1, EntryAdded DEF NewSocket
    <3> HIDE DEF last
    <3>2. Matching(r)' # {}
      BY <3>1 DEF Matching, NewEntry
    <3> QED BY <1>2, <3>1, <3>2 DEF AppInv, NothingFreed, SenderSockets, NewEntry
  <2>2. CASE UNCHANGED socket_list /\ r \in {Null, Error}
    BY <1>1, <1>2, <2>2 DEF AppInv, NothingFreed, SenderSockets
  <2> QED BY <1>4, <2>1, <2>2 DEF NothingOpened, LeftBehind, sockets
<1>9. SenderSockets'
  <2>1. Matching(rsock)' # {} <=> Matching(r)' # {}
    BY <1>1 DEF Matching
  <2> QED BY <1>1, <1>8, <2>1 DEF SenderSockets
<1>10. SentInOrder'
  <2>1. ASSUME NEW x \in sent PROVE x.rsock \in open /\ x.file < i /\ x.file \in Nat
    BY <1>2 DEF AppInv, SentInOrder, AppType
  <2>2. r \notin open
    <3>1. Null \notin Fd /\ Error \notin Fd
      BY SocketAssumption DEF Null, Error
    <3> QED BY <1>4, <3>1 DEF NothingOpened, LeftBehind, NewSocket, SocketsOK
  <2>3. i \in Nat /\ 1 .. p' - 1 = {}
    BY <1>2 DEF AppInv, TypeOK
  <2>4. \A x \in sent : x.rsock # r /\ x.file <= i /\ x.file # i
    BY <2>1, <2>2, <2>3
  <2>5. \A x \in sent : x.rsock \in open' /\ Odd(x.file)
    BY <1>5, <2>1 DEF AppInv, SentInOrder
  <2>6. pc' \in {"exit", "sendto"} /\ rsock' = r /\ program' = "udp_fs"
    BY <1>1, <1>2
  <2> QED BY <1>2, <2>3, <2>4, <2>5, <2>6 DEF SentInOrder
<1>11. FilesTaken' /\ FilesDoNotMix' /\ ReceiverSockets'
  BY <1>2 DEF AppInv, FilesTaken, FilesDoNotMix, ReceiverSockets
<1> QED BY <1>5, <1>6, <1>7, <1>8, <1>9, <1>10, <1>11, UpIsUnchecked DEF AppInv

\* rudp_sendto takes the name of the file for one more peer.
LEMMA NameSent ==
    ASSUME AppInv, program = "udp_fs", At("sendto"), p <= Len(peers), rudp_sendto(rsock, 0),
           sent' = sent \cup {[file |-> i, peer |-> p, rsock |-> rsock]}, p' = p + 1,
           UNCHANGED <<pc, argv, i, peers, rsock, program>>
    PROVE  AppInv'
<1> DEFINE x == [file |-> i, peer |-> p, rsock |-> rsock]
<1>1. pc = "sendto" /\ mode = "up"
  BY DEF At
<1>2. SocketsOK /\ SocketsOK' /\ GetsHalf(rsock, "sender")
  <2>1. 0 # Error
    BY DEF Error
  <2> QED BY <2>1, AppSockets, SentTo
<1>3. UNCHANGED <<mode, open, bound, watched>>
  BY <1>2 DEF GetsHalf, Turns, kernel
<1>4. /\ i \in Nat /\ p \in Nat /\ p >= 1 /\ p <= MAXPEERS /\ Len(peers) \in Nat
      /\ Len(peers) <= MAXPEERS /\ MAXPEERS \in Nat
  BY SendAssumption, LenProperties DEF AppInv, TypeOK
<1> PICK n \in Found(rsock) :
        Turns(rsock, n, [socket_list[n] EXCEPT !.halves = @ \cup {"sender"}])
  BY <1>2 DEF GetsHalf
<1> DEFINE e == [socket_list[n] EXCEPT !.halves = @ \cup {"sender"}]
<1>5. /\ n \in DOMAIN socket_list /\ socket_list[n] \in Entry
      /\ socket_list[n].rsock = rsock /\ rsock \in Fd
  BY <1>2, Lookup DEF Entry
<1>6. /\ e.freed = socket_list[n].freed /\ e.sessions_freed = socket_list[n].sessions_freed
      /\ e.halves = socket_list[n].halves \cup {"sender"}
  BY <1>5 DEF Entry
<1>7. Replaces(n, e)
  BY DEF Turns
<1> HIDE DEF e
<1>8. /\ SameEntries /\ DOMAIN socket_list' = DOMAIN socket_list /\ socket_list'[n] = e
      /\ \A k \in DOMAIN socket_list : k # n => socket_list'[k] = socket_list[k]
  BY <1>2, <1>7, ReplacesFacts DEF SameEntries
<1>9. NothingFreed'
  BY <1>5, <1>6, <1>8 DEF AppInv, NothingFreed
<1>10. rsock # Error /\ rsock \in open /\ Matching(rsock) # {}
  <2>1. Error \notin Fd
    BY SocketAssumption DEF Error
  <2> QED BY <1>1, <1>5, <2>1 DEF AppInv, SenderSockets
<1>11. SenderSockets'
  <2>1. Matching(rsock)' # {}
    BY <1>8, <1>10 DEF Matching, SameEntries
  <2>2. \A k \in DOMAIN socket_list' : "receiver" \notin socket_list'[k].halves
    BY <1>5, <1>6, <1>8 DEF AppInv, SenderSockets
  <2> QED BY <1>3, <1>10, <2>1, <2>2 DEF SenderSockets
<1>12. x \in [file : Nat, peer : Nat \ {0}, rsock : Fd]
       /\ x.file = i /\ x.peer = p /\ x.rsock = rsock
  BY <1>4, <1>5
<1>13. TypeOK'
  BY <1>2, <1>3, <1>4 DEF AppInv, TypeOK, SocketsOK
<1>14. AppType'
  <2> HIDE DEF x
  <2>1. sent' = sent \cup {x}
    BY DEF x
  <2> QED BY <1>3, <1>12, <2>1 DEF AppInv, AppType
<1>15. Arguments' /\ ReceiverSockets'
  BY DEF AppInv, Arguments, ReceiverSockets
<1>16. /\ Odd(i) /\ argv[1] \in Address /\ argv[i] \in File /\ (i > 1 => argv[1] \in File)
       /\ argv[1] \in File
  <2>1. i = 1 \/ i > 1
    BY DEF AppInv, TypeOK
  <2> QED BY <1>1, <2>1 DEF AppInv, Arguments
<1>17. \A y \in sent : /\ y \in [file : Nat, peer : Nat \ {0}, rsock : Fd]
                       /\ Odd(y.file) /\ y.file <= i /\ (y.file = i <=> y.rsock = rsock)
                       /\ y.rsock \in open
  BY <1>1 DEF AppInv, AppType, SentInOrder
<1>18. \A q \in 1 .. p - 1 : [file |-> i, peer |-> q, rsock |-> rsock] \in sent
  BY <1>1 DEF AppInv, SentInOrder
<1>19. \A q \in 1 .. p : [file |-> i, peer |-> q, rsock |-> rsock] \in sent'
  <2> TAKE q \in 1 .. p
  <2>1. q \in 1 .. p - 1 \/ q = p
    BY <1>4
  <2> QED BY <1>18, <2>1
<1>20. SentInOrder'
  <2> HIDE DEF x
  <2>1. sent' = sent \cup {x}
    BY DEF x
  <2>2. p' - 1 = p
    BY <1>4
  <2>3. \A q \in 1 .. p' - 1 : [file |-> i', peer |-> q, rsock |-> rsock'] \in sent'
    BY <1>19, <2>2
  <2>4. \A y \in sent' : /\ y.rsock \in open' /\ Odd(y.file)
                         /\ y.file <= i' /\ (y.file = i' <=> y.rsock = rsock')
    BY <1>3, <1>4, <1>10, <1>12, <1>16, <1>17, <2>1
  <2> QED BY <1>1, <2>3, <2>4 DEF SentInOrder
<1>21. FilesTaken'
  <2>1. ASSUME NEW y \in sent', NEW z \in sent' PROVE z.file # y.file + 1
    <3>1. y.file \in Nat /\ Odd(y.file) /\ Odd(z.file)
      BY <1>12, <1>16, <1>17
    <3> QED BY <3>1, OddNotNext
  <2>2. ASSUME NEW y \in sent' PROVE argv[1] \in Address \cap File /\ argv[y.file] \in File
    BY <1>12, <1>16 DEF AppInv, FilesTaken
  <2> QED BY <2>1, <2>2 DEF FilesTaken
<1>22. FilesDoNotMix'
  <2>1. ASSUME NEW y \in sent', NEW z \in sent' PROVE y.file = z.file <=> y.rsock = z.rsock
    <3> HIDE DEF x
    <3>1. sent' = sent \cup {x}
      BY DEF x
    <3>2. CASE y \in sent /\ z \in sent
      BY <3>2 DEF AppInv, FilesDoNotMix
    <3> QED BY <1>12, <1>17, <3>1, <3>2
  <2>2. ASSUME NEW y \in sent', NEW q \in 1 .. y.peer PROVE [y EXCEPT !.peer = q] \in sent'
    <3>1. CASE y \in sent
      BY <2>2, <3>1 DEF AppInv, FilesDoNotMix
    <3>2. CASE y = x
      <4>1. [y EXCEPT !.peer = q] = [file |-> i, peer |-> q, rsock |-> rsock]
        BY <3>2
      <4>2. q \in 1 .. p
        BY <2>2, <3>2
      <4> QED BY <1>19, <4>1, <4>2
    <3> QED BY <2>2, <3>1, <3>2
  <2> QED BY <2>1, <2>2 DEF FilesDoNotMix
<1>23. FailureIsUnchecked'
  BY <1>1, <1>3, UpIsUnchecked
<1> QED BY <1>9, <1>11, <1>13, <1>14, <1>15, <1>20, <1>21, <1>22, <1>23 DEF AppInv

\* rudp_sendto fails: the socket is not in the list, or malloc has failed.
LEMMA NameRefused ==
    ASSUME AppInv, program = "udp_fs", At("sendto"), rudp_sendto(rsock, Error), Goto("close"),
           UNCHANGED <<argv, i, peers, rsock, p, sent, program>>
    PROVE  AppInv'
<1>1. pc = "sendto" /\ pc' = "close" /\ mode = "up"
  BY DEF At, Goto
<1>2. /\ SocketsOK /\ SocketsOK'
      /\ UNCHANGED sockets \/ SendtoFailing(rsock)
  <2>1. 0 # Error
    BY DEF Error
  <2> QED BY <2>1, AppSockets, SentTo
<1>3. UNCHANGED <<open, bound, watched, socket_list>>
  BY <1>2 DEF SendtoFailing, Fail, sockets, kernel
<1>4. SendtoFailing(rsock) => rsock = Error
  BY <1>1 DEF AppInv, NothingFreed, SenderSockets, SendtoFailing, Missed, Matching
<1>5. FailureIsUnchecked'
  <2>1. CASE SendtoFailing(rsock)
    BY <1>4, <2>1 DEF FailureIsUnchecked
  <2> QED BY <1>1, <1>2, <2>1, UpIsUnchecked DEF sockets
<1>6. mode' \in {"up"} \cup Failures
  BY <1>1, <1>2 DEF SendtoFailing, Fail, sockets, Failures
<1>7. TypeOK' /\ AppType'
  BY <1>1, <1>3, <1>6 DEF AppInv, TypeOK, AppType, SendPlaces
<1>8. Arguments' /\ SentInOrder'
  BY <1>1, <1>3 DEF AppInv, Arguments, SentInOrder
<1>9. SenderSockets'
  BY <1>1, <1>3 DEF AppInv, SenderSockets, Matching
<1> QED BY <1>3, <1>5, <1>7, <1>8, <1>9, NothingSent DEF AppInv

LEMMA SenderKeeps ==
    ASSUME AppInv, program = "udp_fs", SendNext, UNCHANGED program
    PROVE  AppInv'
<1>1. CASE SendName
  BY <1>1, NameSent, NameRefused DEF SendName
<1> QED BY <1>1, GetOptKeeps, ReadAddressKeeps, EndOfAddressesKeeps, ReturnKeeps, OpenFileKeeps,
           OpenSocketKeeps, FileDoneKeeps, GiveUpKeeps DEF SendNext

-----------------------------------------------------------------------------
(***************************************************************************)
(* The steps of rudp_recv.c, which leave what belongs to udp_fs.c alone.   *)
(***************************************************************************)
\* A step that leaves the process up, with the arguments and the addresses
\* as they are.
LEMMA ReceiverStep ==
    ASSUME AppInv, program = "rudp_recv", UNCHANGED <<program, argv, sending>>,
           mode' = "up", SocketsOK', rsock' \in Result, pc' \in RecvPlaces,
           NothingFreed', ReceiverSockets'
    PROVE  AppInv'
<1>1. UNCHANGED <<i, peers, p, sent>>
  BY DEF sending, send_file
<1>2. TypeOK' /\ AppType'
  BY <1>1 DEF AppInv, TypeOK, AppType, SocketsOK
<1>3. sent' = {} /\ program' = "rudp_recv"
  BY <1>1 DEF AppInv, SentInOrder
<1>4. pc' # "sendto"
  BY DEF RecvPlaces
<1>5. Arguments' /\ SentInOrder' /\ FilesTaken' /\ FilesDoNotMix' /\ SenderSockets'
  BY <1>3, <1>4 DEF Arguments, SentInOrder, FilesTaken, FilesDoNotMix, SenderSockets
<1> QED BY <1>2, <1>5, UpIsUnchecked DEF AppInv

LEMMA ReadArgumentsKeeps ==
    ASSUME AppInv, program = "rudp_recv", ReadArguments, UNCHANGED <<sending, program>>
    PROVE  AppInv'
<1>1. ASSUME NEW what \in {"usage", "exited"}, End(what) PROVE AppInv'
  BY <1>1, Ended DEF End
<1>2. CASE /\ Len(argv) = 1 /\ ~ atoi[argv[1]] <= 0
           /\ Goto("rudp_socket") /\ UNCHANGED <<sockets, argv, rsock>>
  <2>1. /\ pc = "getopt" /\ mode' = "up" /\ pc' = "rudp_socket"
        /\ UNCHANGED <<mode, open, bound, watched, socket_list>>
    BY <1>2 DEF ReadArguments, At, Goto, sockets
  <2>2. atoi[argv[1]] \in Port
    <3>1. argv[1] \in Argument
      BY <1>2, LenProperties DEF AppInv, AppType
    <3>2. atoi[argv[1]] \in Int /\ atoi[argv[1]] \in {atoi[x] : x \in Argument}
      BY <3>1, RecvAssumption
    <3> QED BY <1>2, <3>2, RecvAssumption
  <2>3. socket_list = << >> /\ socket_list' = << >>
    BY <2>1 DEF AppInv, ReceiverSockets
  <2>4. ReceiverSockets' /\ NothingFreed'
    <3>1. DOMAIN socket_list' = {}
      BY <2>3, EmptySeq
    <3> QED BY <1>2, <2>1, <2>2, <2>3, <3>1 DEF ReceiverSockets, NothingFreed
  <2>5. SocketsOK' /\ rsock' \in Result
    BY <1>2, <2>1 DEF AppInv, TypeOK, AppType, SocketsOK
  <2> QED BY <1>2, <2>1, <2>4, <2>5, ReceiverStep DEF RecvPlaces
<1> QED BY <1>1, <1>2 DEF ReadArguments

LEMMA CreateListenerKeeps ==
    ASSUME AppInv, program = "rudp_recv", CreateListener, UNCHANGED <<sending, program>>
    PROVE  AppInv'
<1> DEFINE port == atoi[argv[1]]
<1>1. PICK r \in Result : /\ rudp_socket(port, r)
                          /\ rsock' = r
                          /\ pc' = IF r = Null THEN "exit" ELSE "recvfrom_handler"
  BY DEF CreateListener, CreateSocket, Goto, IsFailure, OnFailure
<1>2. pc = "rudp_socket" /\ mode = "up" /\ UNCHANGED <<argv, program>>
  BY DEF CreateListener, At
<1>3. Len(argv) = 1 /\ port \in Port /\ socket_list = << >>
  BY <1>2 DEF AppInv, ReceiverSockets
<1>4. Len(socket_list) = 0 /\ DOMAIN socket_list = {}
  BY <1>3, EmptySeq
<1>5. ~ FreedRead
  BY <1>4 DEF FreedRead
<1>6. /\ SocketsOK /\ SocketsOK'
      /\ NothingOpened(r) \/ (\E f \in Fd : LeftBehind(f, r)) \/ NewSocket(port, r)
  BY <1>1, <1>3, <1>5, AppSockets, SocketCreated
<1>7. mode' = "up"
  BY <1>2, <1>6 DEF NothingOpened, LeftBehind, NewSocket, sockets
<1>8. pc' \in {"exit", "recvfrom_handler"} /\ pc' \in RecvPlaces
  BY <1>1 DEF RecvPlaces
<1>9. NothingFreed' /\ ReceiverSockets'
  <2>1. CASE UNCHANGED socket_list
    BY <1>2, <1>3, <1>4, <1>8, <2>1 DEF NothingFreed, ReceiverSockets
  <2>2. CASE NewSocket(port, r)
    <3>1. /\ DOMAIN socket_list' = {1} /\ socket_list'[1] = NewEntry(r)
      BY <1>4, <1>6, <2>2, EntryAdded DEF NewSocket
    <3>2. ASSUME NEW k \in DOMAIN socket_list'
          PROVE  /\ ~ socket_list'[k].close_requested /\ ~ socket_list'[k].freed
                 /\ ~ socket_list'[k].sessions_freed /\ socket_list'[k].halves = {}
      BY <3>1, <3>2 DEF NewEntry
    <3>3. NothingFreed'
      BY <3>2 DEF NothingFreed
    <3>4. ReceiverSockets'
      BY <1>2, <1>3, <1>8, <3>2 DEF ReceiverSockets
    <3> QED BY <3>3, <3>4
  <2> QED BY <1>6, <2>1, <2>2 DEF NothingOpened, LeftBehind, sockets
<1> QED BY <1>1, <1>2, <1>6, <1>7, <1>8, <1>9, ReceiverStep

\* An entry is replaced by one of the same kind, once there is a socket.
LEMMA ReceiverTurns ==
    ASSUME AppInv, program = "rudp_recv", UNCHANGED <<program, argv, sending, rsock>>,
           mode = "up", NEW h, NEW n, NEW e, Turns(h, n, e),
           pc \in {"recvfrom_handler", "event_handler", "eventloop"},
           pc' \in {"event_handler", "eventloop"}, pc = "eventloop" => pc' = "eventloop",
           e.close_requested = socket_list[n].close_requested,
           e.freed = socket_list[n].freed, e.sessions_freed = socket_list[n].sessions_freed,
           e.halves # socket_list[n].halves => pc' = "eventloop"
    PROVE  AppInv'
<1>1. /\ SocketsOK' /\ DOMAIN socket_list' = DOMAIN socket_list /\ n \in DOMAIN socket_list
      /\ socket_list'[n] = e /\ mode' = "up"
      /\ \A k \in DOMAIN socket_list : k # n => socket_list'[k] = socket_list[k]
  BY AppSockets, TurnsFacts, ReplacesFacts DEF Turns, Replaces, SameEntries
<1>2. NothingFreed'
  BY <1>1 DEF AppInv, NothingFreed
<1>3. ReceiverSockets'
  BY <1>1 DEF AppInv, ReceiverSockets
<1> QED BY <1>1, <1>2, <1>3, ReceiverStep DEF RecvPlaces, AppInv, TypeOK

\* The sockets stay as they are, and the program goes on.
LEMMA ReceiverStays ==
    ASSUME AppInv, program = "rudp_recv", UNCHANGED <<program, argv, sending, rsock, sockets>>,
           mode = "up", pc \in {"recvfrom_handler", "event_handler", "eventloop"},
           pc' \in {"event_handler", "eventloop"}, pc = "eventloop" => pc' = "eventloop"
    PROVE  AppInv'
<1>1. UNCHANGED <<mode, open, bound, watched, socket_list>>
  BY DEF sockets
<1>2. NothingFreed' /\ ReceiverSockets' /\ SocketsOK'
  BY <1>1, AppSockets DEF AppInv, NothingFreed, ReceiverSockets, SocketsOK
<1> QED BY <1>1, <1>2, ReceiverStep DEF RecvPlaces, AppInv, TypeOK

LEMMA SetHandlerKeeps ==
    ASSUME AppInv, program = "rudp_recv", SetRecvfromHandler \/ SetEventHandler,
           UNCHANGED <<sending, program>>
    PROVE  AppInv'
<1>1. /\ mode = "up" /\ UNCHANGED <<argv, rsock>> /\ pc' \in {"event_handler", "eventloop"}
      /\ pc \in {"recvfrom_handler", "event_handler"}
  BY DEF SetRecvfromHandler, SetEventHandler, At, Goto
<1>2. UNCHANGED sockets \/ HandlerSet(rsock)
  <2>1. ~ FreedRead
    BY DEF AppInv, NothingFreed, FreedRead
  <2> QED BY <2>1, AppSockets, RecvHandlerSet, EventHandlerSet
          DEF SetRecvfromHandler, SetEventHandler
<1>3. CASE HandlerSet(rsock)
  <2>1. PICK n \in Found(rsock), e \in Entry :
           SameButHandlers(socket_list[n], e) /\ Turns(rsock, n, e)
    BY <1>3 DEF HandlerSet
  <2> QED BY <1>1, <2>1, ReceiverTurns DEF SameButHandlers
<1> QED BY <1>1, <1>2, <1>3, ReceiverStays

\* A datagram starts the receiving half of a session, or changes nothing, or
\* meets a null pointer where there is a session already.
LEMMA EventLoopKeeps ==
    ASSUME AppInv, program = "rudp_recv", EventLoop, UNCHANGED <<sending, program>>
    PROVE  AppInv'
<1>1. PICK fd \in Fd : receive_callback(fd)
  BY DEF EventLoop
<1>2. pc = "eventloop" /\ mode = "up" /\ UNCHANGED <<argv, pc, rsock>>
  BY DEF EventLoop, At
<1>3. \A k \in DOMAIN socket_list : /\ ~ socket_list[k].freed
                                    /\ ~ socket_list[k].sessions_freed
                                    /\ ~ socket_list[k].close_requested
  BY DEF AppInv, NothingFreed, ReceiverSockets
<1>4. UNCHANGED sockets \/ ReceiveFails(fd) \/ GetsHalf(fd, "receiver")
  <2>1. ASSUME NEW k \in Found(fd) PROVE ~ MayClose(k)
    BY <1>3, AppSockets, Lookup DEF MayClose
  <2> QED BY <1>1, <2>1, AppSockets, Received DEF FreesSessions, Closes
<1>5. CASE ReceiveFails(fd)
  <2>1. PICK n \in Found(fd), what \in Failures :
           /\ socket_list[n].sessions_freed \/ socket_list[n].halves # {}
           /\ Fail(what)
    BY <1>3, <1>5 DEF ReceiveFails, FreedRead
  <2>2. n \in DOMAIN socket_list /\ socket_list[n].halves # {}
    BY <1>3, <2>1, AppSockets, Lookup
  <2>3. /\ mode' = what
        /\ UNCHANGED <<open, bound, watched, socket_list, argv, pc, rsock, i, peers, p, sent, program>>
    BY <1>2, <2>1 DEF Fail, kernel, sending, send_file
  <2>4. TypeOK' /\ AppType'
    BY <2>3 DEF AppInv, TypeOK, AppType
  <2>5. Arguments' /\ SentInOrder' /\ FilesTaken' /\ FilesDoNotMix'
    BY <2>3 DEF AppInv, Arguments, SentInOrder, FilesTaken, FilesDoNotMix
  <2>6. NothingFreed' /\ SenderSockets' /\ ReceiverSockets'
    BY <2>3 DEF AppInv, NothingFreed, SenderSockets, Matching, ReceiverSockets
  <2>7. FailureIsUnchecked'
    BY <1>2, <2>2, <2>3 DEF FailureIsUnchecked
  <2> QED BY <2>4, <2>5, <2>6, <2>7 DEF AppInv
<1>6. CASE GetsHalf(fd, "receiver")
  <2>1. PICK n \in Found(fd) :
           Turns(fd, n, [socket_list[n] EXCEPT !.halves = @ \cup {"receiver"}])
    BY <1>6 DEF GetsHalf
  <2> DEFINE e == [socket_list[n] EXCEPT !.halves = @ \cup {"receiver"}]
  <2>2. socket_list[n] \in Entry
    BY AppSockets, Lookup
  <2>3. /\ e.close_requested = socket_list[n].close_requested
        /\ e.freed = socket_list[n].freed
        /\ e.sessions_freed = socket_list[n].sessions_freed
    BY <2>2 DEF Entry
  <2>4. Turns(fd, n, e)
    BY <2>1
  <2> HIDE DEF e
  <2> QED BY <1>2, <2>3, <2>4, ReceiverTurns
<1> QED BY <1>2, <1>4, <1>5, <1>6, ReceiverStays

LEMMA ReceiverKeeps ==
    ASSUME AppInv, program = "rudp_recv", RecvNext, UNCHANGED <<sending, program>>
    PROVE  AppInv'
<1>1. CASE Exit
  BY <1>1, Ended DEF Exit, End
<1> QED BY <1>1, ReadArgumentsKeeps, CreateListenerKeeps, SetHandlerKeeps, EventLoopKeeps
        DEF RecvNext

-----------------------------------------------------------------------------
LEMMA AppsNext == ASSUME AppInv, [Next]_vars PROVE AppInv'
<1>1. CASE Next
  BY <1>1, SenderKeeps, ReceiverKeeps DEF Next
<1>2. CASE UNCHANGED vars
  <2>1. UNCHANGED <<mode, open, bound, watched, socket_list, argv, pc, rsock, i, peers, p, sent,
                    program>>
    BY <1>2 DEF vars, process, sockets, sending, send_file
  <2>2. TypeOK' /\ AppType' /\ FailureIsUnchecked'
    BY <2>1 DEF AppInv, TypeOK, AppType, FailureIsUnchecked
  <2>3. Arguments' /\ SentInOrder' /\ FilesTaken' /\ FilesDoNotMix'
    BY <2>1 DEF AppInv, Arguments, SentInOrder, FilesTaken, FilesDoNotMix
  <2>4. NothingFreed' /\ SenderSockets' /\ ReceiverSockets'
    BY <2>1 DEF AppInv, NothingFreed, SenderSockets, Matching, ReceiverSockets
  <2> QED BY <2>2, <2>3, <2>4 DEF AppInv
<1> QED BY <1>1, <1>2

LEMMA AppsCorrect == Spec => []AppInv
  BY AppsInit, AppsNext, PTL DEF Spec

\* The variables of both programs have their types, whatever the arguments:
\* main's index never passes the arguments by more than two, and no more
\* peers are taken than the array has room for.
THEOREM AppsTypeCorrect == Spec => []TypeOK
  BY AppsCorrect, PTL DEF AppInv

(***************************************************************************)
(* Of any command line, udp_fs.c sends nothing unless the first argument   *)
(* is both an address and a file, and never two arguments in a row.        *)
(***************************************************************************)
THEOREM FilesTakenCorrect == Spec => []FilesTaken
  BY AppsCorrect, PTL DEF AppInv

(***************************************************************************)
(* Each file goes over a socket of its own, to the peers in their order:   *)
(* rudp_socket never returns a descriptor that is open, and udp_fs.c never *)
(* gets as far as closing one.                                             *)
(***************************************************************************)
THEOREM FilesDoNotMixCorrect == Spec => []FilesDoNotMix
  BY AppsCorrect, PTL DEF AppInv

(***************************************************************************)
(* rudp_recv.c fails only in its event loop, on a datagram that comes when *)
(* a peer has a session with it; udp_fs.c only while it reads addresses or *)
(* with -1 for a socket.                                                   *)
(***************************************************************************)
THEOREM UncheckedCorrect == Spec => []FailureIsUnchecked
  BY AppsCorrect, PTL DEF AppInv

=============================================================================
