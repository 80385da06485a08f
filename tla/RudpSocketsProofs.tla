-------------------------- MODULE RudpSocketsProofs --------------------------
(***************************************************************************)
(* What the functions of RudpSockets do to the list of sockets and to the  *)
(* descriptors, for any application, any number of descriptors and any     *)
(* ports.                                                                  *)
(***************************************************************************)
EXTENDS RudpSockets, FiniteSetTheorems, SequenceTheorems, TLAPS

\* The lowest of any natural numbers.
LEMMA LowestIn ==
    ASSUME NEW S, S \subseteq Nat, S # {}
    PROVE  Lowest(S) \in S /\ \A y \in S : Lowest(S) <= y
<1> DEFINE Upto == [x \in Nat |-> 0 .. x]
           T == {Upto[x] : x \in S}
<1>1. /\ T \subseteq FiniteSubsetsOf(Nat) /\ T # {}
      /\ \A x \in S : Upto[x] \in SUBSET Nat
  <2>1. ASSUME NEW x \in S PROVE Upto[x] \in SUBSET Nat /\ IsFiniteSet(Upto[x])
    <3>1. x \in Nat /\ 0 \in Int /\ x \in Int
      OBVIOUS
    <3>2. IsFiniteSet(0 .. x)
      BY <3>1, FS_Interval
    <3>3. Upto[x] = 0 .. x
      BY <3>1
    <3> QED BY <3>1, <3>2, <3>3
  <2> HIDE DEF Upto
  <2> QED BY <2>1 DEF FiniteSubsetsOf
<1>2. IsWellFoundedOn(StrictSubsetOrdering(Nat), FiniteSubsetsOf(Nat))
  BY FS_StrictSubsetOrderingWellFounded
<1> HIDE DEF T
<1>3. \E t \in T : \A u \in T : ~ (<<u, t>> \in StrictSubsetOrdering(Nat))
  BY <1>1, <1>2, WFMin
<1>4. PICK x \in S : \A y \in S : ~ (<<Upto[y], Upto[x]>> \in StrictSubsetOrdering(Nat))
  <2> HIDE DEF Upto
  <2> QED BY <1>3 DEF T
<1>5. ASSUME NEW y \in S, ~ x <= y PROVE FALSE
  <2>1. x \in Nat /\ y \in Nat /\ y < x
    BY <1>5
  <2>2. Upto[y] = 0 .. y /\ Upto[x] = 0 .. x
    BY <2>1
  <2>3. Upto[y] \subseteq Upto[x] /\ x \in Upto[x] /\ x \notin Upto[y]
    BY <2>1, <2>2
  <2> HIDE DEF Upto
  <2>4. <<Upto[y], Upto[x]>> \in StrictSubsetOrdering(Nat)
    BY <1>1, <2>3 DEF StrictSubsetOrdering
  <2> QED BY <1>4, <2>4
<1>6. \A y \in S : x <= y
  BY <1>5
<1> QED BY <1>6 DEF Lowest

-----------------------------------------------------------------------------
(***************************************************************************)
(* The list and the descriptors have their types, whatever the mode is.    *)
(***************************************************************************)
SocketsOK ==
    /\ open \subseteq Fd
    /\ bound \in [Fd -> Port \cup {AnyPort}]
    /\ watched \subseteq Fd
    /\ socket_list \in Seq(Entry)

LEMMA ListFacts ==
    ASSUME SocketsOK
    PROVE  /\ Len(socket_list) \in Nat
           /\ DOMAIN socket_list = 1 .. Len(socket_list)
           /\ DOMAIN socket_list \subseteq Nat
           /\ \A i \in DOMAIN socket_list : socket_list[i] \in Entry
<1>1. socket_list \in Seq(Entry)
  BY DEF SocketsOK
<1> QED BY <1>1, LenProperties

\* The lookup stops at an entry with the descriptor, and reads no others than
\* those of the list.
LEMMA Lookup ==
    ASSUME SocketsOK, NEW h
    PROVE  /\ \A i \in Found(h) : /\ i \in DOMAIN socket_list
                                 /\ socket_list[i].rsock = h
                                 /\ socket_list[i] \in Entry
           /\ ReadsFreed(Walked(h)) => \E i \in DOMAIN socket_list : socket_list[i].freed
<1>1. Found(h) \subseteq Matching(h) /\ Matching(h) \subseteq DOMAIN socket_list
  BY DEF Found, Matching
<1>2. Walked(h) \subseteq DOMAIN socket_list
  BY DEF Walked
<1> QED BY <1>1, <1>2, ListFacts DEF Matching, ReadsFreed

\* The entry of a descriptor is replaced.
LEMMA EntryReplaced ==
    ASSUME SocketsOK, NEW i \in DOMAIN socket_list, NEW e \in Entry,
           socket_list' = [socket_list EXCEPT ![i] = e]
    PROVE  /\ socket_list' \in Seq(Entry)
           /\ DOMAIN socket_list' = DOMAIN socket_list
           /\ socket_list'[i] = e
           /\ \A j \in DOMAIN socket_list : j # i => socket_list'[j] = socket_list[j]
<1>1. socket_list \in Seq(Entry) /\ i \in 1 .. Len(socket_list)
  BY ListFacts DEF SocketsOK
<1>2. socket_list' \in Seq(Entry)
  BY <1>1, ExceptSeq
<1> QED BY <1>1, <1>2

\* A new entry comes last.
LEMMA EntryAdded ==
    ASSUME SocketsOK, NEW r \in Fd, socket_list' = WithSocket(socket_list, r)
    PROVE  LET last == Len(socket_list) + 1 IN
           /\ NewEntry(r) \in Entry
           /\ socket_list' \in Seq(Entry)
           /\ DOMAIN socket_list' = DOMAIN socket_list \cup {last}
           /\ last \notin DOMAIN socket_list
           /\ socket_list'[last] = NewEntry(r)
           /\ \A j \in DOMAIN socket_list : socket_list'[j] = socket_list[j]
<1> DEFINE last == Len(socket_list) + 1
<1>1. socket_list \in Seq(Entry) /\ NewEntry(r) \in Entry
  BY DEF SocketsOK, NewEntry, Entry
<1>2. /\ socket_list' \in Seq(Entry) /\ Len(socket_list') = last
      /\ \A j \in 1 .. Len(socket_list) : socket_list'[j] = socket_list[j]
      /\ socket_list'[last] = NewEntry(r)
  BY <1>1, AppendProperties DEF WithSocket
<1>3. DOMAIN socket_list' = 1 .. last
  BY <1>2, LenProperties
<1>4. Len(socket_list) \in Nat /\ DOMAIN socket_list = 1 .. Len(socket_list)
  BY ListFacts
<1> QED BY <1>1, <1>2, <1>3, <1>4

-----------------------------------------------------------------------------
(***************************************************************************)
(* The functions of the API.  Every step but those of rudp_socket leaves   *)
(* each entry at its place, under its descriptor.                          *)
(***************************************************************************)
SameEntries ==
    /\ DOMAIN socket_list' = DOMAIN socket_list
    /\ \A i \in DOMAIN socket_list : socket_list'[i].rsock = socket_list[i].rsock

\* Only the entry i differs, and it is e now.
Replaces(i, e) ==
    /\ i \in DOMAIN socket_list
    /\ e \in Entry
    /\ e.rsock = socket_list[i].rsock
    /\ socket_list' = [socket_list EXCEPT ![i] = e]

LEMMA ReplacesFacts ==
    ASSUME SocketsOK, NEW i, NEW e, Replaces(i, e)
    PROVE  /\ socket_list' \in Seq(Entry)
           /\ SameEntries
           /\ socket_list'[i] = e
           /\ \A j \in DOMAIN socket_list : j # i => socket_list'[j] = socket_list[j]
BY EntryReplaced DEF Replaces, SameEntries

\* The four outcomes of rudp_socket: nothing was opened, a descriptor was left
\* behind, a freed entry was read, or there is a new entry.
NothingOpened(r) == UNCHANGED sockets /\ open = Fd /\ r = Null

LeftBehind(f, r) ==
    /\ f \in Fd \ open
    /\ open' = open \cup {f}
    /\ r \in {Null, Error}
    /\ UNCHANGED <<mode, watched, socket_list>>

FreedRead ==
    /\ \E i \in DOMAIN socket_list : socket_list[i].freed
    /\ Fail("undefined")

NewSocket(port, r) ==
    /\ r \in Fd \ open
    /\ open' = open \cup {r}
    /\ bound' = [bound EXCEPT ![r] = port]
    /\ socket_list' = WithSocket(socket_list, r)
    /\ watched' \in {watched, watched \cup {r}}
    /\ UNCHANGED mode

LEMMA SocketCreated ==
    ASSUME SocketsOK, NEW port \in Port \cup {AnyPort}, NEW r, rudp_socket(port, r)
    PROVE  /\ SocketsOK'
           /\ \/ NothingOpened(r)
              \/ \E f \in Fd : LeftBehind(f, r)
              \/ FreedRead /\ r \in Fd \ open
              \/ NewSocket(port, r)
<1>1. CASE NoDescriptor(r)
  BY <1>1 DEF NoDescriptor, NothingOpened, SocketsOK, sockets
<1> DEFINE f == Lowest(Fd \ open)
<1>2. ASSUME open # Fd PROVE f \in Fd \ open
  BY <1>2, LowestIn, SocketAssumption DEF SocketsOK
<1> HIDE DEF f
<1>3. CASE BindFails(port, r)
  <2>1. LeftBehind(f, r) /\ UNCHANGED bound
    BY <1>2, <1>3 DEF BindFails, LeftBehind, f
  <2> QED BY <2>1 DEF LeftBehind, SocketsOK
<1>4. CASE MallocFails(port, r)
  <2>1. LeftBehind(f, r) /\ bound' = [bound EXCEPT ![f] = port]
    BY <1>2, <1>4 DEF MallocFails, LeftBehind, f
  <2> QED BY <2>1 DEF LeftBehind, SocketsOK
<1>5. CASE Registers(port, r)
  <2>1. r \in Fd \ open
    BY <1>2, <1>5 DEF Registers, f
  <2>2. CASE ReadsFreed(DOMAIN socket_list) /\ Fail("undefined")
    BY <2>1, <2>2 DEF ReadsFreed, FreedRead, Fail, kernel, SocketsOK
  <2>3. CASE NewSocket(port, r)
    <3>1. socket_list' \in Seq(Entry)
      BY <2>3, EntryAdded DEF NewSocket
    <3> QED BY <2>3, <3>1 DEF NewSocket, SocketsOK
  <2> QED BY <1>5, <2>1, <2>2, <2>3 DEF Registers, NewSocket
<1> QED BY <1>1, <1>3, <1>4, <1>5 DEF rudp_socket

\* A lookup that reads a freed entry may fail.
LEMMA StraysFreed ==
    ASSUME SocketsOK, NEW h, Strays(h)
    PROVE  SocketsOK' /\ FreedRead
<1>1. FreedRead
  BY Lookup DEF Strays, FreedRead
<1> QED BY <1>1 DEF FreedRead, Fail, kernel, SocketsOK

\* The entry found for a descriptor becomes e; nothing else changes.
Turns(h, i, e) ==
    /\ i \in Found(h)
    /\ Replaces(i, e)
    /\ UNCHANGED <<mode, kernel>>

LEMMA TurnsFacts ==
    ASSUME SocketsOK, NEW h, NEW i, NEW e, Turns(h, i, e)
    PROVE  SocketsOK' /\ SameEntries
BY ReplacesFacts DEF Turns, SocketsOK, kernel

\* The fields in which the entry e2 may differ from e.
SameButHandlers(e, e2) ==
    /\ e2.rsock = e.rsock
    /\ e2.close_requested = e.close_requested
    /\ e2.halves = e.halves
    /\ e2.sessions_freed = e.sessions_freed
    /\ e2.freed = e.freed

HandlerSet(h) ==
    \E i \in Found(h) : \E e \in Entry : SameButHandlers(socket_list[i], e) /\ Turns(h, i, e)

LEMMA RecvHandlerSet ==
    ASSUME SocketsOK, NEW h, rudp_recvfrom_handler(h)
    PROVE  /\ SocketsOK'
           /\ FreedRead \/ UNCHANGED sockets \/ HandlerSet(h)
<1>1. CASE Strays(h)
  BY <1>1, StraysFreed
<1>2. CASE UNCHANGED sockets
  BY <1>2 DEF sockets, SocketsOK
<1>3. ASSUME NEW i \in Found(h),
             socket_list' = [socket_list EXCEPT ![i].recv_handler = TRUE],
             UNCHANGED <<mode, kernel>>
      PROVE  SocketsOK' /\ HandlerSet(h)
  <2> DEFINE e == [socket_list[i] EXCEPT !.recv_handler = TRUE]
  <2>1. i \in DOMAIN socket_list /\ socket_list[i] \in Entry
    BY Lookup
  <2>2. e \in Entry /\ SameButHandlers(socket_list[i], e)
    BY <2>1 DEF Entry, SameButHandlers
  <2>3. socket_list' = [socket_list EXCEPT ![i] = e]
    BY <1>3
  <2> HIDE DEF e
  <2>4. Turns(h, i, e)
    BY <1>3, <2>1, <2>2, <2>3 DEF Turns, Replaces, SameButHandlers
  <2> QED BY <2>2, <2>4, TurnsFacts DEF HandlerSet
<1> QED BY <1>1, <1>2, <1>3 DEF rudp_recvfrom_handler

LEMMA EventHandlerSet ==
    ASSUME SocketsOK, NEW h, rudp_event_handler(h)
    PROVE  /\ SocketsOK'
           /\ FreedRead \/ UNCHANGED sockets \/ HandlerSet(h)
<1>1. CASE Strays(h)
  BY <1>1, StraysFreed
<1>2. CASE UNCHANGED sockets
  BY <1>2 DEF sockets, SocketsOK
<1>3. ASSUME NEW i \in Found(h),
             socket_list' = [socket_list EXCEPT ![i].handler = TRUE],
             UNCHANGED <<mode, kernel>>
      PROVE  SocketsOK' /\ HandlerSet(h)
  <2> DEFINE e == [socket_list[i] EXCEPT !.handler = TRUE]
  <2>1. i \in DOMAIN socket_list /\ socket_list[i] \in Entry
    BY Lookup
  <2>2. e \in Entry /\ SameButHandlers(socket_list[i], e)
    BY <2>1 DEF Entry, SameButHandlers
  <2>3. socket_list' = [socket_list EXCEPT ![i] = e]
    BY <1>3
  <2> HIDE DEF e
  <2>4. Turns(h, i, e)
    BY <1>3, <2>1, <2>2, <2>3 DEF Turns, Replaces, SameButHandlers
  <2> QED BY <2>2, <2>4, TurnsFacts DEF HandlerSet
<1> QED BY <1>1, <1>2, <1>3 DEF rudp_event_handler

\* rudp_close fails on an empty list or a freed entry; otherwise at most one
\* entry with the descriptor is marked.
EmptyRead == socket_list = << >> /\ Fail("crashed")

CloseMarks(h) ==
    \E i \in Found(h) : Turns(h, i, [socket_list[i] EXCEPT !.close_requested = TRUE])

LEMMA CloseRequested ==
    ASSUME SocketsOK, NEW h, NEW r, rudp_close(h, r)
    PROVE  /\ SocketsOK'
           /\ EmptyRead \/ FreedRead \/ UNCHANGED sockets \/ CloseMarks(h)
<1>1. CASE Strays(h)
  BY <1>1, StraysFreed
<1>2. CASE UNCHANGED sockets
  BY <1>2 DEF sockets, SocketsOK
<1>3. CASE EmptyRead
  BY <1>3 DEF EmptyRead, Fail, kernel, SocketsOK
<1>4. ASSUME NEW i \in Found(h),
             socket_list' = [socket_list EXCEPT ![i].close_requested = TRUE],
             UNCHANGED <<mode, kernel>>
      PROVE  SocketsOK' /\ CloseMarks(h)
  <2> DEFINE e == [socket_list[i] EXCEPT !.close_requested = TRUE]
  <2>1. i \in DOMAIN socket_list /\ socket_list[i] \in Entry
    BY Lookup
  <2>2. e \in Entry /\ e.rsock = socket_list[i].rsock
    BY <2>1 DEF Entry
  <2>3. socket_list' = [socket_list EXCEPT ![i] = e]
    BY <1>4
  <2>4. Turns(h, i, e)
    BY <1>4, <2>1, <2>2, <2>3 DEF Turns, Replaces
  <2> QED BY <2>4, TurnsFacts DEF CloseMarks
<1> QED BY <1>1, <1>2, <1>3, <1>4 DEF rudp_close, EmptyRead

\* A half of an entry found for the descriptor is there now.
GetsHalf(h, half) ==
    \E i \in Found(h) :
        /\ ~ socket_list[i].sessions_freed
        /\ Turns(h, i, [socket_list[i] EXCEPT !.halves = @ \cup {half}])

LEMMA HalfAdded ==
    ASSUME SocketsOK, NEW h, NEW half \in {"sender", "receiver"}, NEW i \in Found(h),
           ~ socket_list[i].sessions_freed, AddHalf(i, half)
    PROVE  SocketsOK' /\ GetsHalf(h, half)
<1> DEFINE e == [socket_list[i] EXCEPT !.halves = @ \cup {half}]
<1>1. i \in DOMAIN socket_list /\ socket_list[i] \in Entry
  BY Lookup
<1>2. e \in Entry /\ e.rsock = socket_list[i].rsock
  BY <1>1 DEF Entry
<1>3. socket_list' = [socket_list EXCEPT ![i] = e] /\ UNCHANGED <<mode, kernel>>
  BY DEF AddHalf
<1>4. Turns(h, i, e)
  BY <1>1, <1>2, <1>3 DEF Turns, Replaces
<1> QED BY <1>4, TurnsFacts DEF GetsHalf

\* rudp_sendto fails with a descriptor that has no entry, where something
\* freed is read, or where a peer has opened the session.
SendtoFailing(h) ==
    /\ \/ socket_list # << >> /\ Missed(h)
       \/ \E i \in DOMAIN socket_list : \/ socket_list[i].freed
                                        \/ socket_list[i].sessions_freed
                                        \/ "receiver" \in socket_list[i].halves
    /\ Fail("crashed") \/ Fail("undefined")

LEMMA SentTo ==
    ASSUME SocketsOK, NEW h, NEW r, rudp_sendto(h, r)
    PROVE  /\ SocketsOK'
           /\ \/ UNCHANGED sockets /\ r = Error
              \/ SendtoFailing(h) /\ r = Error
              \/ GetsHalf(h, "sender") /\ r = 0
<1>1. CASE UNCHANGED sockets /\ r = Error
  BY <1>1 DEF sockets, SocketsOK
<1>2. CASE SendtoFailing(h) /\ r = Error
  BY <1>2 DEF SendtoFailing, Fail, kernel, SocketsOK
<1>3. CASE r = Error /\ Strays(h)
  <2>1. FreedRead
    BY <1>3, StraysFreed
  <2> QED BY <1>2, <1>3, <2>1 DEF FreedRead, SendtoFailing
<1>4. ASSUME NEW i \in Found(h), SendOn(i, r)
      PROVE  /\ SocketsOK'
             /\ \/ UNCHANGED sockets /\ r = Error
                \/ SendtoFailing(h) /\ r = Error
                \/ GetsHalf(h, "sender") /\ r = 0
  <2>1. i \in DOMAIN socket_list
    BY Lookup
  <2>2. CASE ~ socket_list[i].sessions_freed /\ r = 0 /\ AddHalf(i, "sender")
    BY <2>2, HalfAdded
  <2> QED BY <1>1, <1>2, <1>4, <2>1, <2>2 DEF SendOn, SendtoFailing
<1> QED BY <1>1, <1>2, <1>3, <1>4 DEF rudp_sendto, SendtoFailing

(***************************************************************************)
(* receive_callback: reads something freed, starts a receiving half, meets *)
(* a null pointer in a session or a walk, frees the sessions, or closes    *)
(* the socket.                                                             *)
(***************************************************************************)
ReceiveFails(fd) ==
    \/ FreedRead
    \/ \E i \in Found(fd) :
          /\ socket_list[i].sessions_freed \/ socket_list[i].halves # {}
          /\ \E what \in Failures : Fail(what)

MayClose(i) ==
    /\ ~ socket_list[i].sessions_freed
    /\ socket_list[i].close_requested

FreesSessions(fd) ==
    \E i \in Found(fd) :
        /\ MayClose(i)
        /\ Turns(fd, i, [socket_list[i] EXCEPT !.sessions_freed = TRUE])

Closes(fd, i) ==
    /\ i \in Found(fd)
    /\ MayClose(i)
    /\ Replaces(i, [socket_list[i] EXCEPT !.freed = TRUE, !.sessions_freed = TRUE])
    /\ watched' = watched \ {fd}
    /\ open' = open \ {fd}
    /\ bound' = [bound EXCEPT ![fd] = AnyPort]
    /\ UNCHANGED mode

LEMMA FinAckedFacts ==
    ASSUME SocketsOK, NEW fd \in Fd, NEW i \in Found(fd), ~ socket_list[i].sessions_freed,
           FinAcked(i)
    PROVE  SocketsOK' /\ (FreesSessions(fd) \/ Closes(fd, i))
<1>1. i \in DOMAIN socket_list /\ socket_list[i] \in Entry /\ socket_list[i].rsock = fd
  BY Lookup
<1>2. MayClose(i)
  BY DEF FinAcked, MayClose
<1>3. CASE CloseSocket(i)
  <2> DEFINE e == [socket_list[i] EXCEPT !.freed = TRUE, !.sessions_freed = TRUE]
  <2>1. e \in Entry /\ e.rsock = fd
    BY <1>1 DEF Entry
  <2>2. /\ socket_list' = [socket_list EXCEPT ![i] = e]
        /\ watched' = watched \ {fd} /\ open' = open \ {fd}
        /\ bound' = [bound EXCEPT ![fd] = AnyPort] /\ UNCHANGED mode
    BY <1>1, <1>3 DEF CloseSocket
  <2>3. Closes(fd, i)
    BY <1>1, <1>2, <2>1, <2>2 DEF Closes, Replaces
  <2> QED BY <2>3, ReplacesFacts DEF Closes, SocketsOK
<1>4. CASE /\ socket_list' = [socket_list EXCEPT ![i].sessions_freed = TRUE]
           /\ UNCHANGED <<mode, kernel>>
  <2> DEFINE e == [socket_list[i] EXCEPT !.sessions_freed = TRUE]
  <2>1. e \in Entry /\ e.rsock = socket_list[i].rsock
    BY <1>1 DEF Entry
  <2>2. Turns(fd, i, e)
    BY <1>1, <1>4, <2>1 DEF Turns, Replaces
  <2> QED BY <1>2, <2>2, TurnsFacts DEF FreesSessions
<1> QED BY <1>3, <1>4 DEF FinAcked

LEMMA Received ==
    ASSUME SocketsOK, NEW fd \in Fd, receive_callback(fd)
    PROVE  /\ SocketsOK'
           /\ \/ UNCHANGED sockets
              \/ ReceiveFails(fd)
              \/ GetsHalf(fd, "receiver")
              \/ FreesSessions(fd)
              \/ \E i \in Found(fd) : Closes(fd, i)
<1>1. CASE UNCHANGED sockets
  BY <1>1 DEF sockets, SocketsOK
<1>2. CASE Strays(fd)
  BY <1>2, StraysFreed DEF ReceiveFails
<1>3. ASSUME NEW i \in Found(fd), ReceiveOn(i), ~ UNCHANGED sockets
      PROVE  /\ SocketsOK'
             /\ \/ ReceiveFails(fd)
                \/ GetsHalf(fd, "receiver")
                \/ FreesSessions(fd)
                \/ Closes(fd, i)
  <2>1. CASE /\ socket_list[i].sessions_freed \/ socket_list[i].halves # {}
             /\ \E what \in Failures : Fail(what)
    BY <2>1 DEF ReceiveFails, Fail, kernel, SocketsOK
  <2>2. CASE ~ socket_list[i].sessions_freed /\ AddHalf(i, "receiver")
    BY <2>2, HalfAdded
  <2>3. CASE ~ socket_list[i].sessions_freed /\ FinAcked(i)
    BY <2>3, FinAckedFacts
  <2>4. CASE CloseWalkFails(i)
    BY <2>1, <2>4 DEF CloseWalkFails
  <2>5. CASE MeetsNull(i)
    BY <2>1, <2>5 DEF MeetsNull, Failures
  <2>6. CASE socket_list[i].sessions_freed /\ Fail("undefined")
    BY <2>1, <2>6 DEF Failures
  <2> QED BY <1>3, <2>2, <2>3, <2>4, <2>5, <2>6 DEF ReceiveOn
<1> QED BY <1>1, <1>2, <1>3 DEF receive_callback

=============================================================================
