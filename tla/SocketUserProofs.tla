-------------------------- MODULE SocketUserProofs --------------------------
(***************************************************************************)
(* The sockets of any application: SocketUser for any number of            *)
(* descriptors and ports, and any order of calls and datagrams.            *)
(***************************************************************************)
EXTENDS SocketUser, RudpSocketsProofs

(***************************************************************************)
(* The strengthening: what is freed was freed by a close of the socket,    *)
(* and a live entry is to be closed only if the application asked for it   *)
(* since rudp_socket returned its descriptor.                              *)
(***************************************************************************)
FreedByClose ==
    \A i \in DOMAIN socket_list : socket_list[i].freed => socket_list[i].sessions_freed

MarkWasAsked ==
    \A i \in Live : socket_list[i].close_requested => socket_list[i].rsock \in asked

UserInv == TypeOK /\ EntryPerSocket /\ FreedByClose /\ MarkWasAsked

-----------------------------------------------------------------------------
LEMMA UserSockets == UserInv => SocketsOK /\ IsFiniteSet(open) /\ IsFiniteSet(Live)
<1> SUFFICES ASSUME UserInv PROVE SocketsOK /\ IsFiniteSet(open) /\ IsFiniteSet(Live)
  OBVIOUS
<1>1. SocketsOK
  BY DEF UserInv, TypeOK, SocketsOK
<1>2. IsFiniteSet(open)
  BY <1>1, FS_Subset, SocketAssumption DEF SocketsOK
<1>3. IsFiniteSet(DOMAIN socket_list)
  <2>1. Len(socket_list) \in Nat /\ DOMAIN socket_list = 1 .. Len(socket_list)
    BY <1>1, ListFacts
  <2>2. 1 \in Int /\ Len(socket_list) \in Int
    BY <2>1
  <2> QED BY <2>1, <2>2, FS_Interval
<1>4. IsFiniteSet(Live)
  BY <1>3, FS_Subset DEF Live
<1> QED BY <1>1, <1>2, <1>4

(***************************************************************************)
(* EntryPerSocket, for each kind of step.                                  *)
(***************************************************************************)
LEMMA EntriesKept ==
    ASSUME EntryPerSocket, SameEntries, UNCHANGED <<open, watched, lost>>,
           \A i \in DOMAIN socket_list : socket_list'[i].freed = socket_list[i].freed
    PROVE  EntryPerSocket'
<1>1. Live' = Live
  BY DEF Live, SameEntries
<1>2. \A i \in Live : socket_list'[i].rsock = socket_list[i].rsock
  BY DEF Live, SameEntries
<1> QED BY <1>1, <1>2 DEF EntryPerSocket

LEMMA EntriesUnchanged ==
    ASSUME EntryPerSocket, UNCHANGED <<open, watched, lost, socket_list>>
    PROVE  EntryPerSocket'
BY EntriesKept DEF SameEntries

LEMMA DescriptorLost ==
    ASSUME UserInv, NEW f \in Fd, NEW r, LeftBehind(f, r), lost' = lost + 1
    PROVE  EntryPerSocket'
<1>1. /\ f \notin open /\ open' = open \cup {f}
      /\ UNCHANGED <<watched, socket_list>>
      /\ lost \in Nat
  BY DEF LeftBehind, UserInv, TypeOK
<1>2. Live' = Live
  BY <1>1 DEF Live
<1>3. /\ Cardinality(open') = Cardinality(open) + 1
      /\ Cardinality(open) \in Nat /\ Cardinality(Live) \in Nat
  BY <1>1, UserSockets, FS_AddElement, FS_CardinalityType
<1>4. Cardinality(open') = Cardinality(Live') + lost'
  BY <1>1, <1>2, <1>3 DEF UserInv, EntryPerSocket
<1> QED BY <1>1, <1>2, <1>4 DEF UserInv, EntryPerSocket

LEMMA EntryCreated ==
    ASSUME UserInv, NEW port, NEW r, NewSocket(port, r), lost' = lost
    PROVE  EntryPerSocket'
<1> DEFINE last == Len(socket_list) + 1
<1>1. /\ r \in Fd /\ r \notin open /\ open' = open \cup {r}
      /\ watched' \subseteq watched \cup {r} /\ watched' \in {watched, watched \cup {r}}
      /\ lost \in Nat
  BY DEF NewSocket, UserInv, TypeOK
<1>2. /\ DOMAIN socket_list' = DOMAIN socket_list \cup {last}
      /\ last \notin DOMAIN socket_list
      /\ socket_list'[last] = NewEntry(r)
      /\ \A j \in DOMAIN socket_list : socket_list'[j] = socket_list[j]
  BY <1>1, UserSockets, EntryAdded DEF NewSocket
<1> HIDE DEF last
<1>3. socket_list'[last].rsock = r /\ ~ socket_list'[last].freed
  BY <1>2 DEF NewEntry
<1>4. Live' = Live \cup {last} /\ last \notin Live
  BY <1>2, <1>3 DEF Live
<1>5. \A i \in Live : socket_list'[i].rsock = socket_list[i].rsock
  BY <1>2 DEF Live
<1>6. /\ Cardinality(open') = Cardinality(open) + 1
      /\ Cardinality(Live') = Cardinality(Live) + 1
      /\ Cardinality(open) \in Nat /\ Cardinality(Live) \in Nat
  BY <1>1, <1>4, UserSockets, FS_AddElement, FS_CardinalityType
<1>7. /\ \A fd \in watched : \E i \in Live : socket_list[i].rsock = fd
      /\ \A i \in Live : socket_list[i].rsock \in open
      /\ \A i, j \in Live : socket_list[i].rsock = socket_list[j].rsock => i = j
      /\ Cardinality(open) = Cardinality(Live) + lost
  BY DEF UserInv, EntryPerSocket
<1>8. \A fd \in watched' : \E i \in Live' : socket_list'[i].rsock = fd
  BY <1>1, <1>3, <1>4, <1>5, <1>7
<1>9. /\ \A i \in Live' : socket_list'[i].rsock \in open'
      /\ \A i, j \in Live' : socket_list'[i].rsock = socket_list'[j].rsock => i = j
  BY <1>1, <1>3, <1>4, <1>5, <1>7
<1>10. Cardinality(open') = Cardinality(Live') + lost'
  BY <1>1, <1>6, <1>7
<1> QED BY <1>8, <1>9, <1>10 DEF EntryPerSocket

LEMMA EntryFreed ==
    ASSUME UserInv, NEW fd \in Fd, NEW k, Closes(fd, k), lost' = lost
    PROVE  EntryPerSocket'
<1>1. /\ k \in DOMAIN socket_list /\ socket_list[k].rsock = fd /\ ~ socket_list[k].freed
      /\ socket_list[k] \in Entry
  BY UserSockets, Lookup DEF Closes, MayClose, UserInv, FreedByClose
<1>2. /\ SameEntries
      /\ socket_list'[k].freed = TRUE
      /\ \A j \in DOMAIN socket_list : j # k => socket_list'[j] = socket_list[j]
  <2> DEFINE e == [socket_list[k] EXCEPT !.freed = TRUE, !.sessions_freed = TRUE]
  <2>1. Replaces(k, e) /\ e.freed = TRUE
    BY <1>1 DEF Closes, Entry
  <2> HIDE DEF e
  <2> QED BY <2>1, UserSockets, ReplacesFacts
<1>3. watched' = watched \ {fd} /\ open' = open \ {fd} /\ lost \in Nat
  BY DEF Closes, UserInv, TypeOK
<1>4. k \in Live /\ Live' = Live \ {k}
  BY <1>1, <1>2 DEF Live, SameEntries
<1>5. \A i \in Live' : socket_list'[i].rsock = socket_list[i].rsock
  BY <1>2, <1>4 DEF Live
<1>6. /\ \A f \in watched : \E i \in Live : socket_list[i].rsock = f
      /\ \A i \in Live : socket_list[i].rsock \in open
      /\ \A i, j \in Live : socket_list[i].rsock = socket_list[j].rsock => i = j
      /\ Cardinality(open) = Cardinality(Live) + lost
  BY DEF UserInv, EntryPerSocket
<1>7. /\ Cardinality(open') = Cardinality(open) - 1
      /\ Cardinality(Live') = Cardinality(Live) - 1
      /\ Cardinality(open) \in Nat /\ Cardinality(Live) \in Nat
  BY <1>1, <1>3, <1>4, <1>6, UserSockets, FS_RemoveElement, FS_CardinalityType
<1>8. \A f \in watched' : \E i \in Live' : socket_list'[i].rsock = f
  BY <1>1, <1>3, <1>4, <1>5, <1>6
<1>9. /\ \A i \in Live' : socket_list'[i].rsock \in open'
      /\ \A i, j \in Live' : socket_list'[i].rsock = socket_list'[j].rsock => i = j
  BY <1>1, <1>3, <1>4, <1>5, <1>6
<1>10. Cardinality(open') = Cardinality(Live') + lost'
  BY <1>3, <1>6, <1>7
<1> QED BY <1>8, <1>9, <1>10 DEF EntryPerSocket

-----------------------------------------------------------------------------
(***************************************************************************)
(* The steps.  What each of them owes: the invariant, and that no          *)
(* descriptor is taken back that the application has not closed.           *)
(***************************************************************************)
Owed == UserInv' /\ open \ open' \subseteq asked

\* The entries and the descriptors stay, in whatever mode.
LEMMA StayOwed ==
    ASSUME UserInv, mode' \in {"up"} \cup Failures, UNCHANGED <<kernel, socket_list, lost>>,
           held' \subseteq Result, asked' \subseteq Result, asked \subseteq asked'
    PROVE  Owed
<1>1. TypeOK'
  BY DEF UserInv, TypeOK, kernel
<1>2. EntryPerSocket'
  BY EntriesUnchanged DEF UserInv, kernel
<1>3. FreedByClose' /\ MarkWasAsked'
  BY DEF UserInv, FreedByClose, MarkWasAsked, Live
<1> QED BY <1>1, <1>2, <1>3 DEF Owed, UserInv, kernel

LEMMA UnchangedOwed ==
    ASSUME UserInv, mode = "up", UNCHANGED <<sockets, lost>>,
           held' \subseteq Result, asked' \subseteq Result, asked \subseteq asked'
    PROVE  Owed
BY StayOwed DEF sockets, kernel

LEMMA FailOwed ==
    ASSUME UserInv, NEW what \in Failures, Fail(what), UNCHANGED lost,
           held' \subseteq Result, asked' \subseteq Result, asked \subseteq asked'
    PROVE  Owed
BY StayOwed DEF Fail

\* One entry becomes another, of the same socket.
LEMMA TurnsOwed ==
    ASSUME UserInv, mode = "up", NEW h, NEW i, NEW e, Turns(h, i, e), UNCHANGED lost,
           held' \subseteq Result, asked' \subseteq Result, asked \subseteq asked',
           e.freed = socket_list[i].freed,
           socket_list[i].sessions_freed => e.sessions_freed,
           ~ e.freed /\ e.close_requested => e.rsock \in asked'
                                             \/ socket_list[i].close_requested
    PROVE  Owed
<1>1. /\ SocketsOK' /\ SameEntries /\ Replaces(i, e)
      /\ UNCHANGED <<mode, open, watched>> /\ i \in DOMAIN socket_list
      /\ e.rsock = socket_list[i].rsock
  BY UserSockets, TurnsFacts DEF Turns, kernel, Replaces
<1>2. /\ socket_list'[i] = e
      /\ \A j \in DOMAIN socket_list : j # i => socket_list'[j] = socket_list[j]
  BY <1>1, UserSockets, ReplacesFacts
<1>3. TypeOK'
  BY <1>1 DEF UserInv, TypeOK, SocketsOK
<1>4. EntryPerSocket'
  BY <1>1, <1>2, EntriesKept DEF UserInv
<1>5. FreedByClose'
  BY <1>1, <1>2 DEF UserInv, FreedByClose, SameEntries
<1>6. MarkWasAsked'
  <2> SUFFICES ASSUME NEW j \in Live', socket_list'[j].close_requested
               PROVE  socket_list'[j].rsock \in asked'
    BY DEF MarkWasAsked
  <2>1. j \in Live
    BY <1>1, <1>2 DEF Live, SameEntries
  <2>2. CASE j # i
    BY <1>1, <1>2, <2>1, <2>2 DEF UserInv, MarkWasAsked, Live
  <2>3. CASE j = i
    BY <1>1, <1>2, <2>1, <2>3 DEF UserInv, MarkWasAsked, Live
  <2> QED BY <2>2, <2>3
<1> QED BY <1>1, <1>3, <1>4, <1>5, <1>6 DEF Owed, UserInv

LEMMA HalfOwed ==
    ASSUME UserInv, mode = "up", NEW h, NEW half \in {"sender", "receiver"},
           GetsHalf(h, half), UNCHANGED <<lost, asked>>, held' \subseteq Result
    PROVE  Owed
<1>1. PICK i \in Found(h) : Turns(h, i, [socket_list[i] EXCEPT !.halves = @ \cup {half}])
  BY DEF GetsHalf
<1> DEFINE e == [socket_list[i] EXCEPT !.halves = @ \cup {half}]
<1>2. socket_list[i] \in Entry
  BY UserSockets, Lookup
<1>3. /\ e.freed = socket_list[i].freed
      /\ e.sessions_freed = socket_list[i].sessions_freed
      /\ e.close_requested = socket_list[i].close_requested
  BY <1>2 DEF Entry
<1>4. Turns(h, i, e) /\ asked' \subseteq Result
  BY <1>1 DEF UserInv, TypeOK
<1> HIDE DEF e
<1> QED BY <1>3, <1>4, TurnsOwed

LEMMA OpenSocketOwed ==
    ASSUME UserInv, OpenSocket
    PROVE  Owed
<1>1. PICK port \in Port \cup {AnyPort}, r \in Result :
         /\ rudp_socket(port, r)
         /\ held' = held \cup ({r} \ Checks)
         /\ lost' = IF r \in {Null, Error} /\ open' # open THEN lost + 1 ELSE lost
         /\ asked' = asked \ {r}
  BY DEF OpenSocket
<1>2. /\ mode = "up" /\ held' \subseteq Result /\ asked' \subseteq Result
      /\ lost \in Nat /\ Fd \cap {Null, Error} = {}
  BY <1>1, SocketAssumption DEF rudp_socket, UserInv, TypeOK, Null, Error
<1>3. SocketsOK'
  BY <1>1, UserSockets, SocketCreated
<1>4. ASSUME r \notin open PROVE \A i \in Live : socket_list[i].rsock \in asked
                                          => socket_list[i].rsock \in asked'
  BY <1>1, <1>4 DEF UserInv, EntryPerSocket
<1>5. ASSUME UNCHANGED socket_list, r \notin open PROVE FreedByClose' /\ MarkWasAsked'
  BY <1>4, <1>5 DEF UserInv, FreedByClose, MarkWasAsked, Live
<1>6. open \subseteq Fd
  BY DEF UserInv, TypeOK
<1>7. CASE NothingOpened(r)
  <2>1. UNCHANGED sockets /\ lost' = lost /\ r \notin open
    BY <1>1, <1>2, <1>6, <1>7 DEF NothingOpened, sockets
  <2>2. TypeOK' /\ EntryPerSocket' /\ FreedByClose' /\ MarkWasAsked'
    BY <1>2, <1>5, <2>1, EntriesUnchanged DEF UserInv, TypeOK, sockets
  <2> QED BY <2>1, <2>2 DEF Owed, UserInv, sockets
<1>8. ASSUME NEW f \in Fd, LeftBehind(f, r) PROVE Owed
  <2>1. /\ lost' = lost + 1 /\ UNCHANGED <<mode, socket_list>> /\ r \notin open
        /\ open \subseteq open'
    BY <1>1, <1>2, <1>6, <1>8 DEF LeftBehind
  <2>2. TypeOK' /\ EntryPerSocket' /\ FreedByClose' /\ MarkWasAsked'
    BY <1>2, <1>3, <1>5, <1>8, <2>1, DescriptorLost DEF UserInv, TypeOK, SocketsOK
  <2> QED BY <2>1, <2>2 DEF Owed, UserInv
<1>9. CASE FreedRead /\ r \in Fd \ open
  <2>1. /\ lost' = lost /\ UNCHANGED <<open, bound, watched, socket_list>>
        /\ mode' \in Failures
    BY <1>1, <1>2, <1>9 DEF FreedRead, Fail, kernel, Failures
  <2>2. TypeOK' /\ EntryPerSocket' /\ FreedByClose' /\ MarkWasAsked'
    BY <1>2, <1>5, <1>9, <2>1, EntriesUnchanged DEF UserInv, TypeOK
  <2> QED BY <2>1, <2>2 DEF Owed, UserInv
<1>10. CASE NewSocket(port, r)
  <2>1. r \in Fd \ open /\ lost' = lost /\ UNCHANGED mode /\ open \subseteq open'
    BY <1>1, <1>2, <1>10 DEF NewSocket
  <2>2. TypeOK' /\ EntryPerSocket'
    BY <1>2, <1>3, <1>10, <2>1, EntryCreated DEF UserInv, TypeOK, SocketsOK
  <2> DEFINE last == Len(socket_list) + 1
  <2>3. /\ DOMAIN socket_list' = DOMAIN socket_list \cup {last}
        /\ socket_list'[last] = NewEntry(r)
        /\ \A j \in DOMAIN socket_list : socket_list'[j] = socket_list[j]
    BY <1>10, <2>1, UserSockets, EntryAdded DEF NewSocket
  <2> HIDE DEF last
  <2>4. FreedByClose'
    BY <2>3 DEF UserInv, FreedByClose, NewEntry
  <2>5. MarkWasAsked'
    <3> SUFFICES ASSUME NEW j \in Live', socket_list'[j].close_requested
                 PROVE  socket_list'[j].rsock \in asked'
      BY DEF MarkWasAsked
    <3>1. j # last
      BY <2>3 DEF NewEntry
    <3>2. j \in Live /\ socket_list'[j] = socket_list[j]
      BY <2>3, <3>1 DEF Live
    <3> QED BY <1>4, <2>1, <3>2 DEF UserInv, MarkWasAsked
  <2> QED BY <2>1, <2>2, <2>4, <2>5 DEF Owed, UserInv
<1> QED BY <1>1, <1>7, <1>8, <1>9, <1>10, UserSockets, SocketCreated

LEMMA CloseOwed ==
    ASSUME UserInv, NEW h \in held, Close(h)
    PROVE  Owed
<1>1. PICK r \in {0, Error} : rudp_close(h, r)
  BY DEF Close
<1>2. /\ mode = "up" /\ held' \subseteq Result /\ UNCHANGED lost
      /\ asked' = asked \cup {h} /\ asked' \subseteq Result
  BY <1>1 DEF rudp_close, Close, UserInv, TypeOK
<1>3. EmptyRead \/ FreedRead \/ UNCHANGED sockets \/ CloseMarks(h)
  BY <1>1, UserSockets, CloseRequested
<1>4. CASE EmptyRead \/ FreedRead
  <2>1. \E what \in Failures : Fail(what)
    BY <1>4 DEF EmptyRead, FreedRead, Failures
  <2> QED BY <1>2, <2>1, FailOwed
<1>5. CASE CloseMarks(h)
  <2>1. PICK i \in Found(h) : Turns(h, i, [socket_list[i] EXCEPT !.close_requested = TRUE])
    BY <1>5 DEF CloseMarks
  <2> DEFINE e == [socket_list[i] EXCEPT !.close_requested = TRUE]
  <2>2. socket_list[i] \in Entry /\ socket_list[i].rsock = h
    BY UserSockets, Lookup
  <2>3. /\ e.freed = socket_list[i].freed
        /\ e.sessions_freed = socket_list[i].sessions_freed
        /\ e.rsock = h
    BY <2>2 DEF Entry
  <2>4. Turns(h, i, e)
    BY <2>1
  <2> HIDE DEF e
  <2> QED BY <1>2, <2>3, <2>4, TurnsOwed
<1> QED BY <1>2, <1>3, <1>4, <1>5, UnchangedOwed DEF sockets

LEMMA UseOwed ==
    ASSUME UserInv, NEW h \in held, Use(h)
    PROVE  Owed
<1>1. rudp_event_handler(h) \/ \E r \in {0, Error} : rudp_sendto(h, r)
  BY DEF Use
<1>2. /\ mode = "up" /\ held' \subseteq Result /\ asked' \subseteq Result
      /\ UNCHANGED <<held, lost, asked>>
  BY <1>1 DEF rudp_event_handler, rudp_sendto, Use, UserInv, TypeOK
<1>3. ASSUME NEW what \in Failures, Fail(what) PROVE Owed
  BY <1>2, <1>3, FailOwed
<1>4. CASE UNCHANGED sockets
  BY <1>2, <1>4, UnchangedOwed
<1>5. CASE rudp_event_handler(h)
  <2>1. FreedRead \/ UNCHANGED sockets \/ HandlerSet(h)
    BY <1>5, UserSockets, EventHandlerSet
  <2>2. CASE HandlerSet(h)
    <3>1. PICK i \in Found(h), e \in Entry :
             SameButHandlers(socket_list[i], e) /\ Turns(h, i, e)
      BY <2>2 DEF HandlerSet
    <3> QED BY <1>2, <3>1, TurnsOwed DEF SameButHandlers
  <2> QED BY <1>3, <1>4, <2>1, <2>2 DEF FreedRead, Failures
<1>6. ASSUME NEW r \in {0, Error}, rudp_sendto(h, r) PROVE Owed
  <2>1. UNCHANGED sockets \/ SendtoFailing(h) \/ GetsHalf(h, "sender")
    BY <1>6, UserSockets, SentTo
  <2>2. CASE SendtoFailing(h)
    BY <1>3, <2>2 DEF SendtoFailing, Failures
  <2>3. CASE GetsHalf(h, "sender")
    BY <1>2, <2>3, HalfOwed
  <2> QED BY <1>4, <2>1, <2>2, <2>3
<1> QED BY <1>1, <1>5, <1>6

LEMMA ReceiveOwed ==
    ASSUME UserInv, NEW fd \in Fd, Receive(fd)
    PROVE  Owed
<1>1. receive_callback(fd) /\ UNCHANGED <<lost, asked>>
  BY DEF Receive
<1>2. mode = "up" /\ held' \subseteq Result /\ asked' \subseteq Result
  BY <1>1 DEF receive_callback, Receive, UserInv, TypeOK
<1>3. /\ SocketsOK'
      /\ \/ UNCHANGED sockets
         \/ ReceiveFails(fd)
         \/ GetsHalf(fd, "receiver")
         \/ FreesSessions(fd)
         \/ \E i \in Found(fd) : Closes(fd, i)
  BY <1>1, UserSockets, Received
<1>4. CASE ReceiveFails(fd)
  <2>1. \E what \in Failures : Fail(what)
    BY <1>4 DEF ReceiveFails, FreedRead, Failures
  <2> QED BY <1>1, <1>2, <2>1, FailOwed
<1>5. CASE GetsHalf(fd, "receiver")
  BY <1>1, <1>2, <1>5, HalfOwed
<1>6. CASE FreesSessions(fd)
  <2>1. PICK i \in Found(fd) : Turns(fd, i, [socket_list[i] EXCEPT !.sessions_freed = TRUE])
    BY <1>6 DEF FreesSessions
  <2> DEFINE e == [socket_list[i] EXCEPT !.sessions_freed = TRUE]
  <2>2. socket_list[i] \in Entry
    BY UserSockets, Lookup
  <2>3. /\ e.freed = socket_list[i].freed /\ e.sessions_freed
        /\ e.close_requested = socket_list[i].close_requested
    BY <2>2 DEF Entry
  <2>4. Turns(fd, i, e)
    BY <2>1
  <2> HIDE DEF e
  <2> QED BY <1>1, <1>2, <2>3, <2>4, TurnsOwed
<1>7. ASSUME NEW i \in Found(fd), Closes(fd, i) PROVE Owed
  <2> DEFINE e == [socket_list[i] EXCEPT !.freed = TRUE, !.sessions_freed = TRUE]
  <2>1. /\ i \in DOMAIN socket_list /\ socket_list[i].rsock = fd /\ socket_list[i] \in Entry
    BY UserSockets, Lookup
  <2>2. Replaces(i, e) /\ e.freed /\ e.sessions_freed /\ MayClose(i)
    BY <1>7, <2>1 DEF Closes, Entry
  <2> HIDE DEF e
  <2>3. /\ SameEntries /\ socket_list'[i] = e
        /\ \A j \in DOMAIN socket_list : j # i => socket_list'[j] = socket_list[j]
    BY <2>2, UserSockets, ReplacesFacts
  <2>4. FreedByClose' /\ MarkWasAsked'
    BY <1>1, <2>2, <2>3 DEF UserInv, FreedByClose, MarkWasAsked, Live, SameEntries
  <2>5. TypeOK' /\ EntryPerSocket'
    BY <1>1, <1>2, <1>3, <1>7, EntryFreed DEF UserInv, TypeOK, SocketsOK, Closes
  <2>6. fd \in asked
    BY <2>1, <2>2 DEF UserInv, FreedByClose, MarkWasAsked, Live, MayClose
  <2>7. open \ open' \subseteq {fd}
    BY <1>7 DEF Closes
  <2> QED BY <2>4, <2>5, <2>6, <2>7 DEF Owed, UserInv
<1> QED BY <1>1, <1>2, <1>3, <1>4, <1>5, <1>6, <1>7, UnchangedOwed

-----------------------------------------------------------------------------
LEMMA UserInit == Init => UserInv
<1> SUFFICES ASSUME Init PROVE UserInv
  OBVIOUS
<1>1. /\ open = {} /\ watched = {} /\ socket_list = << >> /\ mode = "up"
      /\ bound = [fd \in Fd |-> AnyPort] /\ held = {} /\ lost = 0 /\ asked = {}
      /\ DOMAIN socket_list = {}
  BY DEF Init, SocketsInit
<1>2. Live = {}
  BY <1>1 DEF Live
<1>3. EntryPerSocket
  BY <1>1, <1>2, FS_EmptySet DEF EntryPerSocket
<1> QED BY <1>1, <1>2, <1>3 DEF UserInv, TypeOK, FreedByClose, MarkWasAsked

LEMMA UserNext == UserInv /\ [Next]_vars => UserInv' /\ [open \ open' \subseteq asked]_vars
<1> SUFFICES ASSUME UserInv, [Next]_vars
             PROVE  UserInv' /\ [open \ open' \subseteq asked]_vars
  OBVIOUS
<1>1. CASE UNCHANGED vars
  <2>1. EntryPerSocket'
    BY <1>1, EntriesUnchanged DEF UserInv, vars, sockets
  <2> QED BY <1>1, <2>1 DEF UserInv, vars, sockets, TypeOK, FreedByClose, MarkWasAsked, Live
<1>2. CASE Next
  BY <1>2, OpenSocketOwed, CloseOwed, UseOwed, ReceiveOwed DEF Next, Owed
<1> QED BY <1>1, <1>2

LEMMA UserCorrect == Spec => []UserInv
BY UserInit, UserNext, PTL DEF Spec

\* The types of the list, the descriptors and the handles, for every order of
\* calls and datagrams.
THEOREM SocketTypeCorrect == Spec => []TypeOK
<1>1. UserInv => TypeOK
  BY DEF UserInv
<1> QED BY <1>1, UserCorrect, PTL

\* Descriptors and entries agree for any number of descriptors, when
\* rudp_socket fails half-way, and when it gets the descriptor of a closed
\* socket while the freed entry of that socket is still in the list.
THEOREM EntryCorrect == Spec => []EntryPerSocket
<1>1. UserInv => EntryPerSocket
  BY DEF UserInv
<1> QED BY <1>1, UserCorrect, PTL

\* receive_callback closes no descriptor but one the application has called
\* rudp_close on since rudp_socket returned it, although a close marks the
\* first entry with the descriptor, freed or not, and malloc'd entries live on
\* after it.
THEOREM AskedCorrect == Spec => CloseWasAsked
<1>1. UserInv /\ [Next]_vars => [open \ open' \subseteq asked]_vars
  BY UserNext
<1> QED BY <1>1, UserCorrect, PTL DEF Spec, CloseWasAsked

=============================================================================
