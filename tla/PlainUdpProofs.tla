--------------------------- MODULE PlainUdpProofs ---------------------------
(***************************************************************************)
(* The programs without RUDP, for any number of receivers and senders and  *)
(* any number of datagrams.                                                *)
(***************************************************************************)
EXTENDS PlainUdp, FiniteSetTheorems, SequenceTheorems, TLAPS

\* The places of s in a sequence of senders.
Places(q, s) == {k \in DOMAIN q : q[k] = s}

(***************************************************************************)
(* A receiver between recvfrom and write holds a datagram that is neither  *)
(* in the queue nor in a file any more, and it is the owner of the port;   *)
(* one between write and sendto owes an ack for data that it has written.  *)
(***************************************************************************)
Holds(r) == pc[r] = "write" /\ n[r]

InHand(s) == {r \in Receiver : Holds(r) /\ senderinfo[r] = s}

Waiting(s) == Places(queue, s)

Stored(s) == UNION {{r} \X Written(r, s) : r \in Receiver}

PlainType ==
    /\ n \in [Receiver -> BOOLEAN]
    /\ sock \in [Receiver -> BOOLEAN]
    /\ acks \in [Receiver -> [Sender -> Nat]]
    /\ unwritten \subseteq Receiver
    /\ \A r \in Receiver : n[r] => senderinfo[r] \in Sender

Owns == \A r \in Receiver : Holds(r) => port = r

Accounted ==
    \A s \in Sender :
        /\ IsFiniteSet(Stored(s))
        /\ Cardinality(Stored(s)) + Cardinality(Waiting(s)) + Cardinality(InHand(s)) <= arrived[s]

OwesAck ==
    \A r \in Receiver \ unwritten :
        pc[r] = "sendto" /\ n[r] =>
            acks[r][senderinfo[r]] < Cardinality(Written(r, senderinfo[r]))

PlainInv == TypeOK /\ PlainType /\ Owns /\ Accounted /\ AckedIsWritten /\ OwesAck

-----------------------------------------------------------------------------
LEMMA PlacesFinite ==
    ASSUME NEW q \in Seq(Sender), NEW s
    PROVE  IsFiniteSet(Places(q, s)) /\ Cardinality(Places(q, s)) \in Nat
<1>1. DOMAIN q = 1 .. Len(q) /\ 1 \in Int /\ Len(q) \in Int
  BY LenProperties
<1>2. IsFiniteSet(DOMAIN q)
  BY <1>1, FS_Interval
<1> QED BY <1>2, FS_Subset, FS_CardinalityType DEF Places

LEMMA PlacesAppend ==
    ASSUME NEW q \in Seq(Sender), NEW x \in Sender, NEW s
    PROVE  /\ Places(Append(q, x), s) =
                 IF x = s THEN Places(q, s) \cup {Len(q) + 1} ELSE Places(q, s)
           /\ Len(q) + 1 \notin Places(q, s)
           /\ Cardinality(Places(Append(q, x), s)) =
                 IF x = s THEN Cardinality(Places(q, s)) + 1 ELSE Cardinality(Places(q, s))
<1> DEFINE a == Append(q, x)
<1>1. /\ a \in Seq(Sender) /\ Len(a) = Len(q) + 1 /\ a[Len(q) + 1] = x
      /\ \A i \in 1 .. Len(q) : a[i] = q[i]
      /\ Len(q) \in Nat /\ DOMAIN q = 1 .. Len(q)
  BY AppendProperties, LenProperties
<1> HIDE DEF a
<1>2. DOMAIN a = 1 .. Len(q) + 1
  BY <1>1, LenProperties
<1>3. Places(a, s) = IF x = s THEN Places(q, s) \cup {Len(q) + 1} ELSE Places(q, s)
  BY <1>1, <1>2 DEF Places
<1>4. Len(q) + 1 \notin Places(q, s)
  BY <1>1 DEF Places
<1>5. Cardinality(Places(q, s) \cup {Len(q) + 1}) = Cardinality(Places(q, s)) + 1
  BY <1>4, PlacesFinite, FS_AddElement
<1> QED BY <1>3, <1>4, <1>5 DEF a

LEMMA PlacesTail ==
    ASSUME NEW q \in Seq(Sender), q # << >>, NEW s
    PROVE  Cardinality(Places(Tail(q), s)) =
              IF Head(q) = s THEN Cardinality(Places(q, s)) - 1 ELSE Cardinality(Places(q, s))
<1> DEFINE t == Tail(q)
           later == Places(q, s) \ {1}
<1>1. /\ t \in Seq(Sender) /\ Len(t) = Len(q) - 1 /\ Len(q) \in Nat \ {0}
      /\ \A i \in 1 .. Len(t) : t[i] = q[i + 1]
      /\ DOMAIN q = 1 .. Len(q) /\ Head(q) = q[1]
  BY HeadTailProperties, LenProperties, EmptySeq
<1> HIDE DEF t
<1>2. DOMAIN t = 1 .. Len(t) /\ Len(t) \in Nat
  BY <1>1, LenProperties
<1> DEFINE shift == [k \in Places(t, s) |-> k + 1]
<1>3. shift \in Bijection(Places(t, s), later)
  <2>1. ASSUME NEW k \in Places(t, s) PROVE shift[k] \in later /\ shift[k] = k + 1 /\ k \in Nat
    BY <1>1, <1>2 DEF Places
  <2>2. ASSUME NEW j \in later PROVE j - 1 \in Places(t, s) /\ shift[j - 1] = j
    <3>1. j \in 2 .. Len(q) /\ q[j] = s
      BY <1>1 DEF Places
    <3>2. j - 1 \in 1 .. Len(t) /\ t[j - 1] = q[(j - 1) + 1] /\ (j - 1) + 1 = j
      BY <1>1, <3>1
    <3>3. j - 1 \in Places(t, s)
      BY <1>2, <3>1, <3>2 DEF Places
    <3> QED BY <3>2, <3>3
  <2>3. shift \in [Places(t, s) -> later]
    BY <2>1
  <2>4. \A j, k \in Places(t, s) : shift[j] = shift[k] => j = k
    <3> HIDE DEF shift
    <3> QED BY <2>1
  <2> HIDE DEF shift, later
  <2> QED BY <2>2, <2>3, <2>4 DEF Bijection, Injection, Surjection, IsInjective
<1>4. Cardinality(Places(t, s)) = Cardinality(later)
  <2> HIDE DEF shift, later
  <2> QED BY <1>1, <1>3, PlacesFinite, FS_Bijection DEF ExistsBijection
<1>5. 1 \in Places(q, s) <=> Head(q) = s
  BY <1>1 DEF Places
<1> QED BY <1>4, <1>5, PlacesFinite, FS_RemoveElement DEF t

-----------------------------------------------------------------------------
(***************************************************************************)
(* The parts of the invariant, one after the other.                        *)
(***************************************************************************)
LEMMA PlainTypeNext ==
    ASSUME PlainInv, [Next]_vars
    PROVE  TypeOK' /\ PlainType'
<1>1. ASSUME NEW s \in Sender, Send(s) PROVE TypeOK' /\ PlainType'
  BY <1>1 DEF PlainInv, TypeOK, PlainType, Send, receivers, host
<1>2. ASSUME NEW s \in Sender, Arrive(s) PROVE TypeOK' /\ PlainType'
  <2>1. queue' \in Seq(Sender) /\ (port' = Nobody => queue' = << >>)
    BY <1>2, AppendProperties DEF PlainInv, TypeOK, Arrive
  <2>2. arrived' \in [Sender -> 0 .. MaxArrivals]
    BY <1>2, PlainAssumption DEF PlainInv, TypeOK, Arrive
  <2> QED BY <1>2, <2>1, <2>2 DEF PlainInv, TypeOK, PlainType, Arrive, receivers
<1>3. ASSUME NEW r \in Receiver, Open(r) PROVE TypeOK' /\ PlainType'
  BY <1>3 DEF PlainInv, TypeOK, PlainType, Open, Goto, host, senders
<1>4. ASSUME NEW r \in Receiver, SocketAndBind(r) PROVE TypeOK' /\ PlainType'
  BY <1>4, PlainAssumption
     DEF PlainInv, TypeOK, PlainType, SocketAndBind, Goto, Owner, senders
<1>5. ASSUME NEW r \in Receiver, Recvfrom(r) PROVE TypeOK' /\ PlainType'
  <2>1. pc' = [pc EXCEPT ![r] = "write"]
        /\ UNCHANGED <<sock, output, acks, unwritten, port, senders>>
    BY <1>5 DEF Recvfrom, Goto, Taken
  <2>2. CASE /\ port = r /\ queue # << >>
             /\ n' = [n EXCEPT ![r] = TRUE]
             /\ senderinfo' = [senderinfo EXCEPT ![r] = Head(queue)]
             /\ queue' = Rest(queue)
    <3>1. Head(queue) \in Sender /\ queue' \in Seq(Sender) /\ port' # Nobody
      BY <2>1, <2>2, HeadTailProperties, PlainAssumption DEF PlainInv, TypeOK, Rest
    <3> QED BY <2>1, <2>2, <3>1 DEF PlainInv, TypeOK, PlainType, senders
  <2>3. CASE n' = [n EXCEPT ![r] = FALSE] /\ UNCHANGED <<senderinfo, queue>>
    BY <2>1, <2>3 DEF PlainInv, TypeOK, PlainType, senders
  <2> QED BY <1>5, <2>2, <2>3 DEF Recvfrom
<1>6. ASSUME NEW r \in Receiver, Write(r) PROVE TypeOK' /\ PlainType'
  <2>1. output' \in [Receiver -> Seq(Sender)]
    <3>1. CASE n[r] /\ output' = [output EXCEPT ![r] = Append(@, senderinfo[r])]
      <4>1. Append(output[r], senderinfo[r]) \in Seq(Sender)
        BY <3>1, AppendProperties DEF PlainInv, TypeOK, PlainType
      <4> QED BY <3>1, <4>1 DEF PlainInv, TypeOK
    <3> QED BY <1>6, <3>1 DEF Write, PlainInv, TypeOK
  <2>2. unwritten' \subseteq Receiver
    BY <1>6 DEF Write, PlainInv, PlainType
  <2>3. pc' \in [Receiver -> {"open", "socket", "recvfrom", "write", "sendto", "close",
                              "ended", "undefined"}]
    BY <1>6 DEF Write, PlainInv, TypeOK, Goto
  <2> QED BY <1>6, <2>1, <2>2, <2>3 DEF PlainInv, TypeOK, PlainType, Write, host, senders
<1>7. ASSUME NEW r \in Receiver, Sendto(r) PROVE TypeOK' /\ PlainType'
  <2>1. acks' \in [Receiver -> [Sender -> Nat]]
    BY <1>7 DEF Sendto, PlainInv, PlainType
  <2>2. pc' \in [Receiver -> {"open", "socket", "recvfrom", "write", "sendto", "close",
                              "ended", "undefined"}]
    BY <1>7 DEF Sendto, PlainInv, TypeOK, Goto
  <2> QED BY <1>7, <2>1, <2>2 DEF PlainInv, TypeOK, PlainType, Sendto, host, senders
<1>8. ASSUME NEW r \in Receiver, Close(r) PROVE TypeOK' /\ PlainType'
  <2>1. \/ port' = Nobody /\ queue' = << >>
        \/ UNCHANGED <<port, queue>>
    BY <1>8 DEF Close, Discarded, host
  <2>2. /\ port' \in Receiver \cup {Nobody}
        /\ queue' \in Seq(Sender)
        /\ port' = Nobody => queue' = << >>
    <3>1. << >> \in Seq(Sender)
      BY EmptySeq
    <3> QED BY <2>1, <3>1 DEF PlainInv, TypeOK
  <2>3. pc' \in [Receiver -> {"open", "socket", "recvfrom", "write", "sendto", "close",
                              "ended", "undefined"}]
    BY <1>8 DEF Close, PlainInv, TypeOK, Goto
  <2> QED BY <1>8, <2>2, <2>3 DEF PlainInv, TypeOK, PlainType, Close, senders
<1>9. CASE UNCHANGED vars
  BY <1>9 DEF vars, receivers, host, senders, PlainInv, TypeOK, PlainType
<1> QED BY <1>1, <1>2, <1>3, <1>4, <1>5, <1>6, <1>7, <1>8, <1>9 DEF Next

LEMMA OwnsNext ==
    ASSUME PlainInv, [Next]_vars
    PROVE  Owns'
<1>1. ASSUME NEW r \in Receiver, Recvfrom(r) PROVE Owns'
  <2>1. /\ pc' = [pc EXCEPT ![r] = "write"] /\ UNCHANGED port
        /\ \/ port = r /\ n' = [n EXCEPT ![r] = TRUE]
           \/ n' = [n EXCEPT ![r] = FALSE]
    BY <1>1 DEF Recvfrom, Goto, Taken
  <2> QED BY <2>1 DEF PlainInv, TypeOK, PlainType, Owns, Holds
<1>2. ASSUME NEW r \in Receiver, pc[r] # "write", UNCHANGED n,
             NEW to, to # "write", Goto(r, to),
             \A x \in Receiver \ {r} : port = x => port' = x
      PROVE  Owns'
  BY <1>2 DEF PlainInv, TypeOK, PlainType, Owns, Holds, Goto
<1>3. ASSUME NEW r \in Receiver, Write(r) PROVE Owns'
  BY <1>3 DEF PlainInv, TypeOK, PlainType, Owns, Holds, Goto, Write, host
<1>4. ASSUME NEW r \in Receiver, SocketAndBind(r) PROVE Owns'
  BY <1>2, <1>4, PlainAssumption DEF SocketAndBind, Owner
<1>5. ASSUME NEW r \in Receiver, Close(r) PROVE Owns'
  BY <1>2, <1>5 DEF Close, host
<1>6. CASE UNCHANGED <<pc, n, port>>
  BY <1>6 DEF PlainInv, Owns, Holds
<1>7. ASSUME NEW r \in Receiver, Open(r) \/ Sendto(r) PROVE Owns'
  BY <1>2, <1>7 DEF Open, Sendto, host
<1> QED BY <1>1, <1>3, <1>4, <1>5, <1>6, <1>7
        DEF Next, Send, Arrive, vars, receivers, host

LEMMA AccountedNext ==
    ASSUME PlainInv, [Next]_vars, TypeOK', Owns'
    PROVE  Accounted'
<1> SUFFICES ASSUME NEW s \in Sender
             PROVE  /\ IsFiniteSet(Stored(s)')
                    /\ Cardinality(Stored(s)') + Cardinality(Waiting(s)')
                         + Cardinality(InHand(s)') <= arrived'[s]
  BY DEF Accounted
<1>1. /\ IsFiniteSet(Stored(s)) /\ Cardinality(Stored(s)) \in Nat
      /\ IsFiniteSet(Waiting(s)) /\ Cardinality(Waiting(s)) \in Nat
      /\ Cardinality(Waiting(s)') \in Nat
      /\ arrived[s] \in Nat /\ arrived'[s] \in Nat
      /\ Cardinality(Stored(s)) + Cardinality(Waiting(s)) + Cardinality(InHand(s)) <= arrived[s]
  <2>1. queue \in Seq(Sender) /\ queue' \in Seq(Sender) /\ Waiting(s)' = Places(queue', s)
    BY DEF PlainInv, TypeOK, Waiting, Places
  <2>2. /\ IsFiniteSet(Waiting(s)) /\ Cardinality(Waiting(s)) \in Nat
        /\ Cardinality(Waiting(s)') \in Nat
    BY <2>1, PlacesFinite DEF Waiting
  <2>3. arrived[s] \in Nat /\ arrived'[s] \in Nat
    BY PlainAssumption DEF PlainInv, TypeOK
  <2>4. /\ IsFiniteSet(Stored(s))
        /\ Cardinality(Stored(s)) + Cardinality(Waiting(s)) + Cardinality(InHand(s)) <= arrived[s]
    BY DEF PlainInv, Accounted
  <2> QED BY <2>2, <2>3, <2>4, FS_CardinalityType
<1>2. /\ InHand(s) \subseteq {port} /\ IsFiniteSet(InHand(s)) /\ Cardinality(InHand(s)) \in Nat
      /\ InHand(s)' \subseteq {port'} /\ IsFiniteSet(InHand(s)') /\ Cardinality(InHand(s)') \in Nat
      /\ Cardinality(InHand(s)') <= 1
  <2>1. InHand(s) \subseteq {port} /\ InHand(s)' \subseteq {port'}
    BY DEF PlainInv, Owns, InHand
  <2>2. /\ IsFiniteSet({port}) /\ IsFiniteSet({port'})
        /\ Cardinality({port}) = 1 /\ Cardinality({port'}) = 1
    BY FS_Singleton
  <2> QED BY <2>1, <2>2, FS_Subset, FS_CardinalityType
<1>3. ASSUME UNCHANGED output, InHand(s)' \subseteq InHand(s),
             Waiting(s)' \subseteq Waiting(s), arrived'[s] >= arrived[s]
      PROVE  /\ IsFiniteSet(Stored(s)')
             /\ Cardinality(Stored(s)') + Cardinality(Waiting(s)')
                  + Cardinality(InHand(s)') <= arrived'[s]
  <2>1. Stored(s)' = Stored(s)
    BY <1>3 DEF Stored, Written
  <2>2. /\ Cardinality(InHand(s)') <= Cardinality(InHand(s))
        /\ Cardinality(Waiting(s)') <= Cardinality(Waiting(s))
    BY <1>1, <1>2, <1>3, FS_Subset
  <2> QED BY <1>1, <1>2, <1>3, <2>1, <2>2
<1>4. ASSUME NEW r \in Receiver, NEW to, to # "write", Goto(r, to),
             UNCHANGED <<n, senderinfo>>
      PROVE  InHand(s)' \subseteq InHand(s)
  BY <1>4 DEF Goto, InHand, Holds, PlainInv, TypeOK
<1>5. ASSUME UNCHANGED <<pc, n, senderinfo, output, queue>>, arrived'[s] >= arrived[s]
      PROVE  /\ IsFiniteSet(Stored(s)')
             /\ Cardinality(Stored(s)') + Cardinality(Waiting(s)')
                  + Cardinality(InHand(s)') <= arrived'[s]
  BY <1>3, <1>5 DEF InHand, Holds, Waiting, Places
<1> HIDE DEF Stored, Waiting, InHand
<1>6. ASSUME NEW x \in Sender, Arrive(x)
      PROVE  /\ IsFiniteSet(Stored(s)')
             /\ Cardinality(Stored(s)') + Cardinality(Waiting(s)')
                  + Cardinality(InHand(s)') <= arrived'[s]
  <2>1. arrived'[s] = IF x = s THEN arrived[s] + 1 ELSE arrived[s]
    BY <1>6 DEF Arrive, PlainInv, TypeOK
  <2>2. UNCHANGED <<pc, n, senderinfo, output>>
    BY <1>6 DEF Arrive, receivers
  <2>3. CASE UNCHANGED queue
    BY <1>1, <1>5, <2>1, <2>2, <2>3
  <2>4. CASE queue' = Append(queue, x)
    <3>1. Cardinality(Waiting(s)') =
             IF x = s THEN Cardinality(Waiting(s)) + 1 ELSE Cardinality(Waiting(s))
      <4>1. Waiting(s)' = Places(Append(queue, x), s) /\ Waiting(s) = Places(queue, s)
        BY <2>4 DEF Waiting, Places
      <4>2. queue \in Seq(Sender)
        BY DEF PlainInv, TypeOK
      <4> QED BY <4>1, <4>2, PlacesAppend
    <3>2. Stored(s)' = Stored(s) /\ InHand(s)' = InHand(s)
      BY <2>2 DEF Stored, Written, InHand, Holds
    <3> QED BY <1>1, <1>2, <2>1, <3>1, <3>2
  <2> QED BY <1>6, <2>3, <2>4 DEF Arrive
<1>7. ASSUME NEW r \in Receiver, Recvfrom(r)
      PROVE  /\ IsFiniteSet(Stored(s)')
             /\ Cardinality(Stored(s)') + Cardinality(Waiting(s)')
                  + Cardinality(InHand(s)') <= arrived'[s]
  <2>1. pc' = [pc EXCEPT ![r] = "write"] /\ UNCHANGED <<output, arrived, port>>
    BY <1>7 DEF Recvfrom, Goto, Taken, senders
  <2>2. Stored(s)' = Stored(s)
    BY <2>1 DEF Stored, Written
  <2>3. CASE /\ port = r /\ queue # << >>
             /\ senderinfo' = [senderinfo EXCEPT ![r] = Head(queue)]
             /\ queue' = Rest(queue)
    <3>1. senderinfo'[r] = Head(queue) /\ port' = r
      BY <2>1, <2>3 DEF PlainInv, TypeOK
    <3>2. Cardinality(Waiting(s)') =
             IF Head(queue) = s THEN Cardinality(Waiting(s)) - 1 ELSE Cardinality(Waiting(s))
      <4>1. Waiting(s)' = Places(Tail(queue), s) /\ Waiting(s) = Places(queue, s)
        BY <2>3 DEF Waiting, Places, Rest
      <4>2. queue \in Seq(Sender)
        BY DEF PlainInv, TypeOK
      <4> QED BY <2>3, <4>1, <4>2, PlacesTail
    <3>3. CASE Head(queue) = s
      BY <1>1, <1>2, <2>1, <2>2, <3>2, <3>3
    <3>4. CASE Head(queue) # s
      <4>1. InHand(s)' = {}
        BY <1>2, <3>1, <3>4 DEF InHand
      <4> QED BY <1>1, <1>2, <2>1, <2>2, <3>2, <3>4, <4>1, FS_EmptySet
    <3> QED BY <3>3, <3>4
  <2>4. CASE n' = [n EXCEPT ![r] = FALSE] /\ UNCHANGED <<senderinfo, queue>>
    <3>1. InHand(s)' \subseteq InHand(s)
      BY <2>1, <2>4 DEF InHand, Holds, PlainInv, TypeOK, PlainType
    <3>2. Waiting(s)' = Waiting(s)
      BY <2>4 DEF Waiting, Places
    <3> QED BY <1>1, <1>3, <2>1, <3>1, <3>2
  <2> QED BY <1>7, <2>3, <2>4 DEF Recvfrom
<1>8. ASSUME NEW r \in Receiver, Write(r)
      PROVE  /\ IsFiniteSet(Stored(s)')
             /\ Cardinality(Stored(s)') + Cardinality(Waiting(s)')
                  + Cardinality(InHand(s)') <= arrived'[s]
  <2>1. /\ UNCHANGED <<n, senderinfo, queue, arrived>> /\ Waiting(s)' = Waiting(s)
        /\ pc[r] = "write" /\ pc'[r] # "write"
    BY <1>8 DEF Write, host, senders, Waiting, Places, Goto, PlainInv, TypeOK
  <2>2. InHand(s)' \subseteq InHand(s) /\ r \notin InHand(s)'
    BY <1>4, <1>8, <2>1 DEF Write, InHand, Holds
  <2>3. CASE UNCHANGED output
    BY <1>1, <1>3, <2>1, <2>2, <2>3
  <2>4. CASE n[r] /\ output' = [output EXCEPT ![r] = Append(@, senderinfo[r])]
    <3>1. /\ output[r] \in Seq(Sender) /\ senderinfo[r] \in Sender
          /\ output'[r] = Append(output[r], senderinfo[r])
          /\ \A x \in Receiver \ {r} : output'[x] = output[x]
      BY <2>4 DEF PlainInv, TypeOK, PlainType
    <3>2. Written(r, s) = Places(output[r], s)
          /\ Written(r, s)' = Places(Append(output[r], senderinfo[r]), s)
      BY <3>1 DEF Written, Places
    <3>3. \A x \in Receiver \ {r} : Written(x, s)' = Written(x, s)
      BY <3>1 DEF Written
    <3>4. CASE senderinfo[r] # s
      <4>1. Written(r, s)' = Written(r, s)
        BY <3>1, <3>2, <3>4, PlacesAppend
      <4>2. Stored(s)' = Stored(s)
        BY <3>3, <4>1 DEF Stored
      <4>3. Cardinality(InHand(s)') <= Cardinality(InHand(s))
        BY <1>2, <2>2, FS_Subset
      <4> QED BY <1>1, <1>2, <2>1, <4>2, <4>3
    <3>5. CASE senderinfo[r] = s
      <4> DEFINE new == <<r, Len(output[r]) + 1>>
      <4>1. Written(r, s)' = Written(r, s) \cup {Len(output[r]) + 1}
            /\ Len(output[r]) + 1 \notin Written(r, s)
        BY <3>1, <3>2, <3>5, PlacesAppend
      <4>2. Stored(s)' = Stored(s) \cup {new}
        BY <3>3, <4>1 DEF Stored
      <4>3. new \notin Stored(s)
        BY <4>1 DEF Stored
      <4>4. IsFiniteSet(Stored(s)') /\ Cardinality(Stored(s)') = Cardinality(Stored(s)) + 1
        <5> HIDE DEF new
        <5> QED BY <1>1, <4>2, <4>3, FS_AddElement
      <4>5. r \in InHand(s)
        BY <2>1, <2>4, <3>5 DEF InHand, Holds
      <4>6. Cardinality(InHand(s)') <= Cardinality(InHand(s) \ {r})
            /\ Cardinality(InHand(s) \ {r}) = Cardinality(InHand(s)) - 1
            /\ Cardinality(InHand(s) \ {r}) \in Nat
        <5>1. InHand(s)' \subseteq InHand(s) \ {r} /\ IsFiniteSet(InHand(s) \ {r})
          BY <1>2, <2>2, FS_Subset
        <5> QED BY <1>2, <4>5, <5>1, FS_Subset, FS_RemoveElement, FS_CardinalityType
      <4> QED BY <1>1, <1>2, <2>1, <4>4, <4>6
    <3> QED BY <3>4, <3>5
  <2> QED BY <1>8, <2>3, <2>4 DEF Write
<1>9. ASSUME NEW r \in Receiver, Close(r)
      PROVE  /\ IsFiniteSet(Stored(s)')
             /\ Cardinality(Stored(s)') + Cardinality(Waiting(s)')
                  + Cardinality(InHand(s)') <= arrived'[s]
  <2>1. Waiting(s)' \subseteq Waiting(s)
    <3>1. queue' = << >> \/ queue' = queue
      BY <1>9 DEF Close, Discarded, host
    <3> QED BY <3>1 DEF Waiting, Places
  <2>2. UNCHANGED <<n, senderinfo, output, arrived>> /\ Goto(r, "ended")
    BY <1>9 DEF Close, senders
  <2>3. InHand(s)' \subseteq InHand(s)
    BY <1>4, <2>2
  <2> QED BY <1>1, <1>3, <2>1, <2>2, <2>3
<1>10. ASSUME NEW r \in Receiver, Open(r) \/ SocketAndBind(r) \/ Sendto(r)
      PROVE  /\ IsFiniteSet(Stored(s)')
             /\ Cardinality(Stored(s)') + Cardinality(Waiting(s)')
                  + Cardinality(InHand(s)') <= arrived'[s]
  <2>1. UNCHANGED <<n, senderinfo, output, queue, arrived>>
    BY <1>10 DEF Open, SocketAndBind, Sendto, host, senders
  <2>2. \E to : to # "write" /\ Goto(r, to)
    BY <1>10 DEF Open, SocketAndBind, Sendto
  <2>3. InHand(s)' \subseteq InHand(s)
    BY <1>4, <2>1, <2>2
  <2>4. Waiting(s)' = Waiting(s)
    BY <2>1 DEF Waiting, Places
  <2> QED BY <1>1, <1>3, <2>1, <2>3, <2>4
<1>11. CASE UNCHANGED <<pc, n, senderinfo, output, queue, arrived>>
  BY <1>1, <1>5, <1>11
<1> QED BY <1>6, <1>7, <1>8, <1>9, <1>10, <1>11
        DEF Next, Send, vars, receivers, host, senders

LEMMA AckNext ==
    ASSUME PlainInv, [Next]_vars
    PROVE  AckedIsWritten' /\ OwesAck'
<1>1. \A r \in Receiver : \A s : /\ output[r] \in Seq(Sender)
                                 /\ Written(r, s) = Places(output[r], s)
                                 /\ Cardinality(Written(r, s)) \in Nat
  <2> TAKE r \in Receiver
  <2> TAKE s
  <2>1. output[r] \in Seq(Sender) /\ Written(r, s) = Places(output[r], s)
    BY DEF Written, Places, PlainInv, TypeOK
  <2> QED BY <2>1, PlacesFinite
<1>2. ASSUME NEW r \in Receiver, NEW to, to # "sendto", Goto(r, to),
             UNCHANGED <<output, acks, unwritten>>,
             \A x \in Receiver \ {r} : n'[x] = n[x] /\ senderinfo'[x] = senderinfo[x]
      PROVE  AckedIsWritten' /\ OwesAck'
  <2>1. pc'[r] # "sendto" /\ \A x \in Receiver \ {r} : pc'[x] = pc[x]
    BY <1>2 DEF PlainInv, TypeOK, Goto
  <2>2. \A x \in Receiver : \A s : Written(x, s)' = Written(x, s)
    BY <1>2 DEF Written
  <2>3. AckedIsWritten'
    BY <1>2, <2>2 DEF PlainInv, AckedIsWritten, Written
  <2>4. OwesAck'
    BY <1>2, <2>1 DEF PlainInv, OwesAck, Written
  <2> QED BY <2>3, <2>4
<1>3. CASE UNCHANGED <<pc, n, senderinfo, output, acks, unwritten>>
  BY <1>3 DEF PlainInv, AckedIsWritten, OwesAck, Written
<1>4. ASSUME NEW r \in Receiver, Recvfrom(r) PROVE AckedIsWritten' /\ OwesAck'
  <2>1. \A x \in Receiver \ {r} : n'[x] = n[x] /\ senderinfo'[x] = senderinfo[x]
    BY <1>4 DEF Recvfrom, PlainInv, TypeOK, PlainType
  <2> QED BY <1>2, <1>4, <2>1 DEF Recvfrom, Taken
<1>5. ASSUME NEW r \in Receiver, Open(r) \/ SocketAndBind(r) \/ Close(r)
      PROVE  AckedIsWritten' /\ OwesAck'
  BY <1>2, <1>5 DEF Open, SocketAndBind, Close
<1>6. ASSUME NEW r \in Receiver, Write(r) PROVE AckedIsWritten' /\ OwesAck'
  <2>1. /\ UNCHANGED <<n, senderinfo, acks>>
        /\ \A x \in Receiver \ {r} : pc'[x] = pc[x]
    BY <1>6 DEF Write, Goto, PlainInv, TypeOK
  <2>2. CASE UNCHANGED output /\ unwritten' = unwritten \cup {r}
    BY <2>1, <2>2 DEF PlainInv, AckedIsWritten, OwesAck, Written
  <2>3. CASE /\ n[r] /\ UNCHANGED unwritten
             /\ output' = [output EXCEPT ![r] = Append(@, senderinfo[r])]
    <3>1. /\ senderinfo[r] \in Sender
          /\ output'[r] = Append(output[r], senderinfo[r])
          /\ \A x \in Receiver \ {r} : \A s : Written(x, s)' = Written(x, s)
      BY <2>3 DEF PlainInv, TypeOK, PlainType, Written
    <3>2. \A s : Cardinality(Written(r, s)') =
             IF s = senderinfo[r] THEN Cardinality(Written(r, s)) + 1
                                  ELSE Cardinality(Written(r, s))
      <4> TAKE s
      <4>1. Written(r, s)' = Places(Append(output[r], senderinfo[r]), s)
        BY <3>1 DEF Written, Places
      <4> QED BY <1>1, <3>1, <4>1, PlacesAppend
    <3>3. acks \in [Receiver -> [Sender -> Nat]]
      BY DEF PlainInv, PlainType
    <3>4. \A x \in Receiver \ unwritten, s \in Sender :
             acks[x][s] <= Cardinality(Written(x, s))
      BY DEF PlainInv, AckedIsWritten
    <3>5. AckedIsWritten'
      <4> SUFFICES ASSUME NEW x \in Receiver \ unwritten', NEW s \in Sender
                   PROVE  acks'[x][s] <= Cardinality(Written(x, s)')
        BY DEF AckedIsWritten
      <4>1. acks[x][s] \in Nat /\ acks[x][s] <= Cardinality(Written(x, s))
            /\ Cardinality(Written(x, s)) \in Nat /\ acks'[x][s] = acks[x][s]
        BY <1>1, <2>1, <2>3, <3>3, <3>4
      <4>2. CASE x = r
        BY <3>2, <4>1, <4>2
      <4> QED BY <3>1, <4>1, <4>2
    <3>6. OwesAck'
      <4> SUFFICES ASSUME NEW x \in Receiver \ unwritten', pc'[x] = "sendto", n'[x],
                          NEW s, s = senderinfo[x]
                   PROVE  acks'[x][s] < Cardinality(Written(x, s)')
        BY <2>1 DEF OwesAck, Written
      <4>1. CASE x = r
        <5>1. acks[x][s] \in Nat /\ acks[x][s] <= Cardinality(Written(x, s))
              /\ Cardinality(Written(x, s)) \in Nat
          BY <1>1, <2>3, <3>1, <3>3, <3>4, <4>1
        <5> QED BY <2>1, <3>2, <4>1, <5>1
      <4>2. CASE x # r
        <5>1. acks[x][s] < Cardinality(Written(x, s))
          BY <2>1, <2>3, <4>2 DEF PlainInv, OwesAck, Written
        <5> QED BY <2>1, <3>1, <4>2, <5>1
      <4> QED BY <4>1, <4>2
    <3> QED BY <3>5, <3>6
  <2> QED BY <1>6, <2>2, <2>3 DEF Write
<1>7. ASSUME NEW r \in Receiver, Sendto(r) PROVE AckedIsWritten' /\ OwesAck'
  <2>1. /\ UNCHANGED <<n, senderinfo, output, unwritten>> /\ pc[r] = "sendto"
        /\ pc'[r] # "sendto" /\ \A x \in Receiver \ {r} : pc'[x] = pc[x]
    BY <1>7 DEF Sendto, Goto, PlainInv, TypeOK
  <2>2. CASE UNCHANGED acks
    BY <2>1, <2>2 DEF PlainInv, AckedIsWritten, OwesAck, Written
  <2>3. CASE n[r] /\ acks' = [acks EXCEPT ![r][senderinfo[r]] = @ + 1]
    <3>1. /\ acks \in [Receiver -> [Sender -> Nat]] /\ senderinfo[r] \in Sender
          /\ \A x \in Receiver : \A s : Written(x, s)' = Written(x, s)
      BY <2>1, <2>3 DEF PlainInv, PlainType, Written
    <3>2. /\ \A x \in Receiver \ {r} : acks'[x] = acks[x]
          /\ \A s \in Sender : acks'[r][s] = IF s = senderinfo[r] THEN acks[r][s] + 1
                                                                  ELSE acks[r][s]
      BY <2>3, <3>1
    <3>3. OwesAck'
      BY <2>1, <3>1, <3>2, SMTT(30) DEF PlainInv, OwesAck, Written
    <3>4. AckedIsWritten'
      <4> SUFFICES ASSUME NEW x \in Receiver \ unwritten, NEW s \in Sender
                   PROVE  acks'[x][s] <= Cardinality(Written(x, s))
        BY <2>1, <3>1 DEF AckedIsWritten
      <4>1. acks[x][s] \in Nat /\ Cardinality(Written(x, s)) \in Nat
            /\ acks[x][s] <= Cardinality(Written(x, s))
        BY <1>1, <3>1 DEF PlainInv, AckedIsWritten
      <4>2. CASE x = r /\ s = senderinfo[r]
        <5>1. acks[x][s] < Cardinality(Written(x, s))
          BY <2>1, <2>3, <4>2 DEF PlainInv, OwesAck
        <5> QED BY <3>2, <4>1, <4>2, <5>1
      <4> QED BY <3>2, <4>1, <4>2
    <3> QED BY <3>3, <3>4
  <2> QED BY <1>7, <2>2, <2>3 DEF Sendto
<1> QED BY <1>3, <1>4, <1>5, <1>6, <1>7
        DEF Next, Send, Arrive, vars, receivers, host

-----------------------------------------------------------------------------
LEMMA PlainInit == ASSUME Init PROVE PlainInv
<1>1. << >> \in Seq(Sender) /\ \A x : Places(<< >>, x) = {}
  BY EmptySeq DEF Places
<1>2. TypeOK /\ PlainType /\ Owns
  BY <1>1, PlainAssumption DEF Init, TypeOK, PlainType, Owns, Holds
<1>3. \A r \in Receiver : \A x : Written(r, x) = {}
  BY DEF Init, Written
<1>4. Accounted
  <2> SUFFICES ASSUME NEW s \in Sender
               PROVE  /\ IsFiniteSet(Stored(s))
                      /\ Cardinality(Stored(s)) + Cardinality(Waiting(s))
                           + Cardinality(InHand(s)) <= arrived[s]
    BY DEF Accounted
  <2>1. Stored(s) = {}
    BY <1>3 DEF Stored
  <2>2. Waiting(s) = {} /\ InHand(s) = {} /\ arrived[s] = 0
    BY <1>1 DEF Init, Waiting, InHand, Holds
  <2> QED BY <2>1, <2>2, FS_EmptySet
<1>5. AckedIsWritten
  <2> SUFFICES ASSUME NEW r \in Receiver, NEW s \in Sender
               PROVE  acks[r][s] <= Cardinality(Written(r, s))
    BY DEF AckedIsWritten
  <2>1. acks[r][s] = 0
    BY DEF Init
  <2>2. Cardinality(Written(r, s)) = 0
    BY <1>3, FS_EmptySet
  <2> QED BY <2>1, <2>2
<1>6. OwesAck
  BY DEF OwesAck, Init
<1> QED BY <1>2, <1>4, <1>5, <1>6 DEF PlainInv

LEMMA PlainNext == ASSUME PlainInv, [Next]_vars PROVE PlainInv'
  BY PlainTypeNext, OwnsNext, AccountedNext, AckNext DEF PlainInv

LEMMA PlainCorrect == Spec => []PlainInv
  BY PlainInit, PlainNext, PTL DEF Spec

\* The variables have their types, and the port that nobody owns has no queue.
THEOREM PlainTypeCorrect == Spec => []TypeOK
  BY PlainCorrect, PTL DEF PlainInv

(***************************************************************************)
(* However many receivers come and go, what they have written and what     *)
(* waits for them never exceeds what came in: recvfrom takes a datagram    *)
(* off the queue of the port for good, and close throws the rest away.     *)
(***************************************************************************)
THEOREM ArrivalCorrect == Spec => []ArrivalOnce
<1>1. PlainInv => ArrivalOnce
  <2> SUFFICES ASSUME PlainInv, NEW s \in Sender
               PROVE  Cardinality(Stored(s)) + Cardinality(Waiting(s)) <= arrived[s]
    BY DEF ArrivalOnce, Stored, Waiting, Places
  <2>1. IsFiniteSet(InHand(s))
    <3>1. InHand(s) \subseteq {port}
      BY DEF PlainInv, Owns, InHand
    <3> QED BY <3>1, FS_Singleton, FS_Subset
  <2>2. Cardinality(InHand(s)) \in Nat
    BY <2>1, FS_CardinalityType
  <2>3. queue \in Seq(Sender) /\ arrived[s] \in Nat
    BY PlainAssumption DEF PlainInv, TypeOK
  <2>4. Cardinality(Waiting(s)) \in Nat
    BY <2>3, PlacesFinite DEF Waiting
  <2>5. Cardinality(Stored(s)) \in Nat
    BY FS_CardinalityType DEF PlainInv, Accounted
  <2>6. Cardinality(Stored(s)) + Cardinality(Waiting(s)) + Cardinality(InHand(s)) <= arrived[s]
    BY DEF PlainInv, Accounted
  <2> QED BY <2>2, <2>3, <2>4, <2>5, <2>6
<1> QED BY <1>1, PlainCorrect, PTL

(***************************************************************************)
(* A receiver of udp_with_ack whose writes succeed has acknowledged no     *)
(* more of a sender's datagrams than it has written.                       *)
(***************************************************************************)
THEOREM AckedIsWrittenCorrect == Spec => []AckedIsWritten
  BY PlainCorrect, PTL DEF PlainInv

(***************************************************************************)
(* Whatever bind returned, only the receiver that owns the port writes to  *)
(* its file.                                                               *)
(***************************************************************************)
THEOREM OwnerCorrect == Spec => OnlyOwnerWrites
<1>1. PlainInv /\ [Next]_vars => [\A r \in Receiver : output'[r] # output[r] => port = r]_vars
  <2> SUFFICES ASSUME PlainInv, [Next]_vars, NEW r \in Receiver, output'[r] # output[r]
               PROVE  port = r
    OBVIOUS
  <2>1. ASSUME NEW x \in Receiver, Write(x) PROVE port = r
    BY <2>1 DEF Write, PlainInv, TypeOK, Owns, Holds
  <2> QED BY <2>1 DEF Next, Send, Arrive, Open, SocketAndBind, Recvfrom, Sendto, Close,
                      vars, receivers
<1> QED BY <1>1, PlainCorrect, PTL DEF Spec, OnlyOwnerWrites

=============================================================================
