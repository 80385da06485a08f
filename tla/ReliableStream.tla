--------------------------- MODULE ReliableStream ---------------------------
(***************************************************************************)
(* What RUDP promises to the applications.  A flow is a pair of sockets.   *)
(* Its messages are accepted by rudp_sendto, get their place in the stream *)
(* when they are numbered, are delivered in that order and acknowledged    *)
(* after that; the FIN ends the stream.  Sequence numbers, windows, timers *)
(* and datagrams are out of sight.                                         *)
(***************************************************************************)
EXTENDS Naturals, Sequences, SequencesExt

CONSTANT Channel   \* the flows

VARIABLES
    accepted,   \* accepted[f] messages, called 1 .. accepted[f], are accepted
    numbered,   \* messages in the order of their sequence numbers
    delivered,  \* messages recv_handler has been given
    acked,      \* how many messages have left the sender's window
    ended       \* the FIN is out

vars == <<accepted, numbered, delivered, acked, ended>>

Init ==
    /\ accepted = [f \in Channel |-> 0]
    /\ numbered = [f \in Channel |-> << >>]
    /\ delivered = [f \in Channel |-> << >>]
    /\ acked = [f \in Channel |-> 0]
    /\ ended = [f \in Channel |-> FALSE]

Rest(f) == UNCHANGED <<accepted[f], numbered[f], delivered[f], acked[f], ended[f]>>

\* The receiver is given the next message of the stream.
Deliver(f) ==
    /\ Len(delivered[f]) < Len(numbered[f])
    /\ delivered'[f] = Append(delivered[f], numbered[f][Len(delivered[f]) + 1])
    /\ UNCHANGED <<accepted[f], numbered[f], acked[f], ended[f]>>

\* The stream grows at its end, by accepted messages, each of them once.
Extend(f) ==
    /\ IsPrefix(numbered[f], numbered'[f])
    /\ IsInjective(numbered'[f])
    /\ ToSet(numbered'[f]) \subseteq 1 .. accepted'[f]

\* The FIN needs all that was accepted to be numbered and acknowledged.
MayEnd(f) ==
    /\ Len(numbered'[f]) = accepted'[f]
    /\ acked'[f] = accepted'[f]

(***************************************************************************)
(* One step of the sender may do several things: a call of rudp_sendto     *)
(* accepts and numbers; an ACK slides the window, flushes the queue and    *)
(* sends the FIN.  A message is acknowledged only after its delivery.      *)
(* After the end rudp_sendto still accepts, but nothing more is numbered.  *)
(***************************************************************************)
Send(f) ==
    /\ accepted'[f] \in {accepted[f], accepted[f] + 1}
    /\ Extend(f)
    /\ acked'[f] \in acked[f] .. Len(delivered[f])
    /\ IF ended[f] THEN ended'[f] /\ UNCHANGED <<numbered[f], acked[f]>>
       ELSE ended'[f] => MayEnd(f)
    /\ UNCHANGED delivered[f]

\* A handler may advance several flows at once: the walk that sends FINs.
Next == \A f \in Channel : Deliver(f) \/ Send(f) \/ Rest(f)

Spec == Init /\ [][Next]_vars

=============================================================================
