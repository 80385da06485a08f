----------------------------- MODULE RudpStream -----------------------------
(***************************************************************************)
(* Rudp implements ReliableStream for all the flows into sockets that have *)
(* a receive handler.                                                      *)
(***************************************************************************)
EXTENDS RudpInv

ToReader == Node \X RecvHandler

Acked(n, m) ==
    IF sender[n][m] = NULL THEN 0
    ELSE Len(stream[n][m]) - Cardinality(Outstanding(sender[n][m]))

Streams == INSTANCE ReliableStream
    WITH Channel <- ToReader,
         accepted <- [f \in ToReader |-> handed[f[1]][f[2]]],
         numbered <- [f \in ToReader |-> stream[f[1]][f[2]]],
         delivered <- [f \in ToReader |-> delivered[f[2]][f[1]]],
         acked <- [f \in ToReader |-> Acked(f[1], f[2])],
         ended <- [f \in ToReader |-> Ended(f[1], f[2])]

(***************************************************************************)
(* Every handler, whatever it does at once to several sessions, takes each *)
(* flow one step of a reliable stream further or leaves it alone: numbers  *)
(* once what rudp_sendto accepted, delivers it in that order, acknowledges *)
(* only what is delivered, and ends only what is complete.                 *)
(***************************************************************************)
ImplementsStream == Streams!Spec

=============================================================================
