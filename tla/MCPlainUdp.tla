----------------------------- MODULE MCPlainUdp -----------------------------
(***************************************************************************)
(* A receiver that answers, one that takes a single datagram and one       *)
(* that prints it; a sender of each kind.                                  *)
(***************************************************************************)
EXTENDS PlainUdp

CONSTANTS ack1, once, print, hello1, hello2, file

=============================================================================
