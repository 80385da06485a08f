----------------------------- MODULE MCRetries -----------------------------
(***************************************************************************)
(* The instance of MCRudp with the history of retransmissions.             *)
(***************************************************************************)
EXTENDS MCRudp, RudpRetries

=============================================================================
