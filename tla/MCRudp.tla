------------------------------- MODULE MCRudp -------------------------------
(***************************************************************************)
(* Values for the constants of Rudp that a configuration file cannot hold. *)
(***************************************************************************)
EXTENDS RudpStream

CONSTANTS a, b, c

\* One application that sends, one that receives.
OneFlow == {<<a, b>>}

\* One socket used for two peers, as udp_fs.c does with its list of peers.
TwoPeers == {<<a, b>>, <<a, c>>}

\* Two sending applications, one receiving socket.
TwoSenders == {<<a, c>>, <<b, c>>}

\* Both applications send to each other through the same pair of sockets.
BothWays == {<<a, b>>, <<b, a>>}

\* A relay: b receives from a and sends to c.
Relay == {<<a, b>>, <<b, c>>}

=============================================================================
