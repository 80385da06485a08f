---------------------------- MODULE MCSocketUser ----------------------------
(***************************************************************************)
(* Values for the constants of SocketUser: what rudp_recv.c and udp_fs.c   *)
(* check is Null alone; a careful application would check both results.    *)
(***************************************************************************)
EXTENDS SocketUser

BothResults == {Null, Error}

NullOnly == {Null}

=============================================================================
