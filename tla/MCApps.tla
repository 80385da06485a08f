------------------------------- MODULE MCApps -------------------------------
(***************************************************************************)
(* Command lines for both applications: the option, an address without a   *)
(* port, two peers of which one is also the name of a file, two files, and *)
(* a port number.                                                          *)
(***************************************************************************)
EXTENDS Apps

CONSTANTS dash_d, noport, host, hostfile, file1, file2, number

AllArguments == {dash_d, noport, host, hostfile, file1, file2, number}

AtoiOf == [x \in AllArguments |-> IF x = number THEN 4000 ELSE 0]

=============================================================================
