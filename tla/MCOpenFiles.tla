---------------------------- MODULE MCOpenFiles ----------------------------
(* The command lines TLC checks.                                           *)
EXTENDS OpenFiles

AllArgcs == 1 .. 13
AllCounts == -1 .. 12
=============================================================================
