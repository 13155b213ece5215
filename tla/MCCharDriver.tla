---------------------------- MODULE MCCharDriver ----------------------------
(* The driver with interchangeable processes.                                *)
EXTENDS CharDriver, TLC

SeekOffsets == {-1, 1, 3}

Alike == Permutations(Files)
=============================================================================
