------------------------------ MODULE MCICache ------------------------------
(* Model values for the processes and file names of the ICache runs.      *)
EXTENDS ICache, TLC
CONSTANTS p1, p2, n1, n2
=============================================================================
