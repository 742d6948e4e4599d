-------------------------------- MODULE MCStanding --------------------------------
(* Instances of Standing for TLC.                                              *)
EXTENDS Standing, TLC

CONSTANTS r1, r2
=============================================================================
