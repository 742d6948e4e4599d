--------------------------------- MODULE MCAccess ---------------------------------
(* Instances of Access for TLC.                                                *)
EXTENDS Access, TLC

CONSTANTS r1, r2

Slots == Permutations(Req)
=============================================================================
