--------------------------------- MODULE MCVendors ---------------------------------
(* Instances of Vendors for TLC.                                               *)
EXTENDS Vendors, TLC

CONSTANTS c1, c2, w1, w2

Slots == Permutations(Call) \cup Permutations(Wallet)
=============================================================================
