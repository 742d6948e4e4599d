------------------------------- MODULE MCSessions -------------------------------
(* Instances of Sessions for TLC.                                             *)
EXTENDS Sessions, TLC

CONSTANTS f1, f2, n1, n2, s1, s2

\* Nonces, families and slots are alike.
Alike == Permutations({n1, n2}) \cup Permutations({f1, f2}) \cup Permutations({s1, s2})

=============================================================================
