------------------------- MODULE MCTransactionLifecycle -------------------------
(* Instances of TransactionLifecycle for TLC.                               *)
EXTENDS TransactionLifecycle, TLC

CONSTANTS h1, h2, l1, s1, s2, p1, c1, c2

OneCreate == [h \in {h1} |-> "create_loan"]
TwoRepays == [h \in {h1, h2} |-> "repay_loan"]
CreateAndOther == [h \in {h1, h2} |-> IF h = h1 THEN "create_loan" ELSE "other"]
ToLoan1 == [h \in Hash |-> l1]
Amounts == [h \in Hash |-> 2]
\* Requests are interchangeable, and so are ticks.
Slots == Permutations({s1, s2}) \cup Permutations({c1, c2})
Owed == [l \in Loan |-> 3]
=============================================================================
