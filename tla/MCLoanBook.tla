-------------------------------- MODULE MCLoanBook --------------------------------
(* Instances of LoanBook for TLC.                                              *)
EXTENDS LoanBook

CONSTANTS r1, r2, q1

\* Rows are alike and keep their amounts, so that r1 may have the smaller one. (Loans of
\* one amount, which nothing tells apart, are left out.)
InOrder == {r1, r2} \subseteq Rows(book) => book[r1].amount < book[r2].amount
=============================================================================
