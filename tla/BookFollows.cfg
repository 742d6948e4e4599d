\* Two loans of different amounts, one of which may have to be reviewed or rejected; one
\* request at a time, one assessment or repayment.
SPECIFICATION Spec
CONSTANTS
  r1 = r1
  r2 = r2
  q1 = q1
  Row = {r1, r2}
  Req = {q1}
  Amount = {200000, 400000, 450000}
  Payment = {200000}
  Term = 4
  Standing = {0, 75}
  MaxAsk = 1
INVARIANT RowsKeepTheirLoan
PROPERTIES ReopenedByOvertaken PreviewHolds BookFollowsIndex
CONSTRAINT InOrder
