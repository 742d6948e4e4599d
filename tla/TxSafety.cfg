\* Two repayments of one loan, concurrent requests, overlapping ticks, a crash.
SPECIFICATION Spec
CONSTANTS
  h1 = h1
  h2 = h2
  l1 = l1
  s1 = s1
  s2 = s2
  p1 = p1
  c1 = c1
  c2 = c2
  Hash = {h1, h2}
  Loan = {l1}
  Submit = {s1, s2}
  Poll = {}
  Cycle = {c1, c2}
  CallOf <- TwoRepays
  LoanOf <- ToLoan1
  AmountOf <- Amounts
  Principal <- Owed
  BatchLimit = 2
  MaxAsk = 2
  MaxCrash = 1
SYMMETRY Slots
INVARIANTS
  AppliedOncePerRecording
  SubmittedOncePerRecording
  BalanceAccountsForRepayments
PROPERTY PromiseKept
