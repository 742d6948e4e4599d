\* One created loan, concurrent submits and status requests, overlapping ticks,
\* a crash.
SPECIFICATION Spec
CONSTANTS
  h1 = h1
  h2 = h2
  l1 = l1
  s1 = s1
  s2 = s2
  p1 = p1
  c1 = c1
  c2 = c2
  Hash = {h1}
  Loan = {l1}
  Submit = {s1, s2}
  Poll = {p1}
  Cycle = {c1, c2}
  CallOf <- OneCreate
  LoanOf <- ToLoan1
  AmountOf <- Amounts
  Principal <- Owed
  BatchLimit = 2
  MaxAsk = 3
  MaxCrash = 1
SYMMETRY Slots
INVARIANT AnswersMatchLedger
