\* A loan's creation and another transaction, with a fair checker.
SPECIFICATION FairSpec
CONSTANTS
  h1 = h1
  h2 = h2
  l1 = l1
  s1 = s1
  s2 = s2
  p1 = p1
  c1 = c1
  c2 = c2
  Hash = {h1, h2}
  Loan = {l1}
  Submit = {s1}
  Poll = {}
  Cycle = {c1}
  CallOf <- CreateAndOther
  LoanOf <- ToLoan1
  AmountOf <- Amounts
  Principal <- Owed
  BatchLimit = 1
  MaxAsk = 2
  MaxCrash = 0
PROPERTY LandedRowSettles
