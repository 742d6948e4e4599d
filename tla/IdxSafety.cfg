SPECIFICATION Spec
CONSTANTS
  l1 = l1
  l2 = l2
  w1 = w1
  Loan <- MCLoan
  Wallet <- MCWallet
  Chains <- MCChains
  Principal = 1
  Interest = 1
  PageLimit = 2
  RetentionBuffer = 2
  CatchUpBuffer = 1
  Window = 2
  MaxLedger = 5
  MaxFault = 2
INVARIANTS EventsAccountedFor PaidIsCovered CoveredIsPaid
PROPERTY IndexKept
