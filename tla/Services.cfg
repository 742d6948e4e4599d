\* Two calls (processes) at a time, one wallet.
SPECIFICATION Spec
CONSTANTS
  c1 = c1
  c2 = c2
  f1 = f1
  f2 = f2
  Call = {c1, c2}
  File = {f1, f2}
  Required = {"full_name", "country"}
  Pair = {"p"}
  Vouch = {1, 2, 3}
  Loan = {"l"}
  MaxNotes = 2
  LastDay = 2
  Nonce = {"n1", "n2"}
  Domain = {"d1", "d2"}
  Network = {"t", "p"}
  TTL = 5
  Second = 2
  Sunset = 4
  LastTick = 7
  Wallet = {"w1", "w2"}
  Contract = {"k1", "k2"}
  MaxOps = 2
  MaxRecords = 1
  Cents <- Amounts
  Months = {1, 2, 3, 7, 11, 12}
  Standing <- Scores
  MaxPool = 3
  MaxMoves = 1
  MinDeposit = 1
  Scale = 100
  FeeBps = 50
  Exercised = {"accounts", "learners", "vouching", "reminders", "challenge", "admission", "quotes"}
SYMMETRY Slots
INVARIANTS NothingLeftBehind CompleteFlagRight OneActiveVouch ReminderOnceADay AcceptedIsBound FreshIsAccepted FollowUpIsDeclared
INVARIANTS ScheduleRepaysLoan NextPaymentIsPayable ScreensAgree
PROPERTIES RevokedStaysRevoked
CHECK_DEADLOCK FALSE
