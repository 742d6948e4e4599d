\* Two logins and their refreshes, two requests at a time, one fault.
SPECIFICATION Spec
CONSTANTS
  f1 = f1
  f2 = f2
  n1 = n1
  n2 = n2
  s1 = s1
  s2 = s2
  None = None
  Nonce = {n1, n2}
  Fam = {f1, f2}
  Slot = {s1, s2}
  MaxTime = 1
  MaxAsk = 2
  MaxFault = 1
SYMMETRY Alike
INVARIANTS NonceSucceedsOnce HonestClientKeepsSession RevokedFamilyStaysEmpty
\* The bounds on the clock, the requests and the families end every behaviour.
CHECK_DEADLOCK FALSE
