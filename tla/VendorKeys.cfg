\* Two calls at a time, two wallets, one key and one product, one request to a window.
SPECIFICATION Spec
CONSTANTS
  c1 = c1
  c2 = c2
  w1 = w1
  w2 = w2
  Wallet = {w1, w2}
  Product = {"p"}
  Key = {"k"}
  Field = {"name"}
  Value = {1}
  Call = {c1, c2}
  MaxRequests = 2
SYMMETRY Slots
INVARIANTS LimitWithoutOverlap ConflictIsAnswered
PROPERTIES RevokedIsRefused
