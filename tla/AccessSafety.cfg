\* A role, two requests at a time, two changes of the row, one failure.
SPECIFICATION Spec
CONSTANTS
  r1 = r1
  r2 = r2
  Role = {"sponsor"}
  Req = {r1, r2}
  TTL = 1
  Latency = 1
  MaxWrite = 2
  MaxFault = 1
SYMMETRY Slots
INVARIANTS InvalidationTakesEffect RoleChosenOnce
PROPERTIES AdmittedRightly StalenessBounded
