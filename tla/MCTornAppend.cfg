SPECIFICATION Spec
CONSTANTS
  d1 = d1
  x = x
  d2 = d2
  c1 = c1
  c2 = c2
  Districts = {d1}
  Accounts = {d1}
  DMZ = DMZ
  Cabinets = {c1}
  Consumers = {}
  Unplaced = Unplaced
  None = None
  Torn = Torn
  Jobs <- RotationJobs
  MaxGen <- TwoUserKeys
  MaxClock = 1
INVARIANTS
  RotationRevokes
