SPECIFICATION Spec
CONSTANTS
  d1 = d1
  x = x
  d2 = d2
  c1 = c1
  c2 = c2
  Districts = {d1}
  Accounts = {d1, DMZ}
  DMZ = DMZ
  Cabinets = {c1}
  Consumers = {x}
  Unplaced = Unplaced
  None = None
  Torn = Torn
  Jobs <- FullRotationJobs
  MaxGen <- RotatedOnce
  MaxClock = 1
CONSTRAINT TwoTorn
INVARIANTS
  TypeInv
  RevocationInv
  RetiredAreRevoked
  ServedCredsOutliveRevocation
  NeverWedged
PROPERTIES
  RevocationsPersist
  ImplementsAuthority
