SPECIFICATION RecoverySpec
CONSTANTS
  d1 = d1
  c1 = c1
  c2 = c2
  x = x
  Districts = {d1}
  Accounts = {d1, DMZ}
  DMZ = DMZ
  Cabinets = {c1, c2}
  Consumers = {x}
  Unplaced = Unplaced
  None = None
  Torn = Torn
  Jobs <- WishJobs
  MaxGen <- EnoughKeys
  MaxClock = 0
  Fleet <- TwoCabinets
  MaxFaults = 2
  MaxWishes = 2
INVARIANTS
  TrustChain
  RetiredAreRevoked
PROPERTIES
  RevocationsPersist
  AuditBeforeSwap
  RootsAreSticky
  AlwaysRecovers
