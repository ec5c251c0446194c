SPECIFICATION GenSpec
CONSTANTS
  k1 = k1
  k2 = k2
  m1 = m1
  m2 = m2
  Dot <- MCDot
  DistrictIds <- TwoDistricts
  PartitionIds <- CollidingPartitions
  Clusters = {k1, k2}
  Domains = {m1, m2}
  Shares <- MCShares
  None = None
  Spaces <- NestedSpaces
  Cabinets = {b}
  Filters <- MCFilters
  Literals <- MCLiterals
  BaseSpecs <- SmallBase
  Substrates <- MCSubstrates
  Endpoints <- MCEndpoints
  Configs <- OneConfig
  Fields <- PrefixFields
  MaxEdits = 3
INVARIANTS
  RerunIsQuiet
