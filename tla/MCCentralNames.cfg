SPECIFICATION GenSpec
CONSTANTS
  k1 = k1
  k2 = k2
  m1 = m1
  m2 = m2
  Dot <- MCDot
  DistrictIds <- CentralDistrict
  PartitionIds <- CentralPartitions
  Clusters = {k1, k2}
  Domains = {m1, m2}
  Shares <- MCShares
  None = None
  Spaces <- DisjointSpaces
  Cabinets = {b}
  Filters <- MCFilters
  Literals <- MCLiterals
  BaseSpecs <- SmallBase
  Substrates <- MCSubstrates
  Endpoints <- MCEndpoints
  Configs <- OneConfig
  Fields <- PlaceFields
  MaxEdits = 2
INVARIANTS
  StreamNamesUnique
