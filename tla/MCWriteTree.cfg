SPECIFICATION TreeSpec
CONSTANTS
  s1 = s1
  s2 = s2
  s3 = s3
  Specs = {s1, s2, s3}
  Names = {1, 2, 3, 4}
  Produces <- MCProduces
  None = None
  Partial = Partial
INVARIANTS
  TreeTypeOK
  TreeInv
  TreeIsCurrent
PROPERTIES
  ImplementsPublication
