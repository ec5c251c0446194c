SPECIFICATION HealthSpec
CONSTANTS
  d1 = d1
  d2 = d2
  c1 = c1
  c2 = c2
  x = x
  Districts = {d1, d2}
  Cabinets = {c1}
  Consumers = {x}
  None = None
  Torn = Torn
  Eternal = Eternal
  Validity = 3
  CAValidity = 5
  Skew = 1
  Warn = 1
  Period = 1
  Soon = 2
  Critical = 2
  StaleAfter = 1
  MaxDay = 6
  MaxStops = 0
  MaxEdits = 3
INVARIANTS
  HealthyCoversDMZ
