SPECIFICATION FakeIpSpec
CONSTANTS
  Domains = {d1, d2, d3, d4, d5}
  Count = 4
  Unbound = Unbound
  MaxFresh = 9
INVARIANTS
  MapsAreInverse
  BindingOutlivesRange
PROPERTIES
  EvictsOldest
CHECK_DEADLOCK FALSE
