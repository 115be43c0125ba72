\* Two processes open an old, empty table at once: does the provider see a unit twice?
SPECIFICATION ArmSpec
CONSTANTS
  d1 = d1
  d2 = d2
  Dispatchers = {d1, d2}
  Units = {1, 2}
  Readings = {1}
  Legacy = Legacy
  LegacyRows = {}
  HasUnits = FALSE
  Short = 1
INVARIANT OneCallEver
CHECK_DEADLOCK FALSE
