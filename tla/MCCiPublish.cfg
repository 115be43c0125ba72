\* One publisher at a time, killed and restarted at every step.
CONSTANTS
  p1 = p1
  p2 = p2
  Publishers = {p1, p2}
  Together = 1
SPECIFICATION FairSpec
INVARIANT FiveStates
PROPERTIES FinalStays PublishesUnlessKilled
