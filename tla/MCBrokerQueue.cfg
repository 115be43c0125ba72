\* Three commands, two capabilities, a listen backlog of one.
CONSTANTS
  k1 = k1
  k2 = k2
  k3 = k3
  c1 = c1
  c2 = c2
  Keys = {k1, k2, k3}
  Capabilities = {c1, c2}
  NoKey = NoKey
  NoSession = NoSession
  Backlog = 1
SPECIFICATION FairSpec
INVARIANTS ExecutedOnce SuccessIsEarned
PROPERTIES OutcomeIsFinal ClaimEnds
