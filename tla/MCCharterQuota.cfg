\* Two executors, four requests and a clock: quotas, expiry, legacy rows, liveness.
CONSTANTS
  get = get
  postA = postA
  postB = postB
  old = old
  approveGet = approveGet
  again = again
  rejectGet = rejectGet
  revokeGet = revokeGet
  forged = forged
  approveA = approveA
  approveB = approveB
  approveOld = approveOld
  e1 = e1
  e2 = e2
  e3 = e3
  Requests = {get, postA, postB, old}
  Envelopes = {approveGet, rejectGet, forged, approveA, approveB, approveOld}
  Executors = {e1, e2}
  NoEnvelope = NoEnvelope
  EnvRequest <- MCEnvRequest
  EnvDecision <- MCEnvDecision
  Genuine = {approveGet, rejectGet, approveA, approveB, approveOld}
  EnvExpiry <- MCEnvExpiry
  Expiry <- MCExpiry
  RunOf <- MCRunOf
  Posts = {postA, postB}
  Legacy = {old}
  QuotaCap = 1
  QuotaWindow = 1
  MaxClock = 3
SPECIFICATION FairSpec
\* every executor ends, and nothing starts a new one
CHECK_DEADLOCK FALSE
INVARIANTS QuotaHolds OnePostPerRun
PROPERTIES InFlightEnds
