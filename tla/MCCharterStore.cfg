\* Three executors race over one GET (two approvals, a revoke) and one POST.
CONSTANTS
  get = get
  postA = postA
  postB = postB
  old = old
  approveGet = approveGet
  again = again
  rejectGet = rejectGet
  revokeGet = revokeGet
  forged = forged
  approveA = approveA
  approveB = approveB
  approveOld = approveOld
  e1 = e1
  e2 = e2
  e3 = e3
  Requests = {get, postA}
  Envelopes = {approveGet, again, revokeGet, approveA}
  Executors = {e1, e2, e3}
  NoEnvelope = NoEnvelope
  EnvRequest <- MCEnvRequest
  EnvDecision <- MCEnvDecision
  Genuine = {approveGet, again, revokeGet, approveA}
  EnvExpiry <- MCEnvExpiry
  Expiry <- MCExpiry
  RunOf <- MCRunOf
  Posts = {postA}
  Legacy = {}
  QuotaCap = 2
  QuotaWindow = 1
  MaxClock = 1
SPECIFICATION Spec
SYMMETRY Symmetry
\* every executor ends, and nothing starts a new one
CHECK_DEADLOCK FALSE
INVARIANTS TypeOK AtMostOneSend TerminalIsTruthful ReceiptIsProof RowIsLogged
PROPERTIES RevokeWins ResponseIsFinal ImplementsDispatch
