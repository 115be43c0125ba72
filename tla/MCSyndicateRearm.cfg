\* Two processes on one thread, two approvals and two proposals; a fuzz run sends at most
\* two requests, and a thread may lose the count of one run.
SPECIFICATION Spec
CONSTANTS
  t1 = t1
  p1 = p1
  p2 = p2
  k1 = k1
  k2 = k2
  qa = qa
  qb = qb
  Threads = {t1}
  Processes = {p1, p2}
  Proposals = {qa, qb}
  Tokens = {k1, k2}
  Targets = 2
  PerTarget = 1
  Ceiling = 2
  MaxCut = 1
SYMMETRY Symmetry
INVARIANT NoRearm
