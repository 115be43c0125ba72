\* Two processes, an approval, two proposals and two targets on one thread; two imports; two
\* runs of the attacker; two calls; three cases of a benchmark that is started twice and retries
\* once; two ingesters; two searches of three hits; five commands; two
\* shells of the instrument and two baselines.
SPECIFICATION MCSpec
CONSTANTS
  Threads = {t1}
  Processes = {p1, p2}
  Proposals = {qa, qb}
  Tokens = {k1}
  Targets = 2
  PerTarget = 1
  Ceiling = 2
  MaxCut = 1
  Runs = {p1, p2}
  Order <- MCOrder
  Kind <- MCKind
  Findings = {1}
  Page = 2
  Changes = 1
  Attackers = {p1, p2}
  Caught = {0, 2}
  Rounds = 3
  Payloads = 2
  Trials = 1
  MaxCalls = 6
  Drawn = 5
  Texts <- MCWords
  Declarations <- MCDeclarations
  Calls = 2
  Cases <- MCCases
  Flawed = {"c2"}
  Workers = 1
  InFlight = 2
  Attempts = 2
  Window = 2
  Outages = 2
  Invocations = 2
  MaxChars = 4
  Ingesters = {p1, p2}
  TextChanges = 1
  Ingests = 2
  Hits = {h1, h2, h3}
  RrfK = 2
  TopK = 2
  Commands = 5
  Shells = {p1, p2}
  Begins = 2
  Baselines = {p1, p2}
SYMMETRY MCSymmetry
INVARIANTS
  ApprovedOnce
  ThreadsAreExact
  ZeroMeansLanded
  MeasuredIsReproducible
  
  DeadProviderStops
  
PROPERTIES
  ClosedOnEvidence
  CompleteIsWhole
  CreatedBehindRules
CHECK_DEADLOCK FALSE
