\* Two processes and two readings of two units on a table still to be migrated; two processes and
\* one database beside the placeholder; two acquisitions and a lost commit; two importers, an analyst
\* and a rewritten file; three findings and four scenes; two processes, two kinds of records
\* and two lives of a run; a ledger of three lines; a study of two packets and two pairs.
SPECIFICATION MCSpec
CONSTANTS
  Entries <- MCEntries
  CacheOf <- MCCacheOf
  Data <- MCData
  Scans <- MCScans
  Dispatchers = {p1, p2}
  Units = {1, 2}
  Readings = {1, 2}
  Legacy = Legacy
  LegacyRows <- MCLegacyRows
  HasUnits = FALSE
  Short = 1
  Operators = {p1, p2}
  Databases = {db}
  Placeholder = Placeholder
  MinClusters = 2
  Gates = {"truth"}
  Acquisitions = 2
  Losses = 1
  Importers = {p1, p2}
  Analysts = {q1}
  MaxRead = 4
  Changes = 1
  Findings = 3
  Plays = 3
  Kinds = {k1, k2}
  Lives = 2
  Lines = 3
SYMMETRY MCSymmetry
INVARIANTS
  OneCallPerUnit
  ConsensusIsEarned
  EvidenceIsSound
  CorpusIsSound
  SubmissionIsKept
  ShownIsSound
PROPERTY EvidenceStays
CHECK_DEADLOCK FALSE
