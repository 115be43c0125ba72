\* Two controllers inside at once, kills anywhere, a component runner for three stages.
SPECIFICATION Spec
CONSTANTS
  c1 = c1
  c2 = c2
  Controllers = {c1, c2}
  Together = 2
  RunnerStages = {"analysis-report", "approval", "response-guard"}
  Nobody = Nobody
SYMMETRY Symmetry
INVARIANTS
  EffectsOnce
  VerdictIsEarned
  OutcomeIsFinal
  NothingStranded
PROPERTY KeepsLedger
CHECK_DEADLOCK FALSE
