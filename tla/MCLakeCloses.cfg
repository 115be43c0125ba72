CONSTANTS
  r1 = r1
  r2 = r2
  Runs = {r1, r2}
  Order <- MCSemgrep
  Kind <- MCKind
  Findings = {1}
  Page = 2
  Changes = 2
SYMMETRY Symmetry
SPECIFICATION LakeSpec
CHECK_DEADLOCK FALSE
PROPERTY NoFalseRemediation
