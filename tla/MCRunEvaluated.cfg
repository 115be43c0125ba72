\* One controller at a time, production stages only: does a passed run get its evaluation?
SPECIFICATION Spec
CONSTANTS
  c1 = c1
  c2 = c2
  Controllers = {c1}
  Together = 1
  RunnerStages = {}
  Nobody = Nobody
INVARIANT PassedIsEvaluated
CHECK_DEADLOCK FALSE
