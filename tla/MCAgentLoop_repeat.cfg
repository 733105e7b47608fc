SPECIFICATION Safety
CONSTANTS
  StepIds = {collect}
  Fingerprints = {f1}
  MaxActions = 2
  MaxFailures = 3
  MaxPlan = 1
INVARIANTS
  NoFailedActionTwice
