SPECIFICATION Spec
CONSTANTS
  StepIds = {collect, write}
  Fingerprints = {f1, f2}
  MaxActions = 4
  MaxFailures = 2
  MaxPlan = 2
INVARIANTS
  TypeOK
  PlanMatchesTrajectory
  NoWrongRouteTwice
  FailuresStopTheTurn
PROPERTIES
  CompletionsSurvive
  AnswersRestOnWork
  TurnEnds
  ImplementsLoop
