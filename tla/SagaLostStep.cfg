CONSTANTS
  Executions = {e1}
  StepCount = 4
  MaxDbErrors = 1
  MaxCrashes = 0
  Keys = {k1}
SPECIFICATION FairSetupSpec
INVARIANTS
  CompletedStepsCompensated
