CONSTANTS
  Executions = {e1, e2}
  StepCount = 4
  MaxDbErrors = 1
  MaxCrashes = 1
  Keys = {k1, k2}
SPECIFICATION FairSetupSpec
INVARIANTS
  TypeOK
  RowTellsEffects
  RowTellsProjectWhenAlone
PROPERTIES
  EveryExecutionEnds
  KeepsPromise
