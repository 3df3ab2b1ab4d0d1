CONSTANTS
  Relays = {r1, r2}
  MaxRetries = 2
  BatchSize = 1
  MaxMessages = 2
  MaxFaults = 2
  NoRow = NoRow
SPECIFICATION FairSpec
INVARIANTS
  TypeOK
  RowsTellTruth
  UnpublishedStaysStored
  AttemptsAccounted
PROPERTIES
  RowsAdvance
  EveryMessageSettles
