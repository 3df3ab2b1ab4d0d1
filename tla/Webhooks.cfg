CONSTANTS
  Hooks = {h1, h2}
  Events = {e1, e2}
  Names = {created}
  All = All
  MaxChanges = 1
  MaxFaults = 1
  NoHook = NoHook
SPECIFICATION FairSpec
INVARIANTS
  SentOnceToReady
PROPERTIES
  EveryHookHasItsTurn
