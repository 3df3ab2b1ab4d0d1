CONSTANTS
  Hooks = {h1}
  Events = {e1}
  Names = {created}
  All = All
  MaxChanges = 0
  MaxFaults = 0
  NoHook = NoHook
SPECIFICATION Spec
INVARIANTS
  SubscribersAreTried
