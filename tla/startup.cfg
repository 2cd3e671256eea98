\* Three processes that start, register, unregister and end at any moment.
SPECIFICATION FairStartupSpec
CONSTANTS
  Process = {a, b, c}
  MaxModules = 1
  MaxEnds = 2
INVARIANTS
  HostHoldsAll
  OneHost
PROPERTIES
  ModulesGetToPage
CHECK_DEADLOCK FALSE
