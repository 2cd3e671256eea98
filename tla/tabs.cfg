\* A module is registered while a page loads.
SPECIFICATION WebSpec
CONSTANTS
  v0 = v0  v1 = v1
  Value <- MCValue
  Thread = {t1}
  Requester = {s1}
  Definition <- WithCallback
  UpdateList <- MCUpdates
  ModuleId <- MCModuleId
  MaxCalls = 2
  MaxActs = 0
  MaxConnects = 1
INVARIANTS
  OneTabPerModule
CHECK_DEADLOCK FALSE
