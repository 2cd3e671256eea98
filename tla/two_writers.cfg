\* Two threads update one property of one module.
SPECIFICATION AppSpec
CONSTANTS
  v0 = v0  v1 = v1  v2 = v2
  Value <- MCValue
  Thread = {t1, t2}
  Requester = {p1}
  Definition <- WithCallback
  UpdateList <- MCUpdates
  ModuleId <- MCModuleId
  Hosts = {TRUE}
  CallbackCalls = {}
  MaxCalls = 3
  MaxRequests = 0
INVARIANTS
  PageAgrees
CHECK_DEADLOCK FALSE
