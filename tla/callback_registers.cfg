\* A callback registers a module, as the example does.
SPECIFICATION FairSpec
CONSTANTS
  v0 = v0  v1 = v1  v2 = v2
  Value <- MCValue
  Thread = {t1}
  Requester = {p1}
  Definition <- WithCallback
  UpdateList <- MCUpdates
  ModuleId <- MCModuleId
  Hosts = {TRUE}
  CallbackCalls = {"RegisterModule"}
  MaxCalls = 2
  MaxRequests = 1
PROPERTIES
  CallbacksEnd
CHECK_DEADLOCK FALSE
