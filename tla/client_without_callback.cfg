\* An instance that is not the host registers a module without a callback.
SPECIFICATION AppSpec
CONSTANTS
  v0 = v0  v1 = v1  v2 = v2
  Value <- MCValue
  Thread = {t1}
  Requester = {p1}
  Definition <- WithoutCallback
  UpdateList <- MCUpdates
  ModuleId <- MCModuleId
  Hosts = {FALSE}
  CallbackCalls = {}
  MaxCalls = 1
  MaxRequests = 1
INVARIANTS
  NoNullServer
CHECK_DEADLOCK FALSE
