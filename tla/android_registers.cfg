\* A Java object registers a module when it is called.
SPECIFICATION FairJniSpec
CONSTANTS
  v0 = v0  v1 = v1  v2 = v2
  Value <- MCValue
  Thread = {msg, j1}
  Msg = msg
  Requester = {p1, p2}
  Definition <- MCDefinition
  UpdateList <- OneUpdate
  ModuleId <- MCModuleId
  JavaCalls = {"registerModule"}
  MaxCalls = 2
  MaxRequests = 2
PROPERTIES
  ObjectsReturn
CHECK_DEADLOCK FALSE
