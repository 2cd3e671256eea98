\* Two pages, a Java thread, and Java objects that update and unregister.
SPECIFICATION FairJniSpec
CONSTANTS
  v0 = v0  v1 = v1  v2 = v2
  Value <- MCValue
  Thread = {msg, j1}
  Msg = msg
  Requester = {p1, p2}
  Definition <- MCDefinition
  UpdateList <- MCUpdates
  ModuleId <- MCModuleId
  JavaCalls = {"unregisterModule", "updateProperties"}
  MaxCalls = 2
  MaxRequests = 2
INVARIANTS
  InOrder
  NoLostWakeUp
PROPERTIES
  LostOnlyEarly
  UpdatesArrive
  RegisterReturnsAlways
  RequestsAnswered
CHECK_DEADLOCK FALSE
