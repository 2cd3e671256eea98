\* Two threads, a page, callbacks that make every call; host or not.
SPECIFICATION AppSpec
CONSTANTS
  v0 = v0  v1 = v1  v2 = v2
  Value <- MCValue
  Thread = {t1, t2}
  Requester = {p1}
  Definition <- BothKinds
  UpdateList <- MCUpdates
  ModuleId <- MCModuleId
  Hosts = {TRUE, FALSE}
  CallbackCalls = {"RegisterModule", "UnregisterModule", "UpdateProperties"}
  MaxCalls = 3
  MaxRequests = 2
INVARIANTS
  AppTypeOK
  RegistrationsAccounted
  RequestsAccounted
  PageShowsRegistry
  SingleWriterAgrees
  NoIdTwice
  NoLateCallback
PROPERTIES
  ImplementsRegistry
CHECK_DEADLOCK FALSE
