\* A host, an application thread and a page that may have two sockets.
SPECIFICATION StartSpec
CONSTANTS
  v0 = v0  v1 = v1
  Value <- MCValue
  Thread = {t1}
  Requester = {s1, s2}
  Definition <- WithCallback
  UpdateList <- MCUpdates
  ModuleId <- MCModuleId
  MaxCalls = 2
  MaxActs = 1
  MaxConnects = 3
SYMMETRY Sockets
INVARIANTS
  TriesAgain
  ConnectedPageLoads
  AllModulesShown
  ShownIsStored
  OneButtonEach
  SelectedShown
  ReadOnlyKept
CHECK_DEADLOCK FALSE
