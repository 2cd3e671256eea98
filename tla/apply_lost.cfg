\* The page changes a module the host has just registered for a peer.
SPECIFICATION ProxySpec
CONSTANTS
  v0 = v0  v1 = v1
  Value <- MCValue
  Thread = {net}
  Net = net
  Requester = {p1}
  Peer = {a}
  Remote <- MCRemote
  Definition <- MCDefinition
  UpdateList <- MCUpdates
  ModuleId <- MCModuleId
  MaxMessages = 1
  MaxCloses = 0
  MaxCalls = 1
INVARIANTS
  OwnerIsTold
CHECK_DEADLOCK FALSE
