\* A host with a page and two other instances, one of which may end.
SPECIFICATION FairProxySpec
CONSTANTS
  v0 = v0  v1 = v1
  Value <- MCValue
  Thread = {net, t1}
  Net = net
  Requester = {p1}
  Peer = {a, b}
  Remote <- MCRemote
  Definition <- MCDefinition
  UpdateList <- MCUpdates
  ModuleId <- MCModuleId
  MaxMessages = 3
  MaxCloses = 1
  MaxCalls = 2
INVARIANTS
  RightOwner
  NoOrphans
  HostFollowsOwner
PROPERTIES
  LostPeersLeave
CHECK_DEADLOCK FALSE
