SPECIFICATION RoutesSpec
CONSTANTS
  HostIDs = {1, 2, 3}
  ownID = 1
  PodIDs = {p1, p2}
  PodSubnet = 48
  HostParts = 4
  NetworkSize = 4
  AddrSize = 64
  VSwitchSubnet = 16
  VSwitchHostParts = 8
  VSwitchNetworkSize = 4
  HostNodeSubnet = 8
  HostNodeSize = 4
  MaxChanges = 2
  MaxResyncs = 1
  MaxFailures = 0
INVARIANTS NoRoutesToRemovedNodes
CHECK_DEADLOCK FALSE
