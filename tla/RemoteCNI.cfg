SPECIFICATION CNIFairSpec
CONSTANTS
  HostIDs = {1}
  hostID = 1
  c1 = c1
  c2 = c2
  Containers = {c1, c2}
  PodIDs = {c1, c2}
  Pods = {"pod1", "pod2"}
  Setups <- MCSetups
  LastOctet = 255
  PodSubnet = 0
  HostParts = 2
  NetworkSize = 4
  AddrSize = 8
  MaxErrors = 1
  MaxRestarts = 1
  MaxResyncs = 2
  MaxRetries = 2
INVARIANTS CNITypeOK ConnectedIsComplete PodIPsExclusive DeletedIsDisconnected InterconnectFirst
PROPERTIES EveryRequestAnswered
CHECK_DEADLOCK FALSE
