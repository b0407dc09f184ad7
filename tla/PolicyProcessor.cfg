SPECIFICATION Spec
CONSTANTS
  PodIDs <- MCPodIDs
  PolicyIDs <- MCPolicyIDs
  Namespace <- MCNamespace
  IgnoredNamespace = "kube-system"
  Labels <- MCLabels
  IPs <- MCIPs
  Blocks = {"block"}
  HostNetwork <- MCHostNetwork
  NoIP = 0
  NoBlock = "none"
  NoSelector = NoSelector
  NoData = NoData
  PodInputs <- MCPodInputs
  PolicyInputs <- MCPolicyInputs
  InitialPods <- MCInitialPods
  MaxEvents = 6
INVARIANTS TypeOK NoOutdatedPods
CHECK_DEADLOCK FALSE
