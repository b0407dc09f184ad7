SPECIFICATION Spec
CONSTANTS
  NoNs = NoNs
  AddrBits = 3
  Pods <- MCPods
  NsIndex <- MCNsIndex
  IPOf <- MCIPOf
  PortNumbers = {80, 81}
  Profiles <- MCProfiles
  ProxyRules <- MCProxyRules
  chanBufSize = 4
  MaxTxns = 3
  MaxRenders = 2
  MaxErrors = 1
  MaxRestarts = 1
INVARIANTS TypeOK VPPMatchesCache SessionRulesImplementPolicies ProxyRulesKept
CHECK_DEADLOCK FALSE
