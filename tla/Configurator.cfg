SPECIFICATION Spec
CONSTANTS
  NoIP = NoIP
  Pods <- MCPods
  IPAddress <- MCIPAddress
  AddrBits = 3
  PortNumbers = {80, 81}
  PolicyIDs = {1, 2}
  PolicyInputs <- MCPolicyInputs
  Renderers = {acl, vpptcp}
  MaxTxns = 2
  MaxErrors = 1
SYMMETRY Symmetry
INVARIANTS TypeOK SubtractExact RulesImplementPolicies SameSetSameRules
CHECK_DEADLOCK FALSE
