SPECIFICATION Spec
CONSTANTS
  NoIP = NoIP
  Pods <- MCPods
  IPAddress <- MCIPAddress
  AddrBits = 3
  PortNumbers = {80, 81}
  PolicyIDs = {1}
  PolicyInputs <- TwoBlocks
  Renderers = {acl}
  MaxTxns = 1
  MaxErrors = 0
INVARIANTS RulesImplementPolicies
CHECK_DEADLOCK FALSE
