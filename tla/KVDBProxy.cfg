SPECIFICATION ProxyFairSpec
CONSTANTS
  OwnKeys = {k1, k2}
  ForeignKeys = {f1}
  Configs = {v1, v2}
  NoConfig = NoConfig
  MaxWrites = 3
  MaxFailures = 1
INVARIANTS ProxyTypeOK OwnEventsIgnored VPPConverges
PROPERTIES PersistTerminates
CHECK_DEADLOCK FALSE
