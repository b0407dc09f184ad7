SPECIFICATION Spec
CONSTANTS
  Interfaces = {i1, i2}
  Directions = {"ingress"}
  MaxRules = 2
  MaxTxns = 3
  MaxErrors = 1
  NoPrivate = NoPrivate
SYMMETRY Symmetry
INVARIANTS TypeOK CacheConsistent NoRenderPanic VPPEnforcesCache WantedIsEnforced
CHECK_DEADLOCK FALSE
