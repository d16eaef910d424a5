SPECIFICATION Spec
CONSTANTS
  N = 2
  Starts = {s1, s2}
  None = None
  System = 1
  Elsewhere = {1}
  Faulty = {1}
  BadSets = {{}, {1}}
  Versions = 2
INVARIANTS NoOrphanListener RulesAreLive SysProxyPointsToLive
SYMMETRY StartSymmetry
CHECK_DEADLOCK FALSE
