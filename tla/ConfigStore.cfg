SPECIFICATION Spec
CONSTANTS
  UI = UI
  Workers = {w1}
  Urls <- MCUrls
  u1 = u1
  u2 = u2
  Titles = {T, H}
  T = T
  H = H
  Host <- MCHost
  Bases = {A, B}
  Dotted = {B}
  RuleIds <- MCRuleIds
  r1 = r1
  r2 = r2
  Preset <- MCPreset
  Keys = {k1, k2}
  Manual = Manual
  None = None
  MaxCommands = 3
  MaxServers = 3
  MaxRules = 2
INVARIANTS ConfigIsSound KeysAgree
PROPERTY ManualNodesSurvive
CHECK_DEADLOCK FALSE
