CONSTANTS
  Editors = {e1, e2}
  Clients = {h1}
  ParamValues = {1, 2}
  LinkedTargets = {t1, t2}
  MaxClientChanges = 1
  MaxSessions = 2
  NoCamera = NoCamera
SPECIFICATION SettingsSpec
CHECK_DEADLOCK FALSE
INVARIANTS DisabledTargetsReachCamera
