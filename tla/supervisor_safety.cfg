CONSTANTS
  Cameras = {c1}
  Autostart = {c1}
  Sessions = {s1, s2}
  Requests = {r1, r2}
  NoCamera = NoCamera
  NoSession = NoSession
  Unlocked = Unlocked
  Timer = Timer
  Reconciler = Reconciler
  MaxAutoRetries = 1
  MaxDue = 1
  MaxStops = 1
  MaxRejects = 1
  MaxDestroyFailures = 1
SPECIFICATION SafetySpec
SYMMETRY Symmetry
INVARIANTS TypeOK OneSession NoOrphan StatusSettles
PROPERTIES StartsOnlyWhenDesired StopLeavesNothing
