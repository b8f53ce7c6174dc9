CONSTANTS
  Cameras = {c1}
  Autostart = {c1}
  Sessions = {s1, s2}
  Requests = {}
  NoCamera = NoCamera
  NoSession = NoSession
  Unlocked = Unlocked
  Timer = Timer
  Reconciler = Reconciler
  MaxAutoRetries = 0
  MaxDue = 1
  MaxStops = 1
  MaxRejects = 0
  MaxDestroyFailures = 0
SPECIFICATION Spec
INVARIANT RunStopsEveryCamera
