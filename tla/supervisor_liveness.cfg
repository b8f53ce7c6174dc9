CONSTANTS
  Cameras = {c1}
  Autostart = {c1}
  Sessions = {s1}
  Requests = {r1}
  NoCamera = NoCamera
  NoSession = NoSession
  Unlocked = Unlocked
  Timer = Timer
  Reconciler = Reconciler
  MaxAutoRetries = 1
  MaxDue = 1
  MaxStops = 1
  MaxRejects = 0
  MaxDestroyFailures = 1
SPECIFICATION OneFaultSpec
PROPERTIES OrphansRemoved DesiredIsReachedUnlessStuck RequestsReturn ShutdownEnds
