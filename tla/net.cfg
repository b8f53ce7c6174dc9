CONSTANTS
  Cams = {c1}
  Reqs = {r1, r2, r3}
  Nobody = Nobody
  maxHelperRequests = 2
  MaxFailures = 1
  MaxStarts = 1
  LocalCams = {c1}
  Launches = {l1, l2}
  Destroys = {d1, d2}
  NoProc = NoProc
  Hosts = {h1, h2, h3}
  probeCount = 3
  probeWait = 2
  MaxDelay = 2
  Horizon = 12
SPECIFICATION Spec
CHECK_DEADLOCK FALSE
INVARIANTS OneOwner
PROPERTIES RequestsAnswered ImplementsRuntime LocalImplementsRuntime
