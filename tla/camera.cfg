CONSTANTS
  Requesters = {r1}
  Notices = 3
  InboxSize = 2
  SocketSize = 1
  Engines = 2
  MaxMessages = 3
  Targets = {t1, t2}
  MaxEvents = 1
  Retries = 1
  MaxParallel = 1
  MaxToggles = 1
  MaxLost = 1
  Editors = {e1, e2}
  Clients = {h1}
  ParamValues = {1, 2}
  LinkedTargets = {t1, t2}
  MaxClientChanges = 1
  MaxSessions = 2
  NoCamera = NoCamera
  Workers = {w1, w2}
  MaxIds = 3
  Names = {1, 2, 3}
  AskedNames = {2, 3}
  AskedIPs = {1, 2}
  AskedMACs = {2}
  SubnetSize = 6
  Gateway = 4
  Protocols = {1, 2}
  TargetIds = {t1}
  MaxCameras = 1
  MaxRequests = 3
  NoRow = NoRow
SPECIFICATION Spec
CHECK_DEADLOCK FALSE
INVARIANTS
  ReadyMeansServing NoReportOrphaned AgreeUnlessRaced
  RowsConsistent PortsDistinct LimitPassedOnlyByRaces
PROPERTIES RequestsReturn DeliveriesSettle
