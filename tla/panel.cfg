CONSTANTS
  Clients = {b1}
  Creds = {k1}
  BufferSize = 2
  WsQueue = 2
  Unknown = Unknown
  MaxPublish = 4
  MaxRestarts = 1
  Callers = {q1, q2}
  Usernames = {root}
  Admin = root
  Addrs = {a1, a2, a3}
  LockAfter = 2
  MaxLock = 2
  ipBurst = 1
  maxGuardEntries = 2
  None = None
  MaxClock = 1
  MaxAttempts = 4
  MaxBoots = 1
  Hashers = {h1, h2, h3, h4}
  maxConcurrentHashes = 1
  maxPendingHashes = 2
  Visitors = {v1, v2}
  TokenNames = {t1}
  SessionTTL = 2
  SessionMaxLifetime = 4
  ExtendEvery = 1
  TokenLife = 2
  Never = Never
  MaxIssued = 2
  MaxTime = 5
  Limit = 2
  MaxRows = 5
  Uploads = {u1, u2}
  Contents = {x, y, z}
  Rejected = {z}
  NotInstalled = NotInstalled
  MaxNodeRestarts = 1
SPECIFICATION Spec
CHECK_DEADLOCK FALSE
INVARIANTS NothingMissed RevokedIsCut OneAdministrator HashesBounded PagesComplete ImportFilesKept
PROPERTIES LockSurvivesFlood RemovedStaysRemoved
