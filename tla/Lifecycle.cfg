\* A session announced, refreshed in batches, administrated, cleaned up; restarts.
SPECIFICATION Spec

CONSTANTS
  w1 = w1  w2 = w2
  h1 = h1  h2 = h2  h3 = h3
  s1 = s1  s2 = s2
  k1 = k1  k2 = k2  k3 = k3
  NoRow = NoRow

  Workers = {w1, w2}
  Hosts = {h1}
  NamedHosts = {}
  TrustedHosts = {}
  BannedHosts = {}
  Bannable = {}
  SessionIds = {s1}
  Keys = {k1, k2}
  MaxRows = 2
  Timeout = 1
  Day = 2
  MaxSessionsPerHost = 1
  MaxSessionsPerNamedHost = 2
  CheckServer = FALSE
  Persistent = TRUE
  Announcements <- OneSession
  LostKeys = {}
  MaxBatch = 2
  AdminRequests <- KickAndRelist

SYMMETRY Symmetry
INVARIANTS
  RefusalStands
  QueriesAgree
PROPERTIES
  KickSticks
  ImplementsLifecycle
