\* Two listings, one after the other or side by side, that nobody refreshes, and an
\* administrator who updates by the ids of an old list; a file database.
SPECIFICATION AdminLiveSpec

CONSTANTS
  w1 = w1  w2 = w2
  h1 = h1  h2 = h2  h3 = h3
  s1 = s1  s2 = s2
  k1 = k1  k2 = k2  k3 = k3
  NoRow = NoRow

  Workers = {w1}
  Hosts = {h1}
  NamedHosts = {}
  TrustedHosts = {}
  BannedHosts = {}
  Bannable = {}
  SessionIds = {s1, s2}
  Keys = {k1, k2}
  MaxRows = 2
  Timeout = 1
  Day = 2
  MaxSessionsPerHost = 2
  MaxSessionsPerNamedHost = 2
  CheckServer = FALSE
  Persistent = TRUE
  Announcements <- TwoSessions
  LostKeys = {}
  MaxBatch = 1
  AdminRequests <- KickOnly

INVARIANTS
  SeenStands
PROPERTIES
  AbandonedLeavesList
  ExpiredIsPurged
