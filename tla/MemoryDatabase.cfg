\* A database in memory: one connection, nothing survives a restart; the
\* response with the first key gets lost.
SPECIFICATION LiveSpec

CONSTANTS
  w1 = w1  w2 = w2
  h1 = h1  h2 = h2  h3 = h3
  s1 = s1  s2 = s2
  k1 = k1  k2 = k2  k3 = k3
  NoRow = NoRow

  Workers = {w1, w2}
  Hosts = {h1}
  NamedHosts = {}
  TrustedHosts = {}
  BannedHosts = {}
  Bannable = {}
  SessionIds = {s1}
  Keys = {k1, k2}
  MaxRows = 2
  Timeout = 1
  Day = 1
  MaxSessionsPerHost = 1
  MaxSessionsPerNamedHost = 2
  CheckServer = FALSE
  Persistent = FALSE
  Announcements <- OneSession
  LostKeys = {k1}
  MaxBatch = 1
  AdminRequests <- KickOnly

PROPERTIES
  EveryRequestAnswered
  LostListingUntouched
