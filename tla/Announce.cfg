\* Concurrent announcements: two sessions of an address that may get banned, a
\* trusted name and a host banned in the config; limit 1, connectivity check.
SPECIFICATION Spec

CONSTANTS
  w1 = w1  w2 = w2
  h1 = h1  h2 = h2  h3 = h3
  s1 = s1  s2 = s2
  k1 = k1  k2 = k2  k3 = k3
  NoRow = NoRow

  Workers = {w1, w2}
  Hosts = {h1, h2, h3}
  NamedHosts = {h2}
  TrustedHosts = {h2}
  BannedHosts = {h3}
  Bannable = {h1}
  SessionIds = {s1, s2}
  Keys = {k1, k2, k3}
  MaxRows = 3
  Timeout = 1
  Day = 1
  MaxSessionsPerHost = 1
  MaxSessionsPerNamedHost = 2
  CheckServer = TRUE
  Persistent = TRUE
  Announcements <- SeveralHosts
  LostKeys = {}
  MaxBatch = 0
  AdminRequests = {}

SYMMETRY Symmetry
INVARIANTS
  TypeOK
  HostLimitOvershoot
  DuplicateBound
  BannedHostUnlisted
PROPERTIES
  NothingListedVanishes
