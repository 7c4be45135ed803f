\* Overlapping requests for the lists of two included servers, one of which gives
\* out no host.
SPECIFICATION Spec

CONSTANTS
  r1 = r1  r2 = r2  r3 = r3
  u1 = u1  u2 = u2
  NoEntry = NoEntry

  Urls = {u1, u2}
  Nameless = {u2}
  Requests = {r1, r2}
  CacheTtl = 1
  StatusCacheTtl = 2
  Timeout = 1

SYMMETRY Symmetry
INVARIANTS
  TypeOK
  FreshList
  IncludedHostsKnown
