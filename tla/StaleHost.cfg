\* A list is refetched before the host name's lifetime is over.
SPECIFICATION Spec

CONSTANTS
  r1 = r1  r2 = r2  r3 = r3
  u1 = u1  u2 = u2
  NoEntry = NoEntry

  Urls = {u1}
  Nameless = {}
  Requests = {r1}
  CacheTtl = 1
  StatusCacheTtl = 2
  Timeout = 1

INVARIANTS
  HostFresh
