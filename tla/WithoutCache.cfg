\* No lifetime: every request fetches every list.
SPECIFICATION LiveSpec

CONSTANTS
  r1 = r1  r2 = r2  r3 = r3
  u1 = u1  u2 = u2
  NoEntry = NoEntry

  Urls = {u1, u2}
  Nameless = {}
  Requests = {r1}
  CacheTtl = 0
  StatusCacheTtl = 0
  Timeout = 1

INVARIANTS
  FreshList
PROPERTIES
  EveryListAnswered
