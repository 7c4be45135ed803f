\* Three starts, two failing statements, two requests.
SPECIFICATION FairSpec

CONSTANTS
  r1 = r1  r2 = r2  s1 = s1  b1 = b1
  NoTable = NoTable
  Requests = {r1, r2}
  Sessions = {s1}
  Bans = {b1}
  SessionTimeout = 2
  Modes = {"file", "none"}
  MaxFailures = 2
  MaxStarts = 3

CHECK_DEADLOCK FALSE

INVARIANTS
  TypeOK
  OldOrNew
  RowsSurvive
  VersionsTrue
  CutOnlyLate
PROPERTIES
  InterruptEnds
