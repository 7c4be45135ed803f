\* Bans of two hosts, one spelled in two ways, over three days.
SPECIFICATION Spec

CONSTANTS
  a1 = a1  a2 = a2  w1 = w1
  upper = upper  lower = lower  other = other
  Never = Never
  NoBan = NoBan
  NoView = NoView

  Spellings = {upper, lower, other}
  Fold <- FoldCase
  Dates = {1, 2}
  LastDay = 2
  MaxBans = 2
  MaxChanges = 3
  Admins = {a1, a2}
  Workers = {w1}
  Persistent = TRUE

SYMMETRY Symmetry
INVARIANTS
  TypeOK
  InForceUntilDate
  LateBansOnly
  SeenOrNewer
PROPERTY
  ImplementsRegister
