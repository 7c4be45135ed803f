\* Two requests on two roles and two users, administrators and others.
SPECIFICATION Spec

CONSTANTS
  w1 = w1  w2 = w2
  admins = admins  viewers = viewers
  ann = ann  bob = bob
  p1 = p1  p2 = p2
  b1 = b1  b2 = b2  b3 = b3
  NoRow = NoRow
  KeepPassword = KeepPassword

  Requests = {w1, w2}
  RoleNames = {admins, viewers}
  UserNames = {ann, bob}
  Passwords = {p1, p2}
  MaxRoles = 2
  MaxUsers = 2
  Births = {b1, b2, b3}
  RoleInputs <- SomeRoles
  UserInputs <- SomeUsers

SYMMETRY Symmetry
INVARIANTS
  TypeOK
  NamesResolve
PROPERTIES
  RoleAsNamed
  OwnPasswordOnly
  AuthorityNotGained
