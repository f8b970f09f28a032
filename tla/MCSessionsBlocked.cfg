SPECIFICATION Spec
CONSTANTS
  Logins = {l1}
  Renewals = {n1}
  Updates = {c1}
  Users = {u1, u2}
  Passwords = {p1, p2}
  AccessDuration = 1
  RefreshDuration = 1
  MaxTime = 3
  NoSession = NoSession
  NoArg = NoArg
SYMMETRY NameSymmetry
PROPERTIES BlockedIsLoggedOut
CHECK_DEADLOCK FALSE
