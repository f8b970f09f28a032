SPECIFICATION Spec
CONSTANTS
  Registrations = {r1, r2}
  Clicks = {k1}
  Users = {u1, u2}
  Emails = {e1, e2}
  MaxRetry = 0
  MaxShutdowns = 0
  NoUser = NoUser
SYMMETRY NameSymmetry
INVARIANTS LinkReachesItsUser CreatedUserHasTask UniqueUsers
PROPERTIES ImplementsVerification
CHECK_DEADLOCK FALSE
