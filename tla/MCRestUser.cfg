SPECIFICATION Spec
CONSTANTS
  Registrations = {r1}
  Clicks = {k1}
  Users = {u1}
  Emails = {e1, e2}
  MaxRetry = 0
  MaxShutdowns = 0
  NoUser = NoUser
INVARIANTS EveryUserHasTask
CHECK_DEADLOCK FALSE
