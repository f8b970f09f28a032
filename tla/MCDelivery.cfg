SPECIFICATION FairSpec
CONSTANTS
  Registrations = {r1}
  Clicks = {k1, k2}
  Users = {u1}
  Emails = {e1}
  MaxRetry = 1
  MaxShutdowns = 1
  NoUser = NoUser
INVARIANTS TypeOK VerifiedByUsedLink LinkIsUsedOnce
PROPERTIES CreatedUserIsMailed
CHECK_DEADLOCK FALSE
