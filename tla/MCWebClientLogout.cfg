SPECIFICATION FairSpec
CONSTANTS
  Users = {alice}
  MaxRequests = 2
  null = null
PROPERTIES LogoutIsFinal
