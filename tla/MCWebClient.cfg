SPECIFICATION FairSpec
CONSTANTS
  Users = {alice, bob}
  MaxRequests = 2
  null = null
INVARIANTS DashboardNeedsUser GuestPageIsLeft StoreIsOneSession LoadingHasRequest OneRegistration
PROPERTIES ImplementsGate LoadingEnds
