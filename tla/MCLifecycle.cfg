SPECIFICATION FairSpec
CONSTANTS
  old = old
  new = new
  Replicas = {old, new}
  Release <- Rollout
  OldVersion = 0
  MaxInFlight = 1
  NoReplica = NoReplica
INVARIANTS TypeOK ServingMeansMigrated ShutdownDrains
PROPERTIES StopsWhenAsked
