CONSTANTS
  Cycles = {c1, c2}
  Clients = {}
  Keys <- WarningOnly
  Subs <- OneSub
  InitialSubs <- OneSub
  AutoFlush = FALSE
  MaxFailures = 0
  Overlapping = TRUE
  Regions <- MCRegions
  NoRegion = "none"
  Matching <- MCMatching
  Persons <- MCPersons
  Kinds <- MCKinds
  Profiles <- MCProfiles
  Profile <- MCProfile
  Layer1 <- MCLayer1
  Cutoff = 1
SPECIFICATION Spec
INVARIANTS
  UniqueEvents
