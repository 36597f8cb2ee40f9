CONSTANTS
  Cycles = {c1, c2}
  Clients = {x1}
  Keys <- WarningOnly
  Subs <- NearAndFar
  InitialSubs <- NoSubs
  AutoFlush = FALSE
  MaxFailures = 1
  Overlapping = TRUE
  Regions <- MCRegions
  NoRegion = "none"
  Matching <- MCMatching
  Persons <- MCPersons
  Kinds <- MCKinds
  Profiles <- MCProfiles
  Profile <- MCProfile
  Layer1 <- MCLayer1
  Cutoff = 1
SYMMETRY CycleSymmetry
SPECIFICATION Spec
INVARIANTS
  TypeOK
  EveryAlertOwed
  NoMissedAlert
  OwnAlertsNotRepeated
PROPERTIES
  ImplementsAlerting
