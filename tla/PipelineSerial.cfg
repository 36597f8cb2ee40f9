CONSTANTS
  Cycles = {c1, c2}
  Clients = {}
  Keys <- SplitAndMessage
  Subs <- ThreeSubs
  InitialSubs <- ThreeSubs
  AutoFlush = FALSE
  MaxFailures = 1
  Overlapping = FALSE
  Regions <- MCRegions
  NoRegion = "none"
  Matching <- MCMatching
  Persons <- MCPersons
  Kinds <- MCKinds
  Profiles <- MCProfiles
  Profile <- MCProfile
  Layer1 <- MCLayer1
  Cutoff = 1
SPECIFICATION FairSpec
INVARIANTS
  OneAlertPerMessage
  AiAlertsLogged
PROPERTIES
  EventuallySettled
  RepeatsOnlyWithinALoop
