CONSTANTS
  Cycles = {c1}
  Clients = {}
  Keys <- UnruledKeys
  Subs <- OneSub
  InitialSubs <- OneSub
  AutoFlush = FALSE
  MaxFailures = 0
  Overlapping = FALSE
  Regions <- MCRegions
  NoRegion = "none"
  Matching <- MCMatching
  Persons <- MCPersons
  Kinds <- MCKinds
  Profiles <- MCProfiles
  Profile <- MCProfile
  Layer1 <- MCLayer1
  Cutoff = 1
SPECIFICATION FairSpec
PROPERTIES
  EventuallyJudged
