CONSTANTS
  PageSize = 2
  Contents <- MCContents
  Days = 2
  MaxSent = 3
  Burst = 2
  MaxFailures = 1
  MaxReads = 1
SPECIFICATION FairSpec
INVARIANTS
  TypeOK
  SeenIsStored
  EachHazardOnce
PROPERTY LastPageEventuallyStored
