CONSTANTS
  Interval = 2
  MaxDelay = 1
  Clients = {"hrfco_flood"}
  LatestSlot = 3
  LastSlot <- MCLastSlot
  DayLength = 1
  WarningDays = 1
  QuakeDays = 1
  LevelSlots = 1
  PageSize = 4
  Areas = {"south", "west", "hills"}
  TypeOf <- MCTypeOf
  Snapshots <- MCSnapshots
  Magnitudes = {3, 4}
  Excepted = {"west"}
  Stations <- MCStations
  RegionOf <- MCRegionOf
  Attention <- MCAttention
  Warning <- MCWarning
  LevelsAt <- MCLevelsAt
  NoLevel = NoLevel
  Unreadable = {1}
  MaxFailures = 1
SPECIFICATION Spec
INVARIANTS
  CallsApart
