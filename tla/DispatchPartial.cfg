CONSTANTS
  Dispatchers = {d1}
  Alerts = {n1}
  Users = {u1}
  NoUser = nobody
  Owner <- MCOwner
  Devices = {1, 2}
  UserOf <- MCUserOf
  Tokens = {1, 2}
  InitialTokens <- MCInitialTokens
  FcmEnabled = TRUE
  AutoFlush = FALSE
  MaxFailures = 0
  MaxUnheard = 0
  MaxFaults = 0
SPECIFICATION TokenFairSpec
PROPERTIES
  EveryDeviceReached
