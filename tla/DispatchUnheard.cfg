CONSTANTS
  Dispatchers = {d1}
  Alerts = {n1}
  Users = {u1}
  NoUser = nobody
  Owner <- MCOwner
  Devices = {1}
  UserOf <- MCUserOf
  Tokens = {1}
  InitialTokens <- MCInitialTokens
  FcmEnabled = TRUE
  AutoFlush = FALSE
  MaxFailures = 0
  MaxUnheard = 1
  MaxFaults = 1
SPECIFICATION Spec
INVARIANTS
  NoRepeatedPush
