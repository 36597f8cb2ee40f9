CONSTANTS
  Dispatchers = {d1, d2}
  Alerts = {n1}
  Users = {u1}
  NoUser = nobody
  Owner <- MCOwner
  Devices = {1}
  UserOf <- MCUserOf
  Tokens = {1}
  InitialTokens <- MCInitialTokens
  FcmEnabled = TRUE
  AutoFlush = FALSE
  MaxFailures = 0
  MaxUnheard = 0
  MaxFaults = 0
SPECIFICATION Spec
INVARIANTS
  NoRepeatedPush
