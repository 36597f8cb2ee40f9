CONSTANTS
  Dispatchers = {d1, d2}
  Alerts = {n1}
  Users = {u1}
  NoUser = nobody
  Owner <- MCOwner
  Devices = {1, 2}
  UserOf <- MCUserOf
  Tokens = {1, 2, 3}
  InitialTokens <- MCInitialTokens
  FcmEnabled = TRUE
  AutoFlush = FALSE
  MaxFailures = 1
  MaxUnheard = 1
  MaxFaults = 1
SPECIFICATION FairSpec
INVARIANTS
  TypeOK
  SentWasAccepted
  RepeatsBounded
PROPERTIES
  OnlyDeadForgotten
  EventuallySent
