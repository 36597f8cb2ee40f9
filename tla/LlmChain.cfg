CONSTANTS
  Threads = {t1, t2}
  Providers = {"primary", "fallback"}
  Chain <- MCChain
  Combos = {"ruled", "unruled"}
  Ruled = {"ruled"}
  Levels = {"HIGH", "LOW"}
  Cooldown = 3
  MaxChat = 1
  MaxTime = 5
  MaxRestarts = 1
SPECIFICATION FairSpec
INVARIANTS
  TypeOK
  FallbackJustified
PROPERTIES
  QuarantineHolds
  RuledAlertDelivered
