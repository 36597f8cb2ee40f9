CONSTANTS
  Browsers = {b1}
  Tabs = {"t1", "t2"}
  BrowserOf <- MCBrowserOf
  Accounts = {"u1", "u2"}
  NoUser = "nobody"
  MayLogin <- MCMayLogin
  Forms <- MCForms
  FirstOwner <- MCFirstOwner
  PersonLimit = 2
  MaxFailures = 1
SPECIFICATION FairSpec
INVARIANTS
  TypeOK
  OneSubscription
  LimitKept
  RetryReuses
PROPERTIES
  DoneIsReachable
  EventuallyAnswered
