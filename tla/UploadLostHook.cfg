SPECIFICATION FairSpec
CONSTANTS
  TusIds = {t1, t2}
  Calls = {h1, h2}
  Declared = 2
  MaxChanges = 0
  HookTries = 2
  MaxFaults = 1
  LosesPosts = FALSE
  NoTus = NoTus
  NoIdentity = NoIdentity
  NoHook = NoHook
PROPERTY RetrySafely
CHECK_DEADLOCK FALSE
