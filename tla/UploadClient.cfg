SPECIFICATION FairSpec
CONSTANTS
  TusIds = {t1, t2}
  Calls = {h1, h2}
  Declared = 2
  MaxChanges = 1
  HookTries = 2
  MaxFaults = 3
  LosesPosts = TRUE
  NoTus = NoTus
  NoIdentity = NoIdentity
  NoHook = NoHook
INVARIANTS ClientTypeOK CompletionConsistent ProgressTruthful DurableClaimTrue
PROPERTIES PublishedAsStored CompletionFinal RetryEnds
CHECK_DEADLOCK FALSE
