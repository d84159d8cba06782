SPECIFICATION FairSpec
CONSTANTS
  Utterances = {1, 2, 3}
  SessionOf <- TwoSessions
  Classes = {"live", "upload"}
  ClassOf <- TwoClasses
  Workers = {w1}
  WorkerClass <- OneLiveWorker
  FairClasses = {"live"}
  MaxAttempts = 1
  ClassLimit = 1
  SessionLimit = 1
  MaxWakes = 0
  MaxReplays = 0
  NoWorker = NoWorker
  s1 = s1
  s2 = s2
  w1 = w1
PROPERTIES EventuallySettled
