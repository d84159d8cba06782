SPECIFICATION Spec
CONSTANTS
  Utterances = {1}
  SessionOf <- OneUtterance
  Classes = {"live"}
  ClassOf <- OneClass
  Workers = {w1, w2}
  WorkerClass <- LiveWorkers
  FairClasses = {"live"}
  MaxAttempts = 3
  ClassLimit = 2
  SessionLimit = 2
  MaxWakes = 1
  MaxReplays = 1
  NoWorker = NoWorker
  s1 = s1
  s2 = s2
  w1 = w1
SYMMETRY WorkerSymmetry
INVARIANTS TypeOK OutcomeAgrees
PROPERTIES StaleRunsChangeNothing KeepsPromise
