SPECIFICATION Spec
CONSTANTS
  Tabs = {t1}
  MaxChunks = 2
  MaxWriters = 3
  MaxEpoch = 3
  GapIds = {g1}
  LateKinds <- AllKinds
  MaxLate = 1
  NoTab = NoTab
INVARIANTS SessionStaysRecoverable
