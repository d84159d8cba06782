SPECIFICATION Spec
CONSTANTS
  Tabs = {t1}
  MaxChunks = 2
  MaxWriters = 3
  MaxEpoch = 3
  GapIds = {g1}
  LateKinds = {}
  MaxLate = 0
  NoTab = NoTab
PROPERTIES AudioKeptUntilAcked
