SPECIFICATION CarefulSpec
CONSTANTS
  Tabs = {t1, t2}
  MaxChunks = 2
  MaxWriters = 3
  MaxEpoch = 3
  GapIds = {g1}
  LateKinds <- AllKinds
  MaxLate = 1
  NoTab = NoTab
SYMMETRY TabSymmetry
INVARIANTS TypeOK HighWaterCoversAudio CompleteHoldsAllAudio AudioNeverStranded OneActiveTab
PROPERTIES AudioKeptUntilAcked OnlyLateClaimsStrand
