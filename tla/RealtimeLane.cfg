SPECIFICATION Spec
CONSTANTS
  MaxEpoch = 2
  MaxFrames = 7
  PreRoll = 2
  MinVoiced = 2
  Silence = 2
  HardMax = 5
INVARIANTS GenerationsInOrder LaneFaithful
CHECK_DEADLOCK FALSE
