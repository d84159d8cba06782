SPECIFICATION Spec
CONSTANTS
  Writers = {w1, w2}
  Tokens = {t1}
  Payloads = {p1, p2}
  GapIds = {g1}
  Sequences = {1, 2}
  Boundaries = {0, 1, 2}
  EndTimes = {1, 2}
  MaxEpoch = 3
  NoWriter = NoWriter
  NoToken = NoToken
  NoPayload = NoPayload
SYMMETRY WriterSymmetry
INVARIANTS TypeOK AcceptedAudioDurable OneWriterPerGeneration BoundaryAccounted CompletenessTruthful
PROPERTIES SupersededEvidenceFrozen BoundaryPinsOwner
