SPECIFICATION FairSpec
CONSTANTS
  Uploads = {1}
  Workers = {w1, w2}
  Contents = {c1, c2}
  c1 = c1
  c2 = c2
  Candidates <- TwoOrOne
  MaxAttempts = 2
  MaxReplays = 1
  NoContent = NoContent
INVARIANTS TypeOK OneNormalization NoFalseDrift TranscriptComplete
PROPERTIES TakenOverChangesNothing ImplementsOutcome EveryUploadEnds
