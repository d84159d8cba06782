SPECIFICATION ResultsSpec
CONSTANTS
  Uploads = {1}
  Workers = {w1}
  Contents = {c1}
  c1 = c1
  Candidates <- One
  MaxAttempts = 1
  MaxReplays = 0
  NoContent = NoContent
PROPERTY NoSpeechTruthful
