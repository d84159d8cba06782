SPECIFICATION FairSpec
CONSTANTS
  Utterances = {1, 2, 3}
  PageSize = 1
  Capacity = 1
  MaxReplays = 2
  MaxReloads = 1
INVARIANTS TypeOK SequencesGapless PanelHasNoHole ExportFaithful
PROPERTIES PanelCatchesUp
