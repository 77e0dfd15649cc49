SPECIFICATION Spec
CONSTANTS
  MaxCount = 2
  Word = 2
  Block = 4
  StagingMax = 8
  BufBytes = 12
INVARIANTS TypeOK ListFlagCoversHost NeverRefused ReadsTheRange SubmittedTruth
