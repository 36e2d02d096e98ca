SPECIFICATION Spec
CONSTANTS
  c1 = c1
  MaxNumRecords = 4
  Columns = {c1}
  MinValue = 1
  MaxValue = 3
  DefaultVal = 2
  NumBits = 2
  Deltas <- DeltasOfOne
  ImportData <- Imports
PROPERTY DeleteClosesGap
